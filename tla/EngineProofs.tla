----------------------------- MODULE EngineProofs -----------------------------
(***************************************************************************)
(* Proofs about OffloadEngine: the connector's jobs agree at all times     *)
(* with the manager below it, with the fences on GPU blocks and with what  *)
(* the workers have yet to report; and no store writes a CPU slot that a   *)
(* load reads, but for one case after a reset.  For any requests, tokens,  *)
(* blocks, slots and workers, with and without a window, mirroring and     *)
(* local hits.                                                             *)
(***************************************************************************)
EXTENDS OffloadEngine, ProofBasics, FiniteSetTheorems, SequenceTheorems, TLAPS

-----------------------------------------------------------------------------
(***************************************************************************)
(* The inductive invariant.                                                *)
(***************************************************************************)
Cell == GpuBlock \cup {0}

IsJob(x) ==
    /\ x = [req |-> x.req, pending |-> x.pending, keys |-> x.keys,
            is_store |-> x.is_store, fenced |-> x.fenced, deferred |-> x.deferred]
    /\ x.req \in Req /\ x.pending \in Nat \ {0} /\ x.is_store \in BOOLEAN
    /\ x.fenced \in SUBSET GpuBlock /\ x.deferred \in SUBSET GpuBlock

IsTransfer(x) ==
    /\ x = [req |-> x.req, is_store |-> x.is_store, pairs |-> x.pairs,
            at |-> x.at, left |-> x.left, done |-> x.done]
    /\ x.left \in SUBSET Worker /\ x.done \in SUBSET Worker
    /\ x.left \cap x.done = {}

\* What the requests and the core scheduler's step are.
RequestShapes ==
    /\ status \in [Req -> {"waiting", "remote", "loaded", "running",
                           "finished", "aborted"}]
    /\ computed \in [Req -> Nat] /\ tokens \in [Req -> Nat] /\ batch \in [Req -> Nat]
    /\ table \in [Req -> Seq(Cell)] /\ newIds \in [Req -> Seq(Cell)]
    /\ finishedIds \in SUBSET Req
    /\ phase \in {"schedule", "stores", "submit", "forward", "update", "outputs"}

\* What the connector's tables are.
ConnectorShapes ==
    /\ blockIds \in [Req -> Seq(Cell)] /\ stored \in [Req -> Nat]
    /\ signaled \in SUBSET Req /\ tracked \in SUBSET Req /\ todo \in SUBSET tracked
    /\ batchAlloc \in SUBSET GpuBlock
    /\ jobCounter \in Nat /\ staleBelow \in 0 .. jobCounter
    /\ toFlush \in SUBSET JobIds /\ waitFor \in SUBSET JobIds
    /\ DOMAIN transfers \in SUBSET JobIds
    /\ \A j \in DOMAIN jobs : IsJob(jobs[j])
    /\ \A j \in DOMAIN transfers : IsTransfer(transfers[j])

\* No request computes more tokens than it has, a scheduled request is running,
\* and one that goes on has a token left to sample.
Amounts ==
    /\ \A r \in Req : /\ tokens[r] \in 1 .. MaxTokens
                      /\ ~Finished(r) => tokens[r] < MaxTokens
                      /\ computed[r] <= tokens[r]
                      /\ batch[r] > 0 => status[r] = "running"
    /\ phase \in {"schedule", "stores"} =>
          \A r \in Req : computed[r] + batch[r] <= tokens[r]
    /\ phase = "schedule" => \A r \in Req : batch[r] > 0 => r \in seen
    /\ phase = "outputs" => seen = {} /\ \A r \in Req : batch[r] = 0

\* The connector tracks every request that goes on and every request that has
\* a job, and was told the end only of those that ended.
Tracked ==
    /\ \A r \in Req : ~Finished(r) => r \in tracked
    /\ \A r \in finishedIds \cup signaled : Finished(r)
    /\ phase # "stores" => todo = {}
    /\ \A j \in DOMAIN jobs : jobs[j].req \in tracked

\* The reports that the connector has yet to count for transfer j.
Uncounted(j) ==
    Cardinality(transfers[j].left) + Cardinality(transfers[j].done)
      + IF j \in DOMAIN outs THEN outs[j] ELSE 0

\* A job waits for as many reports as are to come, and every transfer since
\* the last reset of which reports are to come has its job.
Counted ==
    /\ \A j \in DOMAIN jobs : /\ j \in DOMAIN transfers /\ ~JobStale(j)
                              /\ jobs[j].pending = Uncounted(j)
    /\ \A j \in DOMAIN transfers :
          ~JobStale(j) /\ Uncounted(j) > 0 => j \in DOMAIN jobs
    /\ DOMAIN outs \in SUBSET DOMAIN transfers
    /\ outs \in [DOMAIN outs -> 1 .. Cardinality(Worker)]
    /\ phase # "outputs" => DOMAIN outs = {}
    /\ phase \notin {"forward", "update"} =>
          \A j \in DOMAIN transfers : transfers[j].done = {}

\* The jobs that read, and that write, the tier's block of key k.
ReadersOf(k) == {j \in DOMAIN jobs : ~jobs[j].is_store /\ k \in jobs[j].keys}
WritersOf(k) == {j \in DOMAIN jobs : jobs[j].is_store /\ k \in jobs[j].keys}

\* ref_cnt counts the loads of a block, or is -1 under the one store of it.
Pinned(k) ==
    /\ blocks[k] = [ref_cnt |-> blocks[k].ref_cnt, block_id |-> blocks[k].block_id]
    /\ IF WritersOf(k) = {} THEN blocks[k].ref_cnt = Cardinality(ReadersOf(k))
       ELSE /\ blocks[k].ref_cnt = -1
            /\ ReadersOf(k) = {}
            /\ \A i, j \in WritersOf(k) : i = j

Pins ==
    /\ \A k \in Cached : Pinned(k)
    /\ \A j \in DOMAIN jobs : jobs[j].keys \subseteq Cached

\* The fences, as functions.
Fences ==
    pendingOf = [b \in GpuBlock |-> {j \in DOMAIN jobs :
        b \in jobs[j].fenced \/ (b \in jobs[j].deferred /\ Finished(jobs[j].req))}]

EngineInv ==
    /\ RequestShapes /\ ConnectorShapes
    /\ Amounts /\ Tracked /\ Counted /\ Pins /\ Fences

-----------------------------------------------------------------------------
(***************************************************************************)
(* What does not change.                                                   *)
(***************************************************************************)
\* Who waits for whom stays right while jobs, transfers and reports do.
LEMMA CountedSame ==
  ASSUME Counted, UNCHANGED <<jobs, transfers, outs, staleBelow>>,
         phase' # "outputs" => phase # "outputs",
         phase' \notin {"forward", "update"} => phase \notin {"forward", "update"}
  PROVE  Counted'
<1>1. \A j : Uncounted(j)' = Uncounted(j) /\ JobStale(j)' = JobStale(j)
  BY DEF Uncounted, JobStale
<1> QED BY <1>1 DEF Counted

\* Pins stay right while the manager's table and the jobs do.
LEMMA PinsSame ==
  ASSUME Pins, UNCHANGED <<jobs, blocks>>
  PROVE  Pins'
<1>1. \A k : ReadersOf(k)' = ReadersOf(k) /\ WritersOf(k)' = WritersOf(k)
  BY DEF ReadersOf, WritersOf
<1>2. \A k : Pinned(k)' = Pinned(k)
  BY <1>1 DEF Pinned
<1>3. Cached' = Cached
  BY DEF Cached
<1> QED BY <1>2, <1>3 DEF Pins

\* Fences stay right while no request with a job ends.
LEMMA FencesSame ==
  ASSUME Fences, ConnectorShapes, UNCHANGED <<jobs, pendingOf>>,
         \A r \in Req : Finished(r)' <=> Finished(r)
  PROVE  Fences'
<1>1. \A j \in DOMAIN jobs : jobs[j].req \in Req
  BY DEF ConnectorShapes, IsJob
<1>2. \A j \in DOMAIN jobs : Finished(jobs[j].req)' <=> Finished(jobs[j].req)
  BY <1>1 DEF Finished
<1> QED BY <1>2 DEF Fences

\* The connector's tables keep their shapes while they are left alone.
ConnSteady == UNCHANGED <<blockIds, stored, trackVars, batchAlloc, jobs, jobCounter,
                          transfers, staleBelow, toFlush>>

LEMMA ConnectorSame ==
  ASSUME ConnectorShapes, ConnSteady, UNCHANGED <<todo, waitFor>>
  PROVE  ConnectorShapes'
<1>1. UNCHANGED <<blockIds, stored, signaled, tracked, batchAlloc, jobs, jobCounter,
                  transfers, staleBelow, toFlush>>
  BY DEF ConnSteady, trackVars
<1>2. JobIds' = JobIds
  BY <1>1 DEF JobIds
<1> QED BY <1>1, <1>2 DEF ConnectorShapes, IsJob, IsTransfer

-----------------------------------------------------------------------------
(***************************************************************************)
(* Scheduling.                                                             *)
(***************************************************************************)
\* Blocks handed out are blocks of the pool.
LEMMA ExtensionsAreCells ==
  ASSUME RequestShapes, NEW ids \in Seq(Cell), NEW c \in Nat, NEW n \in Nat,
         NEW x \in Extensions(ids, c, n)
  PROVE  x \in Seq(Cell) /\ Len(x) = n
<1> DEFINE kept == Slide(ids, c)
           fresh == {i \in Len(ids) + 1 .. n : i > Skipped(c)}
           free == FreeBlocks \cup (NonNull(ids) \ NonNull(kept))
<1>1. PICK new \in Injection(fresh, free \ Range(kept)) :
           x = [i \in 1 .. n |-> IF i \in fresh THEN new[i]
                                 ELSE IF i <= Len(ids) THEN kept[i] ELSE 0]
  BY DEF Extensions
<1>2. Len(ids) \in Nat /\ DOMAIN ids = 1 .. Len(ids) /\ \A i \in 1 .. Len(ids) : ids[i] \in Cell
  BY LenProperties, ElementOfSeq
<1>3. NonNull(ids) \subseteq GpuBlock
  <2>1. \A i \in DOMAIN ids : ids[i] \in Cell
    BY <1>2
  <2> QED BY <2>1 DEF NonNull, Range, Cell
<1>4. free \subseteq GpuBlock
  BY <1>3 DEF FreeBlocks
<1>5. \A i \in fresh : new[i] \in GpuBlock
  <2> HIDE DEF fresh, free
  <2>1. new \in [fresh -> free \ Range(kept)]
    BY DEF Injection
  <2> QED BY <1>4, <2>1
<1>6. \A i \in 1 .. Len(ids) : kept[i] \in Cell
  <2>1. kept = [i \in 1 .. Len(ids) |-> IF i <= Skipped(c) THEN 0 ELSE ids[i]]
    BY <1>2 DEF Slide
  <2> QED BY <1>2, <2>1 DEF Cell
<1> HIDE DEF fresh, free, kept
<1>7. \A i \in 1 .. n : (IF i \in fresh THEN new[i]
                         ELSE IF i <= Len(ids) THEN kept[i] ELSE 0) \in Cell
  <2>1. \A i \in 1 .. n : i <= Len(ids) => i \in 1 .. Len(ids)
    BY <1>2
  <2> QED BY <1>5, <1>6, <2>1 DEF Cell
<1>8. x \in [1 .. n -> Cell]
  BY <1>1, <1>7
<1> QED BY <1>8, SeqDef, LenProperties

\* Chunks are counted upwards.
LEMMA ChunksForNat ==
  ASSUME NEW n \in Nat
  PROVE  ChunksFor(n) \in Nat
  BY ConnectorAssumption DEF ChunksFor

\* The blocks of a local hit are blocks of the pool.
LEMMA LocalAreCells ==
  ASSUME RequestShapes, Amounts, NEW r \in Req
  PROVE  LocalBlocks(r) \in Seq(Cell)
<1> DEFINE L == (tokens[r] - 1) \div TokensPerChunk
           hit == {n \in 1 .. L : LocalHits /\ \A i \in 1 .. n : IsLocal(r, i)}
<1>1. L \in Nat
  <2>1. tokens[r] - 1 \in Nat /\ TokensPerChunk \in Nat \ {0}
    BY ConnectorAssumption DEF Amounts
  <2> QED BY <2>1
<1> HIDE DEF L
<1>2. \A n \in hit : \A i \in 1 .. n : i \in hit
  BY <1>1
<1>3. hit = 1 .. Cardinality(hit) /\ Cardinality(hit) \in Nat
  <2>1. hit \in SUBSET (1 .. L)
    OBVIOUS
  <2> HIDE DEF hit
  <2> QED BY <1>1, <1>2, <2>1, Segment
<1> DEFINE m == Cardinality(hit)
<1>4. \A i \in 1 .. m : IsLocal(r, i)
  <2>1. \A i \in hit : IsLocal(r, i)
    BY <1>1
  <2> QED BY <1>3, <2>1
<1>5. \A i \in 1 .. m : (CHOOSE b \in GpuBlock : cachedKey[b] = KeysOf[r][i]) \in Cell
  BY <1>4 DEF IsLocal, Cell
<1>6. LocalBlocks(r) = [i \in 1 .. m |-> CHOOSE b \in GpuBlock : cachedKey[b] = KeysOf[r][i]]
  BY DEF LocalBlocks, L
<1>7. m \in Nat
  BY <1>3
<1> HIDE DEF m
<1>8. LocalBlocks(r) \in [1 .. m -> Cell]
  BY <1>5, <1>6
<1> QED BY <1>7, <1>8, SeqDef

\* A request that goes on runs n tokens on blocks of the pool.
LEMMA RunKeeps ==
  ASSUME EngineInv, NEW r \in Req, ~Finished(r), phase = "schedule",
         NEW c \in Nat, NEW n \in Nat \ {0}, c + n <= tokens[r],
         NEW ids \in Seq(Cell), NEW from \in 1 .. Len(ids) + 1, Run(r, c, n, ids, from),
         UNCHANGED <<blocks, stored, trackVars, batchAlloc, jobs, jobCounter,
                     transfers, staleBelow, toFlush, pendingOf>>,
         blockIds' \in [Req -> Seq(Cell)]
  PROVE  EngineInv'
<1>1. /\ status' = [status EXCEPT ![r] = "running"]
      /\ computed' = [computed EXCEPT ![r] = c]
      /\ table' = [table EXCEPT ![r] = ids]
      /\ batch' = [batch EXCEPT ![r] = n]
      /\ newIds' = [newIds EXCEPT ![r] = SubSeq(ids, from, Len(ids))]
      /\ seen' = seen \cup {r}
      /\ UNCHANGED <<tokens, finishedIds, phase, todo, waitFor, outs>>
  BY DEF Run
<1>2. SubSeq(ids, from, Len(ids)) \in Seq(Cell)
  <2>1. Len(ids) \in Nat /\ \A i \in 1 .. Len(ids) : ids[i] \in Cell
    BY LenProperties, ElementOfSeq
  <2>2. \A i \in from .. Len(ids) : i \in 1 .. Len(ids) /\ ids[i] \in Cell
    BY <2>1
  <2> QED BY <2>1, <2>2, SubSeqProperties
<1>3. RequestShapes'
  BY <1>1, <1>2 DEF EngineInv, RequestShapes
<1>4. ConnectorShapes'
  <2>1. UNCHANGED <<stored, signaled, tracked, batchAlloc, jobs, jobCounter,
                    transfers, staleBelow, toFlush, todo, waitFor>>
    BY <1>1 DEF trackVars
  <2>2. JobIds' = JobIds
    BY <2>1 DEF JobIds
  <2> QED BY <2>1, <2>2 DEF EngineInv, ConnectorShapes, IsJob, IsTransfer
<1>5. \A x \in Req : Finished(x)' <=> Finished(x)
  <2>1. /\ \A x \in Req : x # r => status'[x] = status[x]
        /\ status'[r] = "running"
    BY <1>1 DEF EngineInv, RequestShapes
  <2> QED BY <2>1 DEF Finished
<1>6. Amounts'
  <2>1. \A x \in Req \ {r} : /\ status'[x] = status[x] /\ batch'[x] = batch[x]
                             /\ computed'[x] = computed[x]
    BY <1>1 DEF EngineInv, RequestShapes
  <2>2. /\ status'[r] = "running" /\ batch'[r] = n /\ computed'[r] = c /\ r \in seen'
        /\ tokens' = tokens
    BY <1>1 DEF EngineInv, RequestShapes
  <2>3. phase' = "schedule" /\ seen \subseteq seen'
    BY <1>1
  <2>4. tokens[r] \in Nat /\ c <= tokens[r]
    BY DEF EngineInv, RequestShapes
  <2>5. /\ \A x \in Req : /\ tokens[x] \in 1 .. MaxTokens
                          /\ ~Finished(x) => tokens[x] < MaxTokens
                          /\ computed[x] <= tokens[x]
                          /\ batch[x] > 0 => status[x] = "running"
                          /\ computed[x] + batch[x] <= tokens[x]
                          /\ batch[x] > 0 => x \in seen
    BY DEF EngineInv, Amounts
  <2>6. ASSUME NEW x \in Req
        PROVE  /\ tokens'[x] \in 1 .. MaxTokens
               /\ ~Finished(x)' => tokens'[x] < MaxTokens
               /\ computed'[x] <= tokens'[x]
               /\ batch'[x] > 0 => status'[x] = "running"
               /\ computed'[x] + batch'[x] <= tokens'[x]
               /\ batch'[x] > 0 => x \in seen'
    <3>1. CASE x = r
      <4>1. tokens[r] \in 1 .. MaxTokens /\ tokens[r] < MaxTokens
        BY <2>5
      <4>2. c + n <= tokens[r] /\ c <= tokens[r]
        BY <2>4
      <4> QED BY ONLY <2>2, <3>1, <4>1, <4>2
    <3>2. CASE x # r
      BY <1>5, <2>1, <2>2, <2>3, <2>5, <3>2
    <3> QED BY <3>1, <3>2
  <2> QED BY <2>3, <2>6 DEF Amounts
<1>7. Tracked'
  BY <1>1, <1>5 DEF EngineInv, RequestShapes, ConnectorShapes, Tracked, trackVars
<1>8. Counted'
  BY <1>1, CountedSame DEF EngineInv
<1>9. Pins'
  BY PinsSame DEF EngineInv
<1>10. Fences'
  BY <1>5, FencesSame DEF EngineInv
<1> QED BY <1>3, <1>4, <1>6, <1>7, <1>8, <1>9, <1>10 DEF EngineInv

\* The facts about a request that the actions below use.
LEMMA RequestFacts ==
  ASSUME EngineInv, NEW r \in Req
  PROVE  /\ computed[r] \in Nat /\ tokens[r] \in Nat /\ batch[r] \in Nat
         /\ computed[r] <= tokens[r] /\ tokens[r] >= 1 /\ stored[r] \in Nat
         /\ table[r] \in Seq(Cell) /\ Len(table[r]) \in Nat
         /\ blockIds[r] \in Seq(Cell) /\ newIds[r] \in Seq(Cell)
         /\ LocalBlocks(r) \in Seq(Cell)
         /\ Len(LocalBlocks(r)) * TokensPerChunk \in Nat
<1>1. LocalBlocks(r) \in Seq(Cell)
  BY LocalAreCells DEF EngineInv
<1>2. Len(LocalBlocks(r)) \in Nat /\ TokensPerChunk \in Nat
  BY <1>1, LenProperties, ConnectorAssumption
<1> DEFINE l == Len(LocalBlocks(r))
<1>3. l * TokensPerChunk \in Nat
  <2> HIDE DEF l
  <2> QED BY <1>2 DEF l
<1>4. computed[r] \in Nat /\ tokens[r] \in Nat /\ batch[r] \in Nat
      /\ stored[r] \in Nat /\ table[r] \in Seq(Cell)
      /\ blockIds[r] \in Seq(Cell) /\ newIds[r] \in Seq(Cell)
  BY DEF EngineInv, RequestShapes, ConnectorShapes
<1>5. computed[r] <= tokens[r] /\ tokens[r] >= 1
  BY <1>4 DEF EngineInv, Amounts
<1>6. Len(table[r]) \in Nat
  BY <1>4, LenProperties
<1> QED BY <1>1, <1>3, <1>4, <1>5, <1>6

\* A running request, or one whose load arrived, is scheduled.
LEMMA ScheduleExtends ==
  ASSUME EngineInv, NEW r \in Req, NEW n \in 1 .. tokens[r] - computed[r],
         NEW ids \in Extensions(table[r], computed[r],
                                Larger(Len(table[r]), ChunksFor(computed[r] + n)))
  PROVE  /\ ids \in Seq(Cell) /\ Len(ids) \in Nat /\ Len(table[r]) + 1 \in 1 .. Len(ids) + 1
         /\ n \in Nat \ {0} /\ computed[r] + n <= tokens[r] /\ computed[r] \in Nat
<1> DEFINE c == computed[r]
           t == Len(table[r])
           m == ChunksFor(c + n)
<1>1. c \in Nat /\ tokens[r] \in Nat /\ t \in Nat /\ table[r] \in Seq(Cell)
  BY RequestFacts
<1>2. n \in Nat \ {0} /\ c + n <= tokens[r] /\ c + n \in Nat
  BY <1>1
<1>3. m \in Nat
  BY <1>2, ChunksForNat
<1> HIDE DEF c, m
<1>4. Larger(t, m) \in Nat /\ t <= Larger(t, m)
  BY <1>1, <1>3 DEF Larger
<1>5. ids \in Seq(Cell) /\ Len(ids) = Larger(t, m)
  BY <1>1, <1>4, ExtensionsAreCells DEF EngineInv, c, m
<1> HIDE DEF t
<1>6. t + 1 \in 1 .. Larger(t, m) + 1
  BY <1>1, <1>4
<1> QED BY <1>1, <1>2, <1>4, <1>5, <1>6 DEF c, t

LEMMA ScheduleRunningKeeps ==
  ASSUME EngineInv, NEW r \in Req, NEW n \in 1 .. MaxTokens, ScheduleRunning(r, n)
  PROVE  EngineInv'
<1>1. PICK ids \in Extensions(table[r], computed[r],
                              Larger(Len(table[r]), ChunksFor(computed[r] + n))) :
           Run(r, computed[r], n, ids, Len(table[r]) + 1)
  BY DEF ScheduleRunning
<1>2. n \in 1 .. tokens[r] - computed[r] /\ ~Finished(r) /\ phase = "schedule"
  BY DEF ScheduleRunning, Scheduling, Finished
<1>3. /\ ids \in Seq(Cell) /\ Len(table[r]) + 1 \in 1 .. Len(ids) + 1
      /\ n \in Nat \ {0} /\ computed[r] + n <= tokens[r] /\ computed[r] \in Nat
  BY <1>2, ScheduleExtends
<1>4. UNCHANGED <<mgrVars, connVars>>
  BY DEF ScheduleRunning
<1>5. UNCHANGED <<blocks, blockIds, stored, trackVars, batchAlloc, jobs, jobCounter,
                  transfers, staleBelow, toFlush, pendingOf>>
  BY <1>4 DEF mgrVars, connVars, jobVars, fenceVars
<1>6. blockIds' \in [Req -> Seq(Cell)]
  BY <1>5 DEF EngineInv, ConnectorShapes
<1> QED BY <1>1, <1>2, <1>3, <1>5, <1>6, RunKeeps

LEMMA AdmitLoadedKeeps ==
  ASSUME EngineInv, NEW r \in Req, NEW n \in 1 .. MaxTokens, AdmitLoaded(r, n)
  PROVE  EngineInv'
<1>1. PICK ids \in Extensions(table[r], computed[r],
                              Larger(Len(table[r]), ChunksFor(computed[r] + n))) :
           Run(r, computed[r], n, ids, 1)
  BY DEF AdmitLoaded
<1>2. n \in 1 .. tokens[r] - computed[r] /\ ~Finished(r) /\ phase = "schedule"
  BY DEF AdmitLoaded, Turn, Scheduling, Finished
<1>3. /\ ids \in Seq(Cell) /\ 1 \in 1 .. Len(ids) + 1
      /\ n \in Nat \ {0} /\ computed[r] + n <= tokens[r] /\ computed[r] \in Nat
  BY <1>2, ScheduleExtends
<1>4. UNCHANGED <<mgrVars, connVars>>
  BY DEF AdmitLoaded
<1>5. UNCHANGED <<blocks, blockIds, stored, trackVars, batchAlloc, jobs, jobCounter,
                  transfers, staleBelow, toFlush, pendingOf>>
  BY <1>4 DEF mgrVars, connVars, jobVars, fenceVars
<1>6. blockIds' \in [Req -> Seq(Cell)]
  BY <1>5 DEF EngineInv, ConnectorShapes
<1> QED BY <1>1, <1>2, <1>3, <1>5, <1>6, RunKeeps

\* The block ids of a request are forgotten.
LEMMA ForgetIds ==
  ASSUME EngineInv, NEW r \in Req
  PROVE  [blockIds EXCEPT ![r] = <<>>] \in [Req -> Seq(Cell)]
<1>1. <<>> \in Seq(Cell) /\ blockIds \in [Req -> Seq(Cell)]
  BY DEF EngineInv, ConnectorShapes
<1> QED BY <1>1

\* A waiting request is admitted.
LEMMA AdmitRunKeeps ==
  ASSUME EngineInv, NEW r \in Req, NEW n \in 1 .. MaxTokens, AdmitRun(r, n)
  PROVE  EngineInv'
<1> DEFINE local == LocalBlocks(r)
           c == Len(local) * TokensPerChunk
<1>1. PICK ids \in Extensions(local, c, ChunksFor(c + n)) : Run(r, c, n, ids, 1)
  BY DEF AdmitRun
<1>2. /\ n \in 1 .. tokens[r] - c /\ ~Finished(r) /\ phase = "schedule"
      /\ blockIds' = [blockIds EXCEPT ![r] = <<>>]
  BY DEF AdmitRun, Waiting, Turn, Scheduling, Finished
<1>3. UNCHANGED <<mgrVars, trackVars, stored, jobVars, fenceVars, staleBelow>>
  BY DEF AdmitRun
<1>4. c \in Nat /\ local \in Seq(Cell) /\ tokens[r] \in Nat
  BY RequestFacts
<1> HIDE DEF c, local
<1>5. n \in Nat \ {0} /\ c + n <= tokens[r] /\ c + n \in Nat
  BY <1>2, <1>4
<1>6. ids \in Seq(Cell) /\ Len(ids) \in Nat
  <2>1. ChunksFor(c + n) \in Nat
    BY <1>5, ChunksForNat
  <2> QED BY <1>1, <1>4, <2>1, ExtensionsAreCells DEF EngineInv
<1>7. UNCHANGED <<blocks, stored, trackVars, batchAlloc, jobs, jobCounter,
                  transfers, staleBelow, toFlush, pendingOf>>
  BY <1>3 DEF mgrVars, jobVars, fenceVars
<1>8. blockIds' \in [Req -> Seq(Cell)]
  BY <1>2, ForgetIds
<1>9. 1 \in 1 .. Len(ids) + 1
  BY <1>6
<1> QED BY <1>1, <1>2, <1>4, <1>5, <1>6, <1>7, <1>8, <1>9, RunKeeps

\* Nothing happens.
LEMMA SteadyKeeps ==
  ASSUME EngineInv, UNCHANGED vars
  PROVE  EngineInv'
<1>1. UNCHANGED <<status, computed, tokens, batch, table, newIds, finishedIds, phase,
                  seen, todo, waitFor, outs, blocks, pendingOf>>
  BY DEF vars, reqVars, outVars, coreVars, mgrVars, connVars, fenceVars
<1>2. ConnSteady
  BY DEF vars, connVars, ConnSteady, trackVars, jobVars, fenceVars
<1>3. RequestShapes'
  BY <1>1 DEF EngineInv, RequestShapes
<1>4. ConnectorShapes'
  BY <1>1, <1>2, ConnectorSame DEF EngineInv
<1>5. \A r \in Req : Finished(r)' <=> Finished(r)
  BY <1>1 DEF Finished
<1>6. Amounts' /\ Tracked'
  BY <1>1, <1>2, <1>5 DEF EngineInv, Amounts, Tracked, ConnSteady, trackVars,
     RequestShapes, ConnectorShapes
<1>7. Counted' /\ Pins' /\ Fences'
  BY <1>1, <1>2, <1>5, CountedSame, PinsSame, FencesSame DEF EngineInv, ConnSteady
<1> QED BY <1>3, <1>4, <1>6, <1>7 DEF EngineInv

\* A waiting request is asked for again later.
LEMMA QueryOnlyKeeps ==
  ASSUME EngineInv, NEW r \in Req, QueryOnly(r)
  PROVE  EngineInv'
<1>1. UNCHANGED <<status, computed, tokens, batch, table, newIds, finishedIds, phase,
                  seen, todo, waitFor, outs, blocks, pendingOf>>
  BY DEF QueryOnly, reqVars, outVars, coreVars, mgrVars, fenceVars
<1>2. UNCHANGED <<stored, signaled, tracked, batchAlloc, jobs, jobCounter,
                  transfers, staleBelow, toFlush>>
  BY DEF QueryOnly, trackVars, jobVars, fenceVars
<1>3. RequestShapes'
  BY <1>1 DEF EngineInv, RequestShapes
<1>4. blockIds' \in [Req -> Seq(Cell)]
  BY ForgetIds DEF QueryOnly
<1>5. ConnectorShapes'
  <2>1. JobIds' = JobIds
    BY <1>2 DEF JobIds
  <2> QED BY <1>1, <1>2, <1>4, <2>1 DEF EngineInv, ConnectorShapes, IsJob, IsTransfer
<1>6. \A x \in Req : Finished(x)' <=> Finished(x)
  BY <1>1 DEF Finished
<1>7. Amounts' /\ Tracked'
  BY <1>1, <1>2, <1>6 DEF EngineInv, Amounts, Tracked, RequestShapes, ConnectorShapes
<1>8. Counted' /\ Pins' /\ Fences'
  BY <1>1, <1>2, <1>6, CountedSame, PinsSame, FencesSame DEF EngineInv
<1> QED BY <1>3, <1>5, <1>7, <1>8 DEF EngineInv

\* A request whose load arrived may go on.
LEMMA PromoteKeeps ==
  ASSUME EngineInv, NEW r \in Req, Promote(r)
  PROVE  EngineInv'
<1>1. /\ status[r] = "remote" /\ status' = [status EXCEPT ![r] = "loaded"]
      /\ computed' = [computed EXCEPT ![r] = Smaller(@, tokens[r] - 1)]
      /\ UNCHANGED <<tokens, batch, table, newIds, finishedIds, phase,
                     seen, todo, waitFor, outs, blocks, pendingOf>>
  BY DEF Promote, outVars, mgrVars, connVars, fenceVars
<1>2. ConnSteady
  BY DEF Promote, connVars, ConnSteady, trackVars, jobVars, fenceVars
<1>3. /\ \A x \in Req \ {r} : status'[x] = status[x] /\ computed'[x] = computed[x]
      /\ status'[r] = "loaded" /\ computed'[r] \in Nat /\ computed'[r] <= computed[r]
  <2>1. Smaller(computed[r], tokens[r] - 1) \in Nat
        /\ Smaller(computed[r], tokens[r] - 1) <= computed[r]
    BY RequestFacts DEF Smaller
  <2> QED BY <1>1, <2>1 DEF EngineInv, RequestShapes
<1>4. RequestShapes'
  BY <1>1, <1>3 DEF EngineInv, RequestShapes
<1>5. ConnectorShapes'
  BY <1>1, <1>2, ConnectorSame DEF EngineInv
<1>6. \A x \in Req : Finished(x)' <=> Finished(x)
  BY <1>1, <1>3 DEF Finished
<1>7. Amounts'
  <2>1. batch[r] = 0 /\ computed[r] \in Nat /\ tokens[r] \in Nat /\ computed[r] <= tokens[r]
    BY <1>1, RequestFacts DEF EngineInv, Amounts
  <2>2. \A x \in Req : /\ tokens'[x] \in 1 .. MaxTokens
                       /\ ~Finished(x)' => tokens'[x] < MaxTokens
                       /\ computed'[x] <= tokens'[x]
                       /\ batch'[x] > 0 => status'[x] = "running"
    BY <1>1, <1>3, <1>6, <2>1 DEF EngineInv, Amounts
  <2>3. phase' \in {"schedule", "stores"} =>
           \A x \in Req : computed'[x] + batch'[x] <= tokens'[x]
    BY <1>1, <1>3, <2>1 DEF EngineInv, Amounts
  <2> QED BY <1>1, <2>2, <2>3 DEF EngineInv, Amounts
<1>8. Tracked'
  BY <1>1, <1>2, <1>6 DEF EngineInv, Tracked, ConnSteady, trackVars,
     RequestShapes, ConnectorShapes
<1>9. Counted' /\ Pins' /\ Fences'
  BY <1>1, <1>2, <1>6, CountedSame, PinsSame, FencesSame DEF EngineInv, ConnSteady
<1> QED BY <1>4, <1>5, <1>7, <1>8, <1>9 DEF EngineInv

\* A running request that the step has yet to deal with gives up its blocks.
LEMMA PreemptKeeps ==
  ASSUME EngineInv, NEW v \in Req, Preempt(v)
  PROVE  EngineInv'
<1>1. /\ status[v] = "running" /\ status' = [status EXCEPT ![v] = "waiting"]
      /\ computed' = [computed EXCEPT ![v] = 0]
      /\ table' = [table EXCEPT ![v] = <<>>]
      /\ seen' = seen \cup {v} /\ v \notin seen /\ phase = "schedule"
      /\ UNCHANGED <<tokens, batch, newIds, finishedIds, phase,
                     todo, waitFor, outs, blocks, pendingOf>>
  BY DEF Preempt, Scheduling, mgrVars, connVars, fenceVars
<1>2. ConnSteady
  BY DEF Preempt, connVars, ConnSteady, trackVars, jobVars, fenceVars
<1>3. /\ \A x \in Req \ {v} : status'[x] = status[x] /\ computed'[x] = computed[x]
      /\ status'[v] = "waiting" /\ computed'[v] = 0
  BY <1>1 DEF EngineInv, RequestShapes
<1>4. RequestShapes'
  <2>1. <<>> \in Seq(Cell)
    OBVIOUS
  <2> QED BY <1>1, <1>3, <2>1 DEF EngineInv, RequestShapes
<1>5. ConnectorShapes'
  BY <1>1, <1>2, ConnectorSame DEF EngineInv
<1>6. \A x \in Req : Finished(x)' <=> Finished(x)
  BY <1>1, <1>3 DEF Finished
<1>7. Amounts'
  <2>1. batch[v] = 0 /\ tokens[v] \in Nat
    BY <1>1, RequestFacts DEF EngineInv, Amounts
  <2>2. \A x \in Req : /\ tokens'[x] \in 1 .. MaxTokens
                       /\ ~Finished(x)' => tokens'[x] < MaxTokens
                       /\ computed'[x] <= tokens'[x]
                       /\ batch'[x] > 0 => status'[x] = "running"
                       /\ computed'[x] + batch'[x] <= tokens'[x]
                       /\ batch'[x] > 0 => x \in seen'
    BY <1>1, <1>3, <1>6, <2>1 DEF EngineInv, Amounts
  <2> QED BY <1>1, <2>2 DEF EngineInv, Amounts
<1>8. Tracked'
  BY <1>1, <1>2, <1>6 DEF EngineInv, Tracked, ConnSteady, trackVars,
     RequestShapes, ConnectorShapes
<1>9. Counted' /\ Pins' /\ Fences'
  BY <1>1, <1>2, <1>6, CountedSame, PinsSame, FencesSame DEF EngineInv, ConnSteady
<1> QED BY <1>4, <1>5, <1>7, <1>8, <1>9 DEF EngineInv

-----------------------------------------------------------------------------
(***************************************************************************)
(* Metadata and stores.                                                    *)
(***************************************************************************)
\* Every job and every fence has an id given out.
LEMMA JobsHaveIds ==
  ASSUME EngineInv
  PROVE  /\ DOMAIN jobs \in SUBSET JobIds
         /\ \A b \in GpuBlock : pendingOf[b] \in SUBSET JobIds
         /\ \A r \in Req : TransferJobs(r) \in SUBSET JobIds
<1>1. DOMAIN jobs \in SUBSET JobIds
  BY DEF EngineInv, Counted, ConnectorShapes
<1>2. \A b \in GpuBlock : pendingOf[b] \in SUBSET DOMAIN jobs
  BY DEF EngineInv, Fences
<1>3. \A r \in Req : TransferJobs(r) \in SUBSET DOMAIN jobs
  BY DEF TransferJobs
<1> QED BY <1>1, <1>2, <1>3

\* Blocks handed out in a step are blocks of the pool.
LEMMA AllocatedBlocks ==
  ASSUME EngineInv
  PROVE  Allocated \in SUBSET GpuBlock
<1>1. ASSUME NEW r \in Req PROVE NonNull(newIds[r]) \in SUBSET GpuBlock
  <2>1. newIds[r] \in Seq(Cell)
    BY RequestFacts
  <2>2. \A i \in DOMAIN newIds[r] : newIds[r][i] \in Cell
    BY <2>1, ElementOfSeq, LenProperties
  <2> QED BY <2>2 DEF NonNull, Range, Cell
<1>2. batchAlloc \in SUBSET GpuBlock
  BY DEF EngineInv, ConnectorShapes
<1> QED BY <1>1, <1>2 DEF Allocated

\* Block ids are zeroed or stay what they are.
LEMMA StillValidCells ==
  ASSUME EngineInv, NEW r \in Req
  PROVE  StillValid(r) \in Seq(Cell)
<1> DEFINE s == blockIds[r] \o newIds[r]
<1>1. s \in Seq(Cell)
  BY RequestFacts, ConcatProperties
<1> HIDE DEF s
<1>2. Len(s) \in Nat /\ DOMAIN s = 1 .. Len(s) /\ \A i \in DOMAIN s : s[i] \in Cell
  BY <1>1, LenProperties, ElementOfSeq
<1> DEFINE z(i) == /\ Window > 0
                   /\ i \in stored[r] + 1 .. Len(blockIds[r])
                   /\ blockIds[r][i] \in Allocated
<1>3. StillValid(r) = [i \in DOMAIN s |-> IF z(i) THEN 0 ELSE s[i]]
  BY DEF StillValid, s
<1> HIDE DEF z
<1>4. StillValid(r) \in [1 .. Len(s) -> Cell]
  BY <1>2, <1>3 DEF Cell
<1> QED BY <1>2, <1>4, SeqDef

\* The metadata of the step is begun.
LEMMA BuildConnectorMetaKeeps ==
  ASSUME EngineInv, BuildConnectorMeta
  PROVE  EngineInv'
<1>1. /\ phase = "schedule" /\ phase' = "stores"
      /\ todo' = {r \in tracked : batch[r] > 0 \/ r \in finishedIds}
      /\ UNCHANGED <<status, computed, tokens, batch, newIds, finishedIds, table,
                     seen, waitFor, outs>>
  BY DEF BuildConnectorMeta, reqVars, outVars, coreVars
<1>2. /\ blockIds' = [r \in Req |-> IF r \in tracked THEN StillValid(r) ELSE blockIds[r]]
      /\ batchAlloc' = Allocated
      /\ toFlush' = toFlush \cup PreemptedJobs \cup UNION {pendingOf[b] : b \in Allocated}
      /\ UNCHANGED <<blocks, signaled, tracked, stored, jobs, jobCounter, transfers,
                     pendingOf, staleBelow>>
  BY DEF BuildConnectorMeta, StartConnectorMeta, mgrVars, trackVars, jobVars
<1>3. RequestShapes'
  BY <1>1 DEF EngineInv, RequestShapes
<1>4. ConnectorShapes'
  <2>1. JobIds' = JobIds
    BY <1>2 DEF JobIds
  <2>2. blockIds' \in [Req -> Seq(Cell)]
    BY <1>2, StillValidCells DEF EngineInv, ConnectorShapes
  <2>3. toFlush' \in SUBSET JobIds
    <3>1. PreemptedJobs \in SUBSET JobIds
      BY JobsHaveIds DEF PreemptedJobs, EngineInv, ConnectorShapes
    <3>2. UNION {pendingOf[b] : b \in Allocated} \in SUBSET JobIds
      BY JobsHaveIds, AllocatedBlocks
    <3>3. toFlush \in SUBSET JobIds
      BY DEF EngineInv, ConnectorShapes
    <3> QED BY <1>2, <3>1, <3>2, <3>3
  <2>4. todo' \in SUBSET tracked
    BY <1>1
  <2> QED BY <1>1, <1>2, <2>1, <2>2, <2>3, <2>4, AllocatedBlocks
          DEF EngineInv, ConnectorShapes, IsJob, IsTransfer
<1>5. \A x \in Req : Finished(x)' <=> Finished(x)
  BY <1>1 DEF Finished
<1>6. Amounts'
  BY <1>1, <1>5 DEF EngineInv, Amounts
<1>7. Tracked'
  BY <1>1, <1>2, <1>5 DEF EngineInv, Tracked, RequestShapes, ConnectorShapes
<1>8. Counted' /\ Pins' /\ Fences'
  BY <1>1, <1>2, <1>5, CountedSame, PinsSame, FencesSame DEF EngineInv
<1> QED BY <1>3, <1>4, <1>6, <1>7, <1>8 DEF EngineInv

\* The metadata is handed to the worker.
LEMMA HandOverKeeps ==
  ASSUME EngineInv, HandOver
  PROVE  EngineInv'
<1>1. /\ phase = "stores" /\ phase' = "submit"
      /\ waitFor' = toFlush
      /\ computed' = [r \in Req |-> computed[r] + batch[r]]
      /\ finishedIds' = {} /\ newIds' = [r \in Req |-> <<>>]
      /\ todo = {}
      /\ UNCHANGED <<status, tokens, batch, table, seen, todo, outs>>
  BY DEF HandOver, coreVars
<1> DEFINE ended == finishedIds \cap tracked
<1>2. /\ signaled' = signaled \cup ended
      /\ tracked' = tracked \ {r \in ended : TransferJobs(r) = {}}
      /\ toFlush' = {} /\ batchAlloc' = {}
      /\ UNCHANGED <<blocks, blockIds, stored, jobs, jobCounter, transfers,
                     pendingOf, staleBelow>>
  BY DEF HandOver, FinishConnectorMeta, mgrVars, jobVars
<1>3. \A r \in Req : computed'[r] = computed[r] + batch[r] /\ computed'[r] \in Nat
  BY <1>1, RequestFacts
<1>4. RequestShapes'
  <2>1. <<>> \in Seq(Cell)
    OBVIOUS
  <2> QED BY <1>1, <1>3, <2>1 DEF EngineInv, RequestShapes
<1>5. ConnectorShapes'
  <2>1. JobIds' = JobIds
    BY <1>2 DEF JobIds
  <2>2. signaled' \in SUBSET Req /\ tracked' \in SUBSET Req /\ todo' \in SUBSET tracked'
    BY <1>1, <1>2 DEF EngineInv, ConnectorShapes
  <2> QED BY <1>1, <1>2, <2>1, <2>2 DEF EngineInv, ConnectorShapes, IsJob, IsTransfer
<1>6. \A x \in Req : Finished(x)' <=> Finished(x)
  BY <1>1 DEF Finished
<1>7. Amounts'
  BY <1>1, <1>3, <1>6 DEF EngineInv, Amounts
<1>8. Tracked'
  <2>1. \A r \in ended : Finished(r)
    BY DEF EngineInv, Tracked
  <2>2. \A j \in DOMAIN jobs : jobs[j].req \in tracked'
    <3>1. \A j \in DOMAIN jobs : TransferJobs(jobs[j].req) # {} /\ jobs[j].req \in tracked
      BY DEF EngineInv, Tracked, TransferJobs
    <3> QED BY <1>2, <3>1
  <2>3. \A r \in Req : ~Finished(r)' => r \in tracked'
    BY <1>2, <1>6, <2>1 DEF EngineInv, Tracked
  <2>4. \A r \in finishedIds' \cup signaled' : Finished(r)'
    <3>1. \A r \in signaled' : r \in Req /\ Finished(r)
      BY <1>2, <2>1 DEF EngineInv, Tracked, ConnectorShapes
    <3> QED BY <1>1, <1>6, <3>1
  <2> QED BY <1>1, <1>2, <2>2, <2>3, <2>4 DEF Tracked
<1>9. Counted' /\ Pins' /\ Fences'
  BY <1>1, <1>2, <1>6, CountedSame, PinsSame, FencesSame DEF EngineInv
<1> QED BY <1>4, <1>5, <1>7, <1>8, <1>9 DEF EngineInv

-----------------------------------------------------------------------------
(***************************************************************************)
(* The worker.                                                             *)
(***************************************************************************)
\* The connector's tables keep their shapes while transfers proceed.
LEMMA TransfersProceed ==
  ASSUME EngineInv, DOMAIN transfers' = DOMAIN transfers,
         \A j \in DOMAIN transfers : IsTransfer(transfers'[j]),
         waitFor' \in SUBSET JobIds,
         UNCHANGED <<blockIds, stored, trackVars, batchAlloc, jobs, jobCounter,
                     staleBelow, toFlush, todo>>
  PROVE  ConnectorShapes'
<1>1. JobIds' = JobIds /\ UNCHANGED <<signaled, tracked>>
  BY DEF JobIds, trackVars
<1> QED BY <1>1 DEF EngineInv, ConnectorShapes, IsJob, IsTransfer

\* Who waits for whom stays right while no report gets lost on the way.
LEMMA ReportsProceed ==
  ASSUME EngineInv, UNCHANGED <<jobs, staleBelow>>, DOMAIN transfers' = DOMAIN transfers,
         \A j \in DOMAIN transfers : Uncounted(j)' = Uncounted(j),
         DOMAIN outs' \in SUBSET DOMAIN transfers,
         outs' \in [DOMAIN outs' -> 1 .. Cardinality(Worker)],
         phase' # "outputs" => DOMAIN outs' = {},
         phase' \notin {"forward", "update"} =>
             \A j \in DOMAIN transfers : transfers'[j].done = {}
  PROVE  Counted'
<1>1. \A j : JobStale(j)' <=> JobStale(j)
  BY DEF JobStale
<1> QED BY <1>1 DEF EngineInv, Counted

\* What a transfer consists of.
LEMMA TransferFacts ==
  ASSUME EngineInv, NEW j \in DOMAIN transfers
  PROVE  /\ IsTransfer(transfers[j])
         /\ transfers[j].left \in SUBSET Worker /\ transfers[j].done \in SUBSET Worker
         /\ transfers[j].left \cap transfers[j].done = {}
         /\ IsFiniteSet(transfers[j].left) /\ IsFiniteSet(transfers[j].done)
         /\ Cardinality(transfers[j].left) \in Nat /\ Cardinality(transfers[j].done) \in Nat
         /\ Cardinality(transfers[j].done) <= Cardinality(Worker)
<1>1. IsTransfer(transfers[j])
  BY DEF EngineInv, ConnectorShapes
<1>2. /\ transfers[j].left \in SUBSET Worker /\ transfers[j].done \in SUBSET Worker
      /\ transfers[j].left \cap transfers[j].done = {}
  BY <1>1 DEF IsTransfer
<1>3. /\ IsFiniteSet(transfers[j].left) /\ IsFiniteSet(transfers[j].done)
      /\ Cardinality(transfers[j].done) <= Cardinality(Worker)
  BY <1>2, FS_Subset, ConnectorAssumption
<1> QED BY <1>1, <1>2, <1>3, FS_CardinalityType

\* The worker submits stores.
LEMMA SubmitStoresKeeps ==
  ASSUME EngineInv, SubmitStores
  PROVE  EngineInv'
<1>1. /\ phase = "submit" /\ phase' = "forward"
      /\ UNCHANGED <<status, computed, tokens, batch, newIds, finishedIds, table,
                     seen, todo, waitFor, outs, blocks, pendingOf>>
  BY DEF SubmitStores, reqVars, outVars, coreVars, mgrVars, fenceVars
<1>2. UNCHANGED <<blockIds, stored, trackVars, batchAlloc, jobs, jobCounter,
                  staleBelow, toFlush, todo>>
  BY DEF SubmitStores, fenceVars
<1>3. /\ DOMAIN transfers' = DOMAIN transfers
      /\ \A j \in DOMAIN transfers :
            \/ transfers'[j] = transfers[j]
            \/ transfers'[j] = [transfers[j] EXCEPT !.at = "running"]
            \/ transfers'[j] = [transfers[j] EXCEPT !.at = "queued"]
  BY DEF SubmitStores
<1>4. ASSUME NEW j \in DOMAIN transfers
      PROVE  /\ IsTransfer(transfers'[j])
             /\ transfers'[j].left = transfers[j].left
             /\ transfers'[j].done = transfers[j].done
  BY <1>3, TransferFacts DEF IsTransfer
<1>5. RequestShapes'
  BY <1>1 DEF EngineInv, RequestShapes
<1>6. ConnectorShapes'
  BY <1>1, <1>2, <1>3, <1>4, TransfersProceed DEF EngineInv, ConnectorShapes
<1>7. \A x \in Req : Finished(x)' <=> Finished(x)
  BY <1>1 DEF Finished
<1>8. Amounts' /\ Tracked'
  BY <1>1, <1>2, <1>7 DEF EngineInv, Amounts, Tracked, trackVars, RequestShapes,
     ConnectorShapes
<1>9. Counted'
  <2>1. \A j \in DOMAIN transfers : Uncounted(j)' = Uncounted(j)
    BY <1>1, <1>4 DEF Uncounted
  <2> QED BY <1>1, <1>2, <1>3, <2>1, ReportsProceed DEF EngineInv, Counted
<1>10. Pins' /\ Fences'
  BY <1>1, <1>2, <1>7, PinsSame, FencesSame DEF EngineInv
<1> QED BY <1>5, <1>6, <1>8, <1>9, <1>10 DEF EngineInv

\* A worker that copied its blocks is yet to be counted.
LEMMA CopyBlocksKeeps ==
  ASSUME EngineInv, NEW j \in DOMAIN transfers, NEW w \in Worker, CopyBlocks(j, w)
  PROVE  EngineInv'
<1>1. /\ phase \in {"forward", "update"} /\ w \in transfers[j].left
      /\ UNCHANGED <<status, computed, tokens, batch, newIds, finishedIds, table, phase,
                     seen, todo, waitFor, outs, blocks, pendingOf>>
  BY DEF CopyBlocks, reqVars, outVars, coreVars, mgrVars, fenceVars
<1>2. UNCHANGED <<blockIds, stored, trackVars, batchAlloc, jobs, jobCounter,
                  staleBelow, toFlush, todo>>
  BY DEF CopyBlocks, fenceVars
<1> DEFINE x == transfers[j]
<1>3. /\ DOMAIN transfers' = DOMAIN transfers
      /\ \A i \in DOMAIN transfers : i # j => transfers'[i] = transfers[i]
      /\ transfers'[j] = [[x EXCEPT !.left = @ \ {w}] EXCEPT !.done = @ \cup {w}]
  BY DEF CopyBlocks
<1>4. /\ IsTransfer(transfers'[j])
      /\ transfers'[j].left = x.left \ {w}
      /\ transfers'[j].done = x.done \cup {w}
  <2>1. /\ x = [req |-> x.req, is_store |-> x.is_store, pairs |-> x.pairs,
                at |-> x.at, left |-> x.left, done |-> x.done]
        /\ x.left \in SUBSET Worker /\ x.done \in SUBSET Worker
        /\ x.left \cap x.done = {}
    BY TransferFacts DEF IsTransfer
  <2> HIDE DEF x
  <2>2. transfers'[j] = [req |-> x.req, is_store |-> x.is_store, pairs |-> x.pairs,
                         at |-> x.at, left |-> x.left \ {w}, done |-> x.done \cup {w}]
    BY <1>3, <2>1
  <2>3. (x.left \ {w}) \cap (x.done \cup {w}) = {}
    BY <2>1
  <2> QED BY <2>1, <2>2, <2>3 DEF IsTransfer
<1>5. \A i \in DOMAIN transfers : IsTransfer(transfers'[i])
  BY <1>3, <1>4, TransferFacts
<1>6. \A i \in DOMAIN transfers : Uncounted(i)' = Uncounted(i)
  <2>1. w \notin x.done /\ IsFiniteSet(x.left) /\ IsFiniteSet(x.done)
    BY <1>1, TransferFacts
  <2>2. /\ Cardinality(x.left \ {w}) = Cardinality(x.left) - 1
        /\ Cardinality(x.done \cup {w}) = Cardinality(x.done) + 1
    BY <1>1, <2>1, FS_AddElement, FS_RemoveElement
  <2>3. Cardinality(x.left) \in Nat /\ Cardinality(x.done) \in Nat
    BY TransferFacts
  <2>4. Cardinality(x.left \ {w}) + Cardinality(x.done \cup {w})
           = Cardinality(x.left) + Cardinality(x.done)
    BY <2>2, <2>3
  <2>5. Uncounted(j)' = Uncounted(j)
    BY <1>1, <1>4, <2>4 DEF Uncounted
  <2>6. \A i \in DOMAIN transfers : i # j => Uncounted(i)' = Uncounted(i)
    BY <1>1, <1>3 DEF Uncounted
  <2> QED BY <2>5, <2>6
<1>7. RequestShapes'
  BY <1>1 DEF EngineInv, RequestShapes
<1>8. ConnectorShapes'
  BY <1>1, <1>2, <1>3, <1>5, TransfersProceed DEF EngineInv, ConnectorShapes
<1>9. \A r \in Req : Finished(r)' <=> Finished(r)
  BY <1>1 DEF Finished
<1>10. Amounts' /\ Tracked'
  BY <1>1, <1>2, <1>9 DEF EngineInv, Amounts, Tracked, trackVars, RequestShapes,
     ConnectorShapes
<1>11. Counted'
  BY <1>1, <1>2, <1>3, <1>6, ReportsProceed DEF EngineInv, Counted
<1>12. Pins' /\ Fences'
  BY <1>1, <1>2, <1>9, PinsSame, FencesSame DEF EngineInv
<1> QED BY <1>7, <1>8, <1>10, <1>11, <1>12 DEF EngineInv

\* The worker starts loads and the model runs.
LEMMA ForwardKeeps ==
  ASSUME EngineInv, Forward
  PROVE  EngineInv'
<1>1. /\ phase = "forward" /\ phase' = "update" /\ waitFor' = {}
      /\ UNCHANGED <<status, computed, tokens, batch, newIds, finishedIds, table,
                     seen, todo, outs, blocks, pendingOf>>
  BY DEF Forward, reqVars, outVars, mgrVars, fenceVars
<1>2. UNCHANGED <<blockIds, stored, trackVars, batchAlloc, jobs, jobCounter,
                  staleBelow, toFlush, todo>>
  BY DEF Forward, fenceVars
<1>3. /\ DOMAIN transfers' = DOMAIN transfers
      /\ \A j \in DOMAIN transfers :
            \/ transfers'[j] = transfers[j]
            \/ transfers'[j] = [transfers[j] EXCEPT !.at = "running"]
  BY DEF Forward
<1>4. ASSUME NEW j \in DOMAIN transfers
      PROVE  /\ IsTransfer(transfers'[j])
             /\ transfers'[j].left = transfers[j].left
             /\ transfers'[j].done = transfers[j].done
  BY <1>3, TransferFacts DEF IsTransfer
<1>5. RequestShapes'
  BY <1>1 DEF EngineInv, RequestShapes
<1>6. ConnectorShapes'
  BY <1>1, <1>2, <1>3, <1>4, TransfersProceed
<1>7. \A x \in Req : Finished(x)' <=> Finished(x)
  BY <1>1 DEF Finished
<1>8. Amounts' /\ Tracked'
  BY <1>1, <1>2, <1>7 DEF EngineInv, Amounts, Tracked, trackVars, RequestShapes,
     ConnectorShapes
<1>9. Counted'
  <2>1. \A j \in DOMAIN transfers : Uncounted(j)' = Uncounted(j)
    BY <1>1, <1>4 DEF Uncounted
  <2> QED BY <1>1, <1>2, <1>3, <2>1, ReportsProceed DEF EngineInv, Counted
<1>10. Pins' /\ Fences'
  BY <1>1, <1>2, <1>7, PinsSame, FencesSame DEF EngineInv
<1> QED BY <1>5, <1>6, <1>8, <1>9, <1>10 DEF EngineInv

-----------------------------------------------------------------------------
(***************************************************************************)
(* The end of a step, and ends between steps.                              *)
(***************************************************************************)
\* Ended requests stay ended, and the fences of those that end are set.
LEMMA RequestsEnd ==
  ASSUME EngineInv, NEW F \in SUBSET Req, RequestsFinished(F), UNCHANGED jobs,
         \A r \in Req : Finished(r)' <=> Finished(r) \/ r \in F
  PROVE  Fences'
<1>1. ASSUME NEW j \in DOMAIN jobs
      PROVE  /\ jobs[j].req \in Req /\ jobs[j].req \in tracked
             /\ Finished(jobs[j].req)' <=> Finished(jobs[j].req) \/ jobs[j].req \in F
  <2>1. jobs[j].req \in Req /\ jobs[j].req \in tracked
    BY DEF EngineInv, ConnectorShapes, IsJob, Tracked
  <2>2. Finished(jobs[j].req)' <=> status'[jobs[j].req] \in {"finished", "aborted"}
    BY DEF Finished
  <2> QED BY <2>1, <2>2 DEF Finished
<1> DEFINE watched(b) == UNION {{j \in TransferJobs(r) : b \in jobs[j].deferred} : r \in F \cap tracked}
<1>2. pendingOf' = [b \in GpuBlock |-> pendingOf[b] \cup watched(b)]
  BY DEF RequestsFinished
<1>3. ASSUME NEW b \in GpuBlock
      PROVE  pendingOf[b] \cup watched(b) = {j \in DOMAIN jobs : b \in jobs[j].fenced
                \/ (b \in jobs[j].deferred /\ Finished(jobs[j].req)')}
  <2>1. pendingOf[b] = {j \in DOMAIN jobs : b \in jobs[j].fenced
                \/ (b \in jobs[j].deferred /\ Finished(jobs[j].req))}
    BY DEF EngineInv, Fences
  <2>2. watched(b) = {j \in DOMAIN jobs : jobs[j].req \in F /\ b \in jobs[j].deferred}
    BY <1>1 DEF TransferJobs
  <2> HIDE DEF watched
  <2> QED BY <1>1, <2>1, <2>2
<1> HIDE DEF watched
<1> QED BY <1>2, <1>3 DEF Fences

\* The sampled tokens are read, and the reports of the workers taken along.
LEMMA UpdateFromOutputKeeps ==
  ASSUME EngineInv, NEW F \in SUBSET Req, UpdateFromOutput(F)
  PROVE  EngineInv'
<1> DEFINE sampled == {r \in Req : batch[r] > 0 /\ computed[r] = tokens[r]}
<1>1. /\ phase = "update" /\ phase' = "outputs" /\ F \subseteq sampled
      /\ {r \in sampled : tokens[r] + 1 >= MaxTokens} \subseteq F
      /\ tokens' = [r \in Req |-> IF r \in sampled THEN tokens[r] + 1 ELSE tokens[r]]
      /\ status' = [r \in Req |-> IF r \in F THEN "finished" ELSE status[r]]
      /\ RequestsFinished(F)
      /\ table' = [r \in Req |-> IF r \in F THEN <<>> ELSE table[r]]
      /\ finishedIds' = F /\ batch' = [r \in Req |-> 0] /\ seen' = {}
      /\ UNCHANGED <<computed, newIds, todo, waitFor, blocks>>
  BY DEF UpdateFromOutput, mgrVars
<1>2. UNCHANGED <<blockIds, stored, trackVars, batchAlloc, jobs, jobCounter,
                  staleBelow, toFlush, todo>>
  BY DEF UpdateFromOutput
<1>3. /\ outs' = [j \in {i \in DOMAIN transfers : transfers[i].done # {}} |->
                     Cardinality(transfers[j].done)]
      /\ transfers' = [j \in DOMAIN transfers |-> [transfers[j] EXCEPT !.done = {}]]
  BY DEF UpdateFromOutput
<1>4. ASSUME NEW j \in DOMAIN transfers
      PROVE  /\ IsTransfer(transfers'[j])
             /\ transfers'[j].left = transfers[j].left
             /\ transfers'[j].done = {}
  <2> DEFINE x == transfers[j]
  <2>1. /\ x = [req |-> x.req, is_store |-> x.is_store, pairs |-> x.pairs,
                at |-> x.at, left |-> x.left, done |-> x.done]
        /\ x.left \in SUBSET Worker
    BY TransferFacts DEF IsTransfer
  <2>2. transfers'[j] = [x EXCEPT !.done = {}]
    BY <1>3
  <2> HIDE DEF x
  <2>3. transfers'[j] = [req |-> x.req, is_store |-> x.is_store, pairs |-> x.pairs,
                         at |-> x.at, left |-> x.left, done |-> {}]
    BY <2>1, <2>2
  <2>4. IsTransfer(transfers'[j]) /\ transfers'[j].left = x.left /\ transfers'[j].done = {}
    BY <2>1, <2>3 DEF IsTransfer
  <2> QED BY <2>4 DEF x
<1>5. RequestShapes'
  <2>1. <<>> \in Seq(Cell)
    OBVIOUS
  <2> QED BY <1>1, <2>1 DEF EngineInv, RequestShapes
<1>6. ConnectorShapes'
  <2>1. DOMAIN transfers' = DOMAIN transfers /\ waitFor' \in SUBSET JobIds
    BY <1>1, <1>3 DEF EngineInv, ConnectorShapes
  <2> QED BY <1>2, <1>4, <2>1, TransfersProceed
<1>7. \A r \in Req : Finished(r)' <=> Finished(r) \/ r \in F
  BY <1>1 DEF Finished
<1>8. Amounts'
  <2>1. \A r \in sampled : ~Finished(r) /\ tokens[r] < MaxTokens
    BY DEF EngineInv, Amounts, Finished
  <2>2. ASSUME NEW r \in Req
        PROVE  /\ tokens'[r] \in 1 .. MaxTokens
               /\ ~Finished(r)' => tokens'[r] < MaxTokens
               /\ computed'[r] <= tokens'[r] /\ batch'[r] = 0
    <3>1. /\ tokens[r] \in 1 .. MaxTokens /\ computed[r] \in Nat /\ computed[r] <= tokens[r]
          /\ ~Finished(r) => tokens[r] < MaxTokens
      BY DEF EngineInv, Amounts, RequestShapes
    <3>2. r \in sampled => tokens[r] < MaxTokens /\ (tokens[r] + 1 >= MaxTokens => r \in F)
      BY <1>1, <2>1
    <3>3. tokens'[r] = (IF r \in sampled THEN tokens[r] + 1 ELSE tokens[r]) /\ batch'[r] = 0
      BY <1>1
    <3>4. ~Finished(r)' => ~Finished(r) /\ r \notin F
      BY <1>7
    <3> HIDE DEF sampled
    <3>5. CASE r \in sampled
      BY <1>1, <3>1, <3>2, <3>3, <3>4, <3>5, EngineAssumption
    <3>6. CASE r \notin sampled
      BY <1>1, <3>1, <3>2, <3>3, <3>4, <3>6, EngineAssumption
    <3> QED BY <3>5, <3>6
  <2> QED BY <1>1, <2>2 DEF Amounts
<1>9. Tracked'
  <2>1. F \subseteq sampled /\ F \subseteq Req /\ todo = {}
    BY <1>1 DEF EngineInv, Tracked
  <2> QED BY <1>1, <1>2, <1>7, <2>1 DEF EngineInv, Tracked, ConnectorShapes, trackVars
<1>10. Counted'
  <2>1. DOMAIN outs = {}
    BY <1>1 DEF EngineInv, Counted
  <2>2. ASSUME NEW j \in DOMAIN transfers PROVE Uncounted(j)' = Uncounted(j)
    <3>1. Cardinality({}) = 0
      BY FS_EmptySet
    <3>2. Cardinality(transfers[j].left) \in Nat /\ Cardinality(transfers[j].done) \in Nat
      BY TransferFacts
    <3>3. Uncounted(j) = Cardinality(transfers[j].left) + Cardinality(transfers[j].done)
      BY <2>1, <3>2 DEF Uncounted
    <3>4. Uncounted(j)' = Cardinality(transfers[j].left) + 0
             + IF j \in DOMAIN outs' THEN outs'[j] ELSE 0
      BY <1>4, <3>1 DEF Uncounted
    <3>5. (IF j \in DOMAIN outs' THEN outs'[j] ELSE 0) = Cardinality(transfers[j].done)
      BY <1>3, <3>1
    <3> QED BY <3>2, <3>3, <3>4, <3>5
  <2>3. \A j \in DOMAIN outs' : outs'[j] \in 1 .. Cardinality(Worker)
    <3>1. ASSUME NEW j \in DOMAIN outs'
          PROVE  outs'[j] \in 1 .. Cardinality(Worker)
      <4>1. j \in DOMAIN transfers /\ transfers[j].done # {}
            /\ outs'[j] = Cardinality(transfers[j].done)
        BY <1>3
      <4>2. Cardinality(transfers[j].done) # 0
        BY <4>1, TransferFacts, FS_EmptySet
      <4>3. Cardinality(Worker) \in Nat
        BY ConnectorAssumption, FS_CardinalityType
      <4> QED BY <4>1, <4>2, <4>3, TransferFacts
    <3> QED BY <3>1
  <2>4. outs' \in [DOMAIN outs' -> 1 .. Cardinality(Worker)]
    BY <1>3, <2>3
  <2>5. DOMAIN outs' \in SUBSET DOMAIN transfers
    BY <1>3
  <2>6. DOMAIN transfers' = DOMAIN transfers
    BY <1>3
  <2> QED BY <1>1, <1>2, <1>4, <2>2, <2>4, <2>5, <2>6, ReportsProceed
<1>11. Pins'
  BY <1>1, <1>2, PinsSame DEF EngineInv
<1>12. Fences'
  BY <1>1, <1>2, <1>7, RequestsEnd
<1> QED BY <1>5, <1>6, <1>8, <1>9, <1>10, <1>11, <1>12 DEF EngineInv

\* A request is aborted between two steps.
LEMMA AbortKeeps ==
  ASSUME EngineInv, NEW r \in Req, Abort(r)
  PROVE  EngineInv'
<1>1. /\ phase = "schedule" /\ seen = {} /\ ~Finished(r)
      /\ status' = [status EXCEPT ![r] = "aborted"]
      /\ RequestsFinished({r}) /\ finishedIds' = finishedIds \cup {r}
      /\ table' = [table EXCEPT ![r] =
            IF status[r] = "remote" /\ r \notin received THEN @ ELSE <<>>]
      /\ UNCHANGED <<computed, tokens, batch, newIds, phase,
                     seen, todo, waitFor, outs, blocks>>
  BY DEF Abort, BetweenSteps, mgrVars
<1>2. ConnSteady
  BY DEF Abort, ConnSteady, trackVars, jobVars
<1>3. \A x \in Req \ {r} : status'[x] = status[x]
  BY <1>1 DEF EngineInv, RequestShapes
<1>4. status'[r] = "aborted"
  BY <1>1 DEF EngineInv, RequestShapes
<1>5. RequestShapes'
  <2>1. <<>> \in Seq(Cell) /\ table[r] \in Seq(Cell)
    BY RequestFacts
  <2> QED BY <1>1, <2>1 DEF EngineInv, RequestShapes
<1>6. ConnectorShapes'
  BY <1>1, <1>2, ConnectorSame DEF EngineInv
<1>7. \A x \in Req : Finished(x)' <=> Finished(x) \/ x \in {r}
  BY <1>1, <1>3, <1>4 DEF Finished
<1>8. Amounts'
  <2>1. \A x \in Req : ~(batch[x] > 0)
    BY <1>1 DEF EngineInv, Amounts
  <2> QED BY <1>1, <1>7, <2>1 DEF EngineInv, Amounts
<1>9. Tracked'
  BY <1>1, <1>2, <1>7 DEF EngineInv, Tracked, ConnectorShapes, RequestShapes,
     ConnSteady, trackVars
<1>10. Counted' /\ Pins'
  BY <1>1, <1>2, CountedSame, PinsSame DEF EngineInv, ConnSteady
<1>11. Fences'
  BY <1>1, <1>2, <1>7, RequestsEnd DEF ConnSteady
<1> QED BY <1>5, <1>6, <1>8, <1>9, <1>10, <1>11 DEF EngineInv

\* Transfers that every worker reported are gone.
LEMMA FinishStepKeeps ==
  ASSUME EngineInv, FinishStep
  PROVE  EngineInv'
<1>1. /\ phase = "outputs" /\ phase' = "schedule" /\ outs = <<>>
      /\ transfers' = Restrict(transfers, DOMAIN transfers \ Reported)
      /\ UNCHANGED <<status, computed, tokens, batch, newIds, finishedIds,
                     seen, todo, waitFor, outs, blocks, pendingOf>>
  BY DEF FinishStep, reqVars, outVars, fenceVars
<1>2. UNCHANGED <<blockIds, stored, signaled, tracked, batchAlloc, jobs, jobCounter,
                  staleBelow, toFlush, todo>>
  BY DEF FinishStep, fenceVars, trackVars
<1>3. PICK A : table' = [r \in Req |-> IF r \in A /\ Finished(r) THEN <<>> ELSE table[r]]
  BY DEF FinishStep
<1>4. /\ DOMAIN transfers' = DOMAIN transfers \ Reported
      /\ \A j \in DOMAIN transfers' : transfers'[j] = transfers[j]
  BY <1>1 DEF Restrict
<1>5. RequestShapes'
  <2>1. <<>> \in Seq(Cell)
    OBVIOUS
  <2> QED BY <1>1, <1>3, <2>1 DEF EngineInv, RequestShapes
<1>6. ConnectorShapes'
  <2>1. JobIds' = JobIds
    BY <1>2 DEF JobIds
  <2> QED BY <1>1, <1>2, <1>4, <2>1 DEF EngineInv, ConnectorShapes, IsJob, IsTransfer
<1>7. \A x \in Req : Finished(x)' <=> Finished(x)
  BY <1>1 DEF Finished
<1>8. Amounts'
  <2>1. ASSUME NEW r \in Req
        PROVE  computed[r] + batch[r] <= tokens[r] /\ batch[r] = 0
    <3>1. batch[r] = 0
      BY <1>1 DEF EngineInv, Amounts
    <3> QED BY <3>1, RequestFacts
  <2> QED BY <1>1, <1>7, <2>1 DEF EngineInv, Amounts
<1>9. Tracked'
  BY <1>1, <1>2, <1>7 DEF EngineInv, Tracked, ConnectorShapes, RequestShapes
<1>10. Counted'
  <2>1. DOMAIN outs = {}
    BY <1>1
  <2>2. \A j \in DOMAIN transfers : transfers[j].done = {}
    BY <1>1 DEF EngineInv, Counted
  <2>3. \A j \in Reported : Uncounted(j) = 0
    <3>1. ASSUME NEW j \in Reported PROVE Uncounted(j) = 0
      <4>1. transfers[j].left = {} /\ transfers[j].done = {} /\ j \notin DOMAIN outs
        BY <2>1, <2>2 DEF Reported
      <4>2. Uncounted(j) = Cardinality({}) + Cardinality({}) + 0
        BY <4>1 DEF Uncounted
      <4>3. Cardinality({}) = 0
        BY FS_EmptySet
      <4> QED BY <4>2, <4>3
    <3> QED BY <3>1
  <2>4. \A j \in DOMAIN jobs : j \in DOMAIN transfers'
    <3>1. \A j \in DOMAIN jobs : /\ jobs[j].pending # 0 /\ jobs[j].pending = Uncounted(j)
                                 /\ j \in DOMAIN transfers
      BY DEF EngineInv, ConnectorShapes, IsJob, Counted
    <3> QED BY <1>4, <2>3, <3>1
  <2>5. \A j \in DOMAIN transfers' : Uncounted(j)' = Uncounted(j)
    BY <1>1, <1>4 DEF Uncounted
  <2>6. \A j : JobStale(j)' <=> JobStale(j)
    BY <1>2 DEF JobStale
  <2> QED BY <1>1, <1>2, <1>4, <2>1, <2>2, <2>4, <2>5, <2>6 DEF EngineInv, Counted
<1>11. Pins' /\ Fences'
  BY <1>1, <1>2, <1>7, PinsSame, FencesSame DEF EngineInv
<1> QED BY <1>5, <1>6, <1>8, <1>9, <1>10, <1>11 DEF EngineInv

-----------------------------------------------------------------------------
(***************************************************************************)
(* Reports.                                                                *)
(***************************************************************************)
\* The loads and stores of a key can be counted.
LEMMA ReadersFinite ==
  ASSUME EngineInv, NEW k
  PROVE  /\ IsFiniteSet(DOMAIN jobs) /\ IsFiniteSet(ReadersOf(k))
         /\ Cardinality(ReadersOf(k)) \in Nat
<1>1. DOMAIN jobs \in SUBSET (0 .. jobCounter - 1) /\ jobCounter - 1 \in Int
  BY JobsHaveIds DEF JobIds, EngineInv, ConnectorShapes
<1>2. IsFiniteSet(0 .. jobCounter - 1)
  BY <1>1, FS_Interval
<1>3. IsFiniteSet(DOMAIN jobs)
  BY <1>1, <1>2, FS_Subset
<1>4. ReadersOf(k) \in SUBSET DOMAIN jobs
  BY DEF ReadersOf
<1>5. IsFiniteSet(ReadersOf(k))
  BY <1>3, <1>4, FS_Subset
<1> QED BY <1>3, <1>5, FS_CardinalityType

\* A job's keys are pinned by it.
LEMMA PinnedKeys ==
  ASSUME EngineInv, NEW j \in DOMAIN jobs, NEW k \in jobs[j].keys
  PROVE  /\ k \in Cached
         /\ ~jobs[j].is_store => /\ blocks[k].ref_cnt > 0 /\ blocks[k].ref_cnt \in Nat
                                 /\ WritersOf(k) = {} /\ j \in ReadersOf(k)
         /\ jobs[j].is_store => /\ blocks[k].ref_cnt = -1
                                /\ ReadersOf(k) = {} /\ WritersOf(k) = {j}
<1>1. k \in Cached /\ Pinned(k)
  BY DEF EngineInv, Pins
<1>2. CASE jobs[j].is_store
  <2>1. j \in WritersOf(k)
    BY <1>2 DEF WritersOf
  <2>2. /\ blocks[k].ref_cnt = -1 /\ ReadersOf(k) = {}
        /\ \A i \in WritersOf(k) : i = j
    BY <1>1, <2>1 DEF Pinned
  <2> QED BY <1>1, <1>2, <2>1, <2>2
<1>3. CASE ~jobs[j].is_store
  <2>1. j \in ReadersOf(k)
    BY <1>3 DEF ReadersOf
  <2>2. WritersOf(k) = {} /\ blocks[k].ref_cnt = Cardinality(ReadersOf(k))
    BY <1>1, <2>1 DEF Pinned
  <2>3. Cardinality(ReadersOf(k)) # 0 /\ Cardinality(ReadersOf(k)) \in Nat
    BY <2>1, ReadersFinite, FS_EmptySet
  <2> QED BY <1>1, <1>3, <2>1, <2>2, <2>3
<1> QED BY <1>2, <1>3

\* A report that is not stale has its job, and it expects the report.
LEMMA ReportedJob ==
  ASSUME EngineInv, NEW j \in DOMAIN outs, ~JobStale(j)
  PROVE  /\ phase = "outputs"
         /\ j \in DOMAIN transfers /\ j \in DOMAIN jobs /\ IsJob(jobs[j])
         /\ outs[j] \in Nat \ {0} /\ outs[j] <= jobs[j].pending
         /\ transfers[j].done = {}
         /\ jobs[j].pending - outs[j] = Cardinality(transfers[j].left)
         /\ Uncounted(j) = jobs[j].pending
<1>1. /\ phase = "outputs" /\ j \in DOMAIN transfers
      /\ outs[j] \in Nat \ {0} /\ transfers[j].done = {}
  <2>1. outs[j] \in 1 .. Cardinality(Worker) /\ Cardinality(Worker) \in Nat
    BY ConnectorAssumption, FS_CardinalityType DEF EngineInv, Counted
  <2> QED BY <2>1 DEF EngineInv, Counted
<1>2. Cardinality({}) = 0 /\ Cardinality(transfers[j].left) \in Nat
  BY <1>1, FS_EmptySet, TransferFacts
<1>3. Uncounted(j) = Cardinality(transfers[j].left) + outs[j]
  <2>1. Uncounted(j) = Cardinality(transfers[j].left) + Cardinality({}) + outs[j]
    BY <1>1 DEF Uncounted
  <2> QED BY <1>1, <1>2, <2>1
<1>4. j \in DOMAIN jobs
  BY <1>1, <1>2, <1>3 DEF EngineInv, Counted
<1>5. jobs[j].pending = Uncounted(j) /\ IsJob(jobs[j])
  BY <1>4 DEF EngineInv, Counted, ConnectorShapes
<1> QED BY <1>1, <1>2, <1>3, <1>4, <1>5

\* A report leaves everything else as it was.
LEMMA ReportFrame ==
  ASSUME EngineInv, NEW j \in DOMAIN outs, UpdateConnectorOutput(j)
  PROVE  /\ phase = "outputs" /\ CompleteJob(j, outs[j])
         /\ DOMAIN outs' = DOMAIN outs \ {j} /\ \A i \in DOMAIN outs' : outs'[i] = outs[i]
         /\ outs' \in [DOMAIN outs' -> 1 .. Cardinality(Worker)]
         /\ RequestShapes' /\ Amounts'
         /\ \A r \in Req : Finished(r)' <=> Finished(r)
         /\ UNCHANGED <<status, finishedIds, phase, todo, waitFor>>
<1>1. /\ phase = "outputs" /\ CompleteJob(j, outs[j])
      /\ outs' = Restrict(outs, DOMAIN outs \ {j})
      /\ UNCHANGED <<status, computed, tokens, batch, newIds, finishedIds, table, phase,
                     seen, todo, waitFor>>
  BY DEF UpdateConnectorOutput, reqVars, outVars, coreVars
<1>2. outs' = [i \in DOMAIN outs \ {j} |-> outs[i]]
  BY <1>1 DEF Restrict
<1>3. outs' \in [DOMAIN outs' -> 1 .. Cardinality(Worker)]
  BY <1>2 DEF EngineInv, Counted
<1>4. \A r \in Req : Finished(r)' <=> Finished(r)
  BY <1>1 DEF Finished
<1>5. RequestShapes' /\ Amounts'
  BY <1>1, <1>4 DEF EngineInv, RequestShapes, Amounts
<1> QED BY <1>1, <1>2, <1>3, <1>4, <1>5

\* A report from before a reset counts for nothing.
LEMMA StaleReportKeeps ==
  ASSUME EngineInv, NEW j \in DOMAIN outs, UpdateConnectorOutput(j), JobStale(j)
  PROVE  EngineInv'
<1>1. /\ UNCHANGED <<mgrVars, connVars>> /\ UNCHANGED <<status, finishedIds, phase, todo, waitFor>>
      /\ DOMAIN outs' = DOMAIN outs \ {j} /\ \A i \in DOMAIN outs' : outs'[i] = outs[i]
      /\ outs' \in [DOMAIN outs' -> 1 .. Cardinality(Worker)]
      /\ RequestShapes' /\ Amounts'
      /\ \A r \in Req : Finished(r)' <=> Finished(r)
  BY ReportFrame DEF CompleteJob
<1>2. ConnSteady /\ UNCHANGED <<blocks, pendingOf>>
  BY <1>1 DEF ConnSteady, mgrVars, connVars, jobVars, fenceVars
<1>3. ConnectorShapes'
  BY <1>1, <1>2, ConnectorSame DEF EngineInv
<1>4. Tracked'
  BY <1>1, <1>2 DEF EngineInv, Tracked, ConnectorShapes, RequestShapes,
     ConnSteady, trackVars
<1>5. Counted'
  <2>1. \A i : JobStale(i)' <=> JobStale(i)
    BY <1>2 DEF JobStale, ConnSteady
  <2>2. \A i : i # j => Uncounted(i)' = Uncounted(i)
    BY <1>1, <1>2 DEF Uncounted, ConnSteady
  <2>3. \A i \in DOMAIN jobs : i # j
    BY DEF EngineInv, Counted
  <2>4. UNCHANGED <<jobs, transfers>>
    BY <1>2 DEF ConnSteady
  <2> QED BY <1>1, <2>1, <2>2, <2>3, <2>4 DEF EngineInv, Counted
<1>6. Pins' /\ Fences'
  BY <1>1, <1>2, PinsSame, FencesSame DEF EngineInv, ConnSteady
<1> QED BY <1>1, <1>3, <1>4, <1>5, <1>6 DEF EngineInv

\* Other workers are yet to report.
LEMMA PartialReportKeeps ==
  ASSUME EngineInv, NEW j \in DOMAIN outs, UpdateConnectorOutput(j), ~JobStale(j),
         ~AllReported(j, outs[j])
  PROVE  EngineInv'
<1> DEFINE n == outs[j]
<1>1. /\ CompleteJob(j, n) /\ UNCHANGED <<status, finishedIds, phase, todo, waitFor>>
      /\ DOMAIN outs' = DOMAIN outs \ {j} /\ \A i \in DOMAIN outs' : outs'[i] = outs[i]
      /\ outs' \in [DOMAIN outs' -> 1 .. Cardinality(Worker)]
      /\ RequestShapes' /\ Amounts'
      /\ \A r \in Req : Finished(r)' <=> Finished(r)
  BY ReportFrame
<1>2. /\ UNCHANGED <<blocks, pendingOf, tracked, signaled, blockIds, stored, jobCounter,
                     transfers, toFlush, batchAlloc, staleBelow>>
      /\ jobs' = [jobs EXCEPT ![j].pending = @ - n]
  BY <1>1 DEF CompleteJob, JobsAfter, mgrVars
<1>3. /\ j \in DOMAIN jobs /\ IsJob(jobs[j]) /\ n \in Nat \ {0} /\ n <= jobs[j].pending
      /\ jobs[j].pending - n = Cardinality(transfers[j].left)
      /\ jobs[j].pending # n /\ transfers[j].done = {}
  BY ReportedJob DEF AllReported
<1>4. /\ DOMAIN jobs' = DOMAIN jobs
      /\ \A i \in DOMAIN jobs : i # j => jobs'[i] = jobs[i]
      /\ jobs'[j] = [jobs[j] EXCEPT !.pending = @ - n]
  BY <1>2, <1>3
<1> HIDE DEF n
<1>5. /\ IsJob(jobs'[j])
      /\ \A i \in DOMAIN jobs :
            /\ jobs'[i].req = jobs[i].req /\ jobs'[i].is_store = jobs[i].is_store
            /\ jobs'[i].keys = jobs[i].keys /\ jobs'[i].fenced = jobs[i].fenced
            /\ jobs'[i].deferred = jobs[i].deferred
      /\ jobs'[j].pending = jobs[j].pending - n
  <2> DEFINE x == jobs[j]
  <2>1. /\ x = [req |-> x.req, pending |-> x.pending, keys |-> x.keys,
                is_store |-> x.is_store, fenced |-> x.fenced, deferred |-> x.deferred]
        /\ x.req \in Req /\ x.pending \in Nat \ {0} /\ x.is_store \in BOOLEAN
        /\ x.fenced \in SUBSET GpuBlock /\ x.deferred \in SUBSET GpuBlock
        /\ x.pending - n \in Nat \ {0}
    BY <1>3 DEF IsJob
  <2>2. jobs'[j] = [x EXCEPT !.pending = @ - n]
    BY <1>4
  <2> HIDE DEF x
  <2>3. jobs'[j] = [req |-> x.req, pending |-> x.pending - n, keys |-> x.keys,
                    is_store |-> x.is_store, fenced |-> x.fenced, deferred |-> x.deferred]
    BY <2>1, <2>2
  <2>4. IsJob(jobs'[j])
    BY <2>1, <2>3 DEF IsJob
  <2>5. /\ jobs'[j].req = x.req /\ jobs'[j].is_store = x.is_store
        /\ jobs'[j].keys = x.keys /\ jobs'[j].fenced = x.fenced
        /\ jobs'[j].deferred = x.deferred /\ jobs'[j].pending = x.pending - n
    BY <2>3
  <2> QED BY <1>4, <2>4, <2>5 DEF x
<1>6. ConnectorShapes'
  <2>1. JobIds' = JobIds
    BY <1>2 DEF JobIds
  <2>2. \A i \in DOMAIN jobs' : IsJob(jobs'[i])
    BY <1>4, <1>5 DEF EngineInv, ConnectorShapes
  <2> QED BY <1>1, <1>2, <2>1, <2>2 DEF EngineInv, ConnectorShapes, IsJob, IsTransfer
<1>7. Tracked'
  BY <1>1, <1>2, <1>4, <1>5 DEF EngineInv, Tracked, ConnectorShapes, RequestShapes
<1>8. Counted'
  <2>1. \A i : JobStale(i)' <=> JobStale(i)
    BY <1>2 DEF JobStale
  <2>2. \A i : i # j => Uncounted(i)' = Uncounted(i)
    BY <1>1, <1>2 DEF Uncounted
  <2>3. Uncounted(j)' = jobs'[j].pending
    <3>1. Uncounted(j)' = Cardinality(transfers[j].left) + Cardinality({}) + 0
      BY <1>1, <1>2, <1>3 DEF Uncounted
    <3>2. Cardinality({}) = 0 /\ Cardinality(transfers[j].left) \in Nat
      BY FS_EmptySet, ReportedJob, TransferFacts
    <3> QED BY <1>3, <1>5, <3>1, <3>2
  <2>4. /\ \A i \in DOMAIN jobs : /\ i \in DOMAIN transfers /\ ~JobStale(i)
                                  /\ jobs[i].pending = Uncounted(i)
        /\ \A i \in DOMAIN transfers :
              ~JobStale(i) /\ Uncounted(i) > 0 => i \in DOMAIN jobs
    BY DEF EngineInv, Counted
  <2>5. \A i \in DOMAIN jobs' : /\ i \in DOMAIN transfers' /\ ~JobStale(i)'
                                /\ jobs'[i].pending = Uncounted(i)'
    <3>1. \A i \in DOMAIN jobs : i \in DOMAIN transfers' /\ ~JobStale(i)'
      BY <1>2, <2>1, <2>4
    <3>2. ASSUME NEW i \in DOMAIN jobs PROVE jobs'[i].pending = Uncounted(i)'
      <4>1. CASE i = j
        BY <2>3, <4>1
      <4>2. CASE i # j
        BY <1>4, <2>2, <2>4, <4>2
      <4> QED BY <4>1, <4>2
    <3> QED BY <1>4, <3>1, <3>2
  <2>6. \A i \in DOMAIN transfers' : ~JobStale(i)' /\ Uncounted(i)' > 0 => i \in DOMAIN jobs'
    BY <1>2, <1>3, <1>4, <2>1, <2>2, <2>4
  <2>7. DOMAIN outs' \in SUBSET DOMAIN transfers'
    BY <1>1, <1>2 DEF EngineInv, Counted
  <2>8. phase = "outputs" /\ phase' = phase
    BY <1>1, ReportedJob
  <2>9. \A i \in DOMAIN transfers' : transfers'[i].done = {}
    BY <1>2, <2>8 DEF EngineInv, Counted
  <2> QED BY <1>1, <2>5, <2>6, <2>7, <2>8, <2>9 DEF Counted
<1>9. Pins'
  <2>1. \A k : ReadersOf(k)' = ReadersOf(k) /\ WritersOf(k)' = WritersOf(k)
    BY <1>4, <1>5 DEF ReadersOf, WritersOf
  <2>2. \A k : Pinned(k)' = Pinned(k)
    BY <1>2, <2>1 DEF Pinned
  <2>3. Cached' = Cached
    BY <1>2 DEF Cached
  <2> QED BY <1>4, <1>5, <2>2, <2>3 DEF EngineInv, Pins
<1>10. Fences'
  <2>1. \A i \in DOMAIN jobs : jobs[i].req \in Req
    BY DEF EngineInv, ConnectorShapes, IsJob
  <2>2. \A i \in DOMAIN jobs : Finished(jobs[i].req)' <=> Finished(jobs[i].req)
    BY <1>1, <1>5, <2>1 DEF Finished
  <2> QED BY <1>2, <1>4, <1>5, <2>2 DEF EngineInv, Fences
<1> QED BY <1>1, <1>6, <1>7, <1>8, <1>9, <1>10 DEF EngineInv

\* When a load completes, its blocks have one reader less.
LEMMA LoadUnpins ==
  ASSUME EngineInv, NEW j \in DOMAIN jobs, ~jobs[j].is_store, CompleteLoad(jobs[j].keys),
         DOMAIN jobs' = DOMAIN jobs \ {j}, \A i \in DOMAIN jobs' : jobs'[i] = jobs[i]
  PROVE  Pins'
<1>1. \A k : ReadersOf(k)' = ReadersOf(k) \ {j} /\ WritersOf(k)' = WritersOf(k)
  BY DEF ReadersOf, WritersOf
<1>2. blocks' = [k \in Cached |-> IF k \in jobs[j].keys THEN [blocks[k] EXCEPT !.ref_cnt = @ - 1]
                                  ELSE blocks[k]]
  BY DEF CompleteLoad
<1>3. Cached' = Cached
  BY <1>2 DEF Cached
<1>4. ASSUME NEW k \in Cached PROVE Pinned(k)'
  <2>1. Pinned(k)
    BY DEF EngineInv, Pins
  <2>2. CASE k \in jobs[j].keys
    <3>1. /\ WritersOf(k) = {} /\ j \in ReadersOf(k)
          /\ blocks[k].ref_cnt = Cardinality(ReadersOf(k)) /\ blocks[k].ref_cnt \in Nat
      BY <2>1, <2>2, PinnedKeys DEF Pinned
    <3>2. Cardinality(ReadersOf(k) \ {j}) = blocks[k].ref_cnt - 1
      BY <3>1, ReadersFinite, FS_RemoveElement
    <3> DEFINE e == blocks[k]
    <3>3. e = [ref_cnt |-> e.ref_cnt, block_id |-> e.block_id]
      BY <2>1 DEF Pinned
    <3>4. blocks'[k] = [e EXCEPT !.ref_cnt = @ - 1]
      BY <1>2, <2>2
    <3> HIDE DEF e
    <3>5. blocks'[k] = [ref_cnt |-> e.ref_cnt - 1, block_id |-> e.block_id]
      BY <3>3, <3>4
    <3>6. blocks'[k].ref_cnt = Cardinality(ReadersOf(k)')
      BY <1>1, <3>2, <3>5 DEF e
    <3> QED BY <1>1, <3>1, <3>5, <3>6 DEF Pinned
  <2>3. CASE k \notin jobs[j].keys
    <3>1. j \notin ReadersOf(k) /\ blocks'[k] = blocks[k]
      BY <1>2, <2>3 DEF ReadersOf
    <3>2. ReadersOf(k)' = ReadersOf(k) /\ WritersOf(k)' = WritersOf(k)
      BY <1>1, <3>1
    <3> QED BY <2>1, <3>1, <3>2 DEF Pinned
  <2> QED BY <2>2, <2>3
<1>5. \A i \in DOMAIN jobs' : jobs'[i].keys \subseteq Cached
  BY DEF EngineInv, Pins
<1> QED BY <1>3, <1>4, <1>5 DEF Pins

\* When a store completes, its blocks are idle.
LEMMA StoreUnpins ==
  ASSUME EngineInv, NEW j \in DOMAIN jobs, jobs[j].is_store, StoreSucceeds(jobs[j].keys),
         DOMAIN jobs' = DOMAIN jobs \ {j}, \A i \in DOMAIN jobs' : jobs'[i] = jobs[i]
  PROVE  Pins'
<1> DEFINE K == jobs[j].keys
           written == K \cap {k \in Cached : ~Ready(k)}
<1>1. \A k : ReadersOf(k)' = ReadersOf(k) /\ WritersOf(k)' = WritersOf(k) \ {j}
  BY DEF ReadersOf, WritersOf
<1>2. written = K
  <2>1. \A k \in K : k \in Cached /\ blocks[k].ref_cnt = -1
    BY PinnedKeys
  <2> QED BY <2>1 DEF Ready
<1>3. blocks' = [k \in Cached |-> IF k \in K THEN [blocks[k] EXCEPT !.ref_cnt = 0]
                                  ELSE blocks[k]]
  BY <1>2 DEF StoreSucceeds
<1>4. Cached' = Cached
  BY <1>3 DEF Cached
<1>5. ASSUME NEW k \in Cached PROVE Pinned(k)'
  <2>1. Pinned(k)
    BY DEF EngineInv, Pins
  <2>2. CASE k \in K
    <3>1. ReadersOf(k)' = {} /\ WritersOf(k)' = {}
      BY <1>1, <2>2, PinnedKeys
    <3> DEFINE e == blocks[k]
    <3>2. e = [ref_cnt |-> e.ref_cnt, block_id |-> e.block_id]
      BY <2>1 DEF Pinned
    <3>3. blocks'[k] = [e EXCEPT !.ref_cnt = 0]
      BY <1>3, <2>2
    <3> HIDE DEF e
    <3>4. blocks'[k] = [ref_cnt |-> 0, block_id |-> e.block_id]
      BY <3>2, <3>3
    <3>5. blocks'[k].ref_cnt = Cardinality(ReadersOf(k)')
      BY <3>1, <3>4, FS_EmptySet
    <3> QED BY <3>1, <3>4, <3>5 DEF Pinned
  <2>3. CASE k \notin K
    <3>1. j \notin WritersOf(k) /\ blocks'[k] = blocks[k]
      BY <1>3, <2>3 DEF WritersOf
    <3>2. ReadersOf(k)' = ReadersOf(k) /\ WritersOf(k)' = WritersOf(k)
      BY <1>1, <3>1
    <3> QED BY <2>1, <3>1, <3>2 DEF Pinned
  <2> QED BY <2>2, <2>3
<1>6. \A i \in DOMAIN jobs' : jobs'[i].keys \subseteq Cached
  BY DEF EngineInv, Pins
<1> QED BY <1>4, <1>5, <1>6 DEF Pins

\* The last worker reported: the job ends.
LEMMA LastReportKeeps ==
  ASSUME EngineInv, NEW j \in DOMAIN outs, UpdateConnectorOutput(j), ~JobStale(j),
         AllReported(j, outs[j])
  PROVE  EngineInv'
<1> DEFINE r == jobs[j].req
<1>1. /\ CompleteJob(j, outs[j]) /\ UNCHANGED <<status, finishedIds, phase, todo, waitFor>>
      /\ DOMAIN outs' = DOMAIN outs \ {j} /\ \A i \in DOMAIN outs' : outs'[i] = outs[i]
      /\ outs' \in [DOMAIN outs' -> 1 .. Cardinality(Worker)]
      /\ RequestShapes' /\ Amounts' /\ phase = "outputs"
      /\ \A x \in Req : Finished(x)' <=> Finished(x)
  BY ReportFrame
<1>2. /\ UNCHANGED <<signaled, blockIds, stored, jobCounter,
                     transfers, toFlush, batchAlloc, staleBelow>>
      /\ jobs' = Restrict(jobs, DOMAIN jobs \ {j})
      /\ pendingOf' = Unwatched(j, WatchedBy(j))
      /\ tracked' = IF LastOf(r, j) THEN tracked \ {r} ELSE tracked
      /\ IF jobs[j].is_store THEN StoreSucceeds(jobs[j].keys) ELSE CompleteLoad(jobs[j].keys)
  BY <1>1 DEF CompleteJob, JobsAfter
<1>3. /\ j \in DOMAIN jobs /\ j \in DOMAIN transfers /\ IsJob(jobs[j])
      /\ Cardinality(transfers[j].left) = 0 /\ transfers[j].done = {}
  BY ReportedJob DEF AllReported
<1>4. /\ DOMAIN jobs' = DOMAIN jobs \ {j}
      /\ \A i \in DOMAIN jobs' : jobs'[i] = jobs[i]
  BY <1>2 DEF Restrict
<1>5. /\ r \in Req /\ r \in tracked /\ todo = {}
      /\ LastOf(r, j) => Finished(r) /\ \A i \in DOMAIN jobs' : jobs[i].req # r
  <2>1. r \in Req /\ r \in tracked /\ todo = {}
    BY <1>1, <1>3 DEF EngineInv, Tracked, IsJob
  <2>2. LastOf(r, j) => Finished(r) /\ \A i \in DOMAIN jobs : jobs[i].req = r => i = j
    BY DEF EngineInv, Tracked, LastOf, TransferJobs
  <2> QED BY <1>4, <2>1, <2>2
<1> HIDE DEF r
<1>6. ConnectorShapes'
  <2>1. JobIds' = JobIds
    BY <1>2 DEF JobIds
  <2>2. tracked' \in SUBSET Req /\ todo' \in SUBSET tracked'
    BY <1>1, <1>2, <1>5 DEF EngineInv, ConnectorShapes
  <2> QED BY <1>1, <1>2, <1>4, <2>1, <2>2
          DEF EngineInv, ConnectorShapes, IsJob, IsTransfer
<1>7. Tracked'
  <2>1. \A x \in Req : ~Finished(x)' => x \in tracked'
    BY <1>1, <1>2, <1>5 DEF EngineInv, Tracked
  <2>2. \A x \in finishedIds' \cup signaled' : Finished(x)'
    BY <1>1, <1>2 DEF EngineInv, Tracked, RequestShapes, ConnectorShapes
  <2>3. \A i \in DOMAIN jobs' : jobs'[i].req \in tracked'
    BY <1>2, <1>4, <1>5 DEF EngineInv, Tracked
  <2> QED BY <1>1, <1>5, <2>1, <2>2, <2>3 DEF Tracked
<1>8. Counted'
  <2>1. \A i : JobStale(i)' <=> JobStale(i)
    BY <1>2 DEF JobStale
  <2>2. \A i : i # j => Uncounted(i)' = Uncounted(i)
    BY <1>1, <1>2 DEF Uncounted
  <2>3. Uncounted(j)' = 0
    <3>1. Uncounted(j)' = 0 + Cardinality({}) + 0
      BY <1>1, <1>2, <1>3 DEF Uncounted
    <3>2. Cardinality({}) = 0
      BY FS_EmptySet
    <3> QED BY <3>1, <3>2
  <2>4. /\ \A i \in DOMAIN jobs : /\ i \in DOMAIN transfers /\ ~JobStale(i)
                                  /\ jobs[i].pending = Uncounted(i)
        /\ \A i \in DOMAIN transfers :
              ~JobStale(i) /\ Uncounted(i) > 0 => i \in DOMAIN jobs
    BY DEF EngineInv, Counted
  <2>5. \A i \in DOMAIN jobs' : /\ i \in DOMAIN transfers' /\ ~JobStale(i)'
                                /\ jobs'[i].pending = Uncounted(i)'
    BY <1>2, <1>4, <2>1, <2>2, <2>4
  <2>6. \A i \in DOMAIN transfers' : ~JobStale(i)' /\ Uncounted(i)' > 0 => i \in DOMAIN jobs'
    BY <1>2, <1>4, <2>1, <2>2, <2>3, <2>4
  <2>7. DOMAIN outs' \in SUBSET DOMAIN transfers'
    BY <1>1, <1>2 DEF EngineInv, Counted
  <2>8. \A i \in DOMAIN transfers' : transfers'[i].done = {}
    BY <1>1, <1>2 DEF EngineInv, Counted
  <2> QED BY <1>1, <2>5, <2>6, <2>7, <2>8 DEF Counted
<1>9. Pins'
  BY <1>2, <1>3, <1>4, LoadUnpins, StoreUnpins
<1>10. Fences'
  <2>1. \A i \in DOMAIN jobs : jobs[i].req \in Req
    BY DEF EngineInv, ConnectorShapes, IsJob
  <2>2. \A i \in DOMAIN jobs' : Finished(jobs[i].req)' <=> Finished(jobs[i].req)
    BY <1>1, <1>4, <2>1 DEF Finished
  <2>3. ASSUME NEW b \in GpuBlock
        PROVE  pendingOf'[b] = {i \in DOMAIN jobs' : b \in jobs'[i].fenced
                  \/ (b \in jobs'[i].deferred /\ Finished(jobs[i].req)')}
    <3>1. pendingOf'[b] = pendingOf[b] \ IF b \in WatchedBy(j) THEN {j} ELSE {}
      BY <1>2 DEF Unwatched
    <3>2. pendingOf[b] = {i \in DOMAIN jobs : b \in jobs[i].fenced
                  \/ (b \in jobs[i].deferred /\ Finished(jobs[i].req))}
      BY DEF EngineInv, Fences
    <3>3. j \in pendingOf[b] <=> b \in WatchedBy(j)
      BY <1>3, <3>2 DEF WatchedBy
    <3>4. pendingOf'[b] = pendingOf[b] \ {j}
      BY <3>1, <3>3
    <3> QED BY <1>4, <2>2, <3>2, <3>4
  <2>4. pendingOf' = [b \in GpuBlock |-> pendingOf'[b]]
    BY <1>2 DEF Unwatched
  <2> QED BY <2>3, <2>4 DEF Fences
<1> QED BY <1>1, <1>6, <1>7, <1>8, <1>9, <1>10 DEF EngineInv

\* Every report is counted right.
LEMMA UpdateConnectorOutputKeeps ==
  ASSUME EngineInv, NEW j \in DOMAIN outs, UpdateConnectorOutput(j)
  PROVE  EngineInv'
  BY StaleReportKeeps, PartialReportKeeps, LastReportKeeps

-----------------------------------------------------------------------------
(***************************************************************************)
(* Resets.                                                                 *)
(***************************************************************************)
\* Running requests give up their blocks for a reset.
LEMMA UnseatFacts ==
  ASSUME EngineInv, NEW running \in {{}, Running}, Unseat(running)
  PROVE  /\ RequestShapes' /\ Amounts' /\ phase = "schedule"
         /\ \A r \in Req : Finished(r)' <=> Finished(r)
         /\ UNCHANGED <<finishedIds, phase, todo, waitFor, outs>>
<1>1. /\ phase = "schedule" /\ seen = {}
      /\ status' = [r \in Req |-> IF r \in running THEN "waiting" ELSE status[r]]
      /\ computed' = [r \in Req |-> IF r \in running THEN 0 ELSE computed[r]]
      /\ table' = [r \in Req |-> IF r \in running THEN <<>> ELSE table[r]]
      /\ UNCHANGED <<tokens, batch, newIds, finishedIds, phase, seen, todo, waitFor, outs>>
  BY DEF Unseat, BetweenSteps
<1>2. \A r \in running : r \in Req /\ status[r] = "running"
  BY DEF Running
<1>3. \A r \in Req : Finished(r)' <=> Finished(r)
  BY <1>1, <1>2 DEF Finished
<1>4. RequestShapes'
  <2>1. <<>> \in Seq(Cell)
    OBVIOUS
  <2> QED BY <1>1, <2>1 DEF EngineInv, RequestShapes
<1>5. Amounts'
  <2>1. ASSUME NEW r \in Req
        PROVE  /\ tokens'[r] \in 1 .. MaxTokens
               /\ ~Finished(r)' => tokens'[r] < MaxTokens
               /\ computed'[r] <= tokens'[r] /\ batch'[r] = 0
               /\ computed'[r] + batch'[r] <= tokens'[r]
    <3>1. /\ tokens[r] \in 1 .. MaxTokens
          /\ ~Finished(r) => tokens[r] < MaxTokens
      BY DEF EngineInv, Amounts
    <3>2. ~(batch[r] > 0) /\ batch[r] \in Nat
      BY <1>1 DEF EngineInv, Amounts, RequestShapes
    <3>3. computed[r] \in Nat /\ computed[r] <= tokens[r] /\ tokens[r] \in Nat
      BY RequestFacts
    <3>4. computed'[r] \in Nat /\ computed'[r] <= tokens[r]
      BY <1>1, <3>3
    <3> QED BY <1>1, <1>3, <3>1, <3>2, <3>3, <3>4
  <2> QED BY <1>1, <2>1 DEF Amounts
<1> QED BY <1>1, <1>3, <1>4, <1>5

\* A reset that does not reach the connector, or raises before it does.
LEMMA UnseatKeeps ==
  ASSUME EngineInv, NEW running \in {{}, Running}, Unseat(running),
         UNCHANGED <<mgrVars, connVars>>
  PROVE  EngineInv'
<1>1. /\ RequestShapes' /\ Amounts' /\ phase = "schedule"
      /\ \A r \in Req : Finished(r)' <=> Finished(r)
      /\ UNCHANGED <<finishedIds, phase, todo, waitFor, outs>>
  BY UnseatFacts
<1>2. ConnSteady /\ UNCHANGED <<blocks, pendingOf>>
  BY DEF ConnSteady, mgrVars, connVars, jobVars, fenceVars
<1>3. ConnectorShapes'
  BY <1>1, <1>2, ConnectorSame DEF EngineInv
<1>4. Tracked'
  BY <1>1, <1>2 DEF EngineInv, Tracked, ConnectorShapes, RequestShapes,
     ConnSteady, trackVars
<1>5. Counted' /\ Pins' /\ Fences'
  BY <1>1, <1>2, CountedSame, PinsSame, FencesSame DEF EngineInv, ConnSteady
<1> QED BY <1>1, <1>3, <1>4, <1>5 DEF EngineInv

\* A reset of the connector: no job outlives it, and the reports of those that
\* go on copying are stale.
LEMMA ResetKeeps ==
  ASSUME EngineInv, NEW running \in {{}, Running}, Reset(running)
  PROVE  EngineInv'
<1>1. /\ RequestShapes' /\ Amounts' /\ phase = "schedule"
      /\ \A r \in Req : Finished(r)' <=> Finished(r)
      /\ UNCHANGED <<finishedIds, phase, todo, waitFor, outs>>
  BY UnseatFacts DEF Reset
<1>2. /\ blocks' = NoBlocks /\ toFlush' = DOMAIN jobs
      /\ tracked' = {r \in tracked : ~Finished(r)}
      /\ stored' = [r \in Req |-> IF r \in tracked' THEN 0 ELSE stored[r]]
      /\ staleBelow' = jobCounter /\ jobs' = <<>>
      /\ pendingOf' = [b \in GpuBlock |-> {}]
      /\ UNCHANGED <<signaled, blockIds, jobCounter, transfers, batchAlloc>>
  BY DEF Reset, ResetConnector, ResetCache, JobsToOutlive
<1>3. DOMAIN jobs' = {} /\ Cached' = {}
  BY <1>2 DEF Cached, NoBlocks
<1>4. ConnectorShapes'
  <2>1. JobIds' = JobIds
    BY <1>2 DEF JobIds
  <2>2. toFlush' \in SUBSET JobIds
    BY <1>2, JobsHaveIds
  <2>3. todo' = {} /\ tracked' \in SUBSET Req
    BY <1>1, <1>2 DEF EngineInv, Tracked, ConnectorShapes
  <2>4. staleBelow' \in 0 .. jobCounter'
    BY <1>2 DEF EngineInv, ConnectorShapes
  <2>5. stored' \in [Req -> Nat]
    BY <1>2 DEF EngineInv, ConnectorShapes
  <2> QED BY <1>1, <1>2, <1>3, <2>1, <2>2, <2>3, <2>4, <2>5
          DEF EngineInv, ConnectorShapes, IsJob, IsTransfer
<1>5. Tracked'
  BY <1>1, <1>2, <1>3 DEF EngineInv, Tracked, ConnectorShapes, RequestShapes
<1>6. Counted'
  <2>1. \A j \in DOMAIN transfers : JobStale(j)'
    BY <1>2 DEF EngineInv, ConnectorShapes, JobIds, JobStale
  <2>2. /\ DOMAIN outs = {} /\ \A j \in DOMAIN transfers : transfers[j].done = {}
        /\ outs \in [DOMAIN outs -> 1 .. Cardinality(Worker)]
    BY <1>1 DEF EngineInv, Counted
  <2> QED BY <1>1, <1>2, <1>3, <2>1, <2>2 DEF Counted
<1>7. Pins'
  BY <1>3 DEF Pins
<1>8. Fences'
  BY <1>2, <1>3 DEF Fences
<1> QED BY <1>1, <1>4, <1>5, <1>6, <1>7, <1>8 DEF EngineInv

-----------------------------------------------------------------------------
(***************************************************************************)
(* Lookup.                                                                 *)
(***************************************************************************)
\* A lookup finds a number of chunks, or asks to come back.
LEMMA PrefixLookupInt ==
  ASSUME NEW ks, NEW L \in Nat, DOMAIN ks = 1 .. L
  PROVE  PrefixLookup(ks) \in Int
<1> DEFINE run == {i \in DOMAIN ks : \A h \in 1 .. i : Found(ks, h)}
<1>1. run \in SUBSET (1 .. L)
  OBVIOUS
<1> HIDE DEF run
<1>2. Cardinality(run) \in Nat
  <2>1. IsFiniteSet(1 .. L)
    BY FS_Interval
  <2>2. IsFiniteSet(run)
    BY <1>1, <2>1, FS_Subset
  <2> QED BY <2>2, FS_CardinalityType
<1>3. PrefixLookup(ks) \in {Deferred, Cardinality(run)}
  BY DEF PrefixLookup, run
<1> QED BY <1>2, <1>3 DEF Deferred

\* So does one in a window.
LEMMA SuffixLookupInt ==
  ASSUME NEW ks, NEW L \in Nat, DOMAIN ks = 1 .. L, Len(ks) = L, Window > 0
  PROVE  SuffixLookup(ks) \in Int
<1> DEFINE ends == {e \in Window .. L : \A i \in e - Window + 1 .. e : Found(ks, i)}
           last == IF ends = {} THEN 0 ELSE CHOOSE e \in ends : \A d \in ends : d <= e
           run == {i \in DOMAIN ks : \A h \in 1 .. i : Found(ks, h)}
<1>1. run \in SUBSET (1 .. L) /\ ends \in SUBSET (1 .. L)
  BY ConnectorAssumption
<1>2. SuffixLookup(ks) \in {Deferred, last, Cardinality(run)}
  BY DEF SuffixLookup
<1>3. Cardinality(run) \in Nat
  <2> HIDE DEF run
  <2>1. IsFiniteSet(1 .. L)
    BY FS_Interval
  <2>2. IsFiniteSet(run)
    BY <1>1, <2>1, FS_Subset
  <2> QED BY <2>2, FS_CardinalityType
<1>4. last \in Int
  <2> HIDE DEF ends
  <2>1. CASE ends = {}
    BY <2>1
  <2>2. CASE ends # {}
    <3>1. \A e, d \in ends : e >= d <=> d <= e
      BY <1>1
    <3>2. \E e \in ends : \A d \in ends : d <= e
      BY <1>1, <2>2, <3>1, MaxInSet
    <3>3. (CHOOSE e \in ends : \A d \in ends : d <= e) \in ends
      BY <3>2, Zenon
    <3>4. last \in ends
      BY <2>2, <3>3
    <3> HIDE DEF last
    <3> QED BY <1>1, <3>4
  <2> QED BY <2>1, <2>2
<1> HIDE DEF last, run
<1> QED BY <1>2, <1>3, <1>4 DEF Deferred

\* Nothing is found beyond what the request can load.
LEMMA MaxHitBounds ==
  ASSUME EngineInv, NEW r \in Req
  PROVE  MaxHit(r) \in Int /\ MaxHit(r) <= tokens[r]
<1>1. tokens[r] \in Nat /\ TokensPerChunk \in Nat \ {0}
  BY RequestFacts, ConnectorAssumption
<1>2. NumKeys(r) \in Int
  BY <1>1 DEF NumKeys
<1> DEFINE cap == NumKeys(r) * TokensPerChunk
<1>3. cap \in Int
  BY <1>1, <1>2
<1> HIDE DEF cap
<1>4. MaxHit(r) = Smaller(IF Window = 0 THEN tokens[r] ELSE tokens[r] - 1, cap)
  BY DEF MaxHit, cap
<1> QED BY <1>1, <1>3, <1>4 DEF Smaller

\* A hit that is answered ends within the request's tokens.
LEMMA HitsWithinTokens ==
  ASSUME EngineInv, NEW r \in Req, NEW local \in Nat,
         NEW hit \in Answers(r, local) \ {0, Deferred}
  PROVE  hit \in Nat /\ local + hit \in Nat /\ local + hit <= tokens[r]
<1> DEFINE from == local \div TokensPerChunk
           ks == SubSeq(KeysOf[r], from + 1, ChunksFor(MaxHit(r)))
           hits == IF Window = 0 THEN PrefixLookup(ks) ELSE SuffixLookup(ks)
           found == Smaller(MaxHit(r), (from + hits) * TokensPerChunk)
<1>1. hit = CompleteHit(r, local)
  BY DEF Answers
<1>2. hit = found - local /\ ~(found - local < TokensPerChunk)
  BY <1>1 DEF CompleteHit
<1>3. from \in Nat /\ TokensPerChunk \in Nat
  BY ConnectorAssumption
<1> HIDE DEF from
<1>4. hits \in Int
  <2>1. ChunksFor(MaxHit(r)) \in Int
    <3>1. MaxHit(r) \in Int /\ TokensPerChunk \in Nat \ {0}
      BY MaxHitBounds, ConnectorAssumption
    <3> QED BY <3>1 DEF ChunksFor
  <2>2. KeysOf[r] \in Seq(Key) /\ from + 1 \in Int
    BY <1>3, ConnectorAssumption
  <2>3. Len(ks) \in Nat /\ DOMAIN ks = 1 .. Len(ks)
    <3> DEFINE m == from + 1
               n == ChunksFor(MaxHit(r))
               s == KeysOf[r]
    <3> HIDE DEF m, n, s
    <3>1. Len(SubSeq(s, m, n)) \in Nat /\ DOMAIN SubSeq(s, m, n) = 1 .. Len(SubSeq(s, m, n))
      BY <2>1, <2>2 DEF m, n, s
    <3> QED BY <3>1 DEF m, n, s
  <2> HIDE DEF ks
  <2> QED BY <2>3, PrefixLookupInt, SuffixLookupInt, ConnectorAssumption
<1> HIDE DEF hits
<1> DEFINE reach == (from + hits) * TokensPerChunk
<1>5. reach \in Int
  BY <1>3, <1>4
<1> HIDE DEF reach
<1>6. found \in Int /\ found <= tokens[r]
  <2>1. found = Smaller(MaxHit(r), reach)
    BY DEF reach
  <2>2. tokens[r] \in Nat
    BY RequestFacts
  <2> QED BY <1>5, <2>1, <2>2, MaxHitBounds DEF Smaller
<1> HIDE DEF found
<1> QED BY <1>2, <1>3, <1>6, RequestFacts

-----------------------------------------------------------------------------
(***************************************************************************)
(* New jobs.                                                               *)
(***************************************************************************)
\* Job x is new, no other is touched, and every worker is to report it.
Issued(x, r, isStore, K, pairs, fenced, deferred) ==
    /\ x \notin DOMAIN jobs \cup DOMAIN transfers \cup DOMAIN outs
    /\ DOMAIN jobs' = DOMAIN jobs \cup {x}
    /\ \A i \in DOMAIN jobs : jobs'[i] = jobs[i]
    /\ jobs'[x] = [req |-> r, pending |-> Cardinality(Worker), keys |-> K,
                   is_store |-> isStore, fenced |-> fenced, deferred |-> deferred]
    /\ DOMAIN transfers' = DOMAIN transfers \cup {x}
    /\ \A i \in DOMAIN transfers : transfers'[i] = transfers[i]
    /\ transfers'[x] = [req |-> r, is_store |-> isStore, pairs |-> pairs,
                        at |-> "built", left |-> Worker, done |-> {}]
    /\ jobCounter' = x + 1
    /\ Cardinality(Worker) \in Nat \ {0}

\* That is how _generate_job_id gives out an id.
LEMMA NewJobFacts ==
  ASSUME EngineInv, NEW r \in Req, NEW isStore, NEW K, NEW pairs,
         NEW fenced \in SUBSET GpuBlock, NEW deferred \in SUBSET GpuBlock,
         NewJob(r, isStore, K, pairs, fenced, deferred)
  PROVE  Issued(jobCounter, r, isStore, K, pairs, fenced, deferred)
<1>1. jobCounter \notin JobIds
  BY DEF JobIds, EngineInv, ConnectorShapes
<1>2. jobCounter \notin DOMAIN jobs \cup DOMAIN transfers \cup DOMAIN outs
  BY <1>1 DEF EngineInv, ConnectorShapes, Counted
<1>3. /\ jobs' = With(jobs, jobCounter,
            [req |-> r, pending |-> Cardinality(Worker), keys |-> K,
             is_store |-> isStore, fenced |-> fenced, deferred |-> deferred])
      /\ transfers' = With(transfers, jobCounter,
            [req |-> r, is_store |-> isStore, pairs |-> pairs, at |-> "built",
             left |-> Worker, done |-> {}])
      /\ jobCounter' = jobCounter + 1
  BY DEF NewJob
<1>4. Cardinality(Worker) \in Nat \ {0}
  BY ConnectorAssumption, EngineAssumption, FS_CardinalityType, FS_EmptySet
<1>5. /\ DOMAIN jobs' = DOMAIN jobs \cup {jobCounter}
      /\ \A i \in DOMAIN jobs : jobs'[i] = jobs[i]
      /\ jobs'[jobCounter] =
            [req |-> r, pending |-> Cardinality(Worker), keys |-> K,
             is_store |-> isStore, fenced |-> fenced, deferred |-> deferred]
  BY <1>2, <1>3 DEF With
<1>6. /\ DOMAIN transfers' = DOMAIN transfers \cup {jobCounter}
      /\ \A i \in DOMAIN transfers : transfers'[i] = transfers[i]
      /\ transfers'[jobCounter] =
            [req |-> r, is_store |-> isStore, pairs |-> pairs, at |-> "built",
             left |-> Worker, done |-> {}]
  BY <1>2, <1>3 DEF With
<1> QED BY <1>2, <1>3, <1>4, <1>5, <1>6 DEF Issued

\* Every worker will report a new job.
LEMMA NewJobCounted ==
  ASSUME EngineInv, NEW r \in Req, NEW isStore \in BOOLEAN, NEW K, NEW pairs,
         NEW fenced \in SUBSET GpuBlock, NEW deferred \in SUBSET GpuBlock,
         NewJob(r, isStore, K, pairs, fenced, deferred),
         phase \in {"schedule", "stores"}, UNCHANGED <<outs, staleBelow, phase>>
  PROVE  /\ Counted'
         /\ DOMAIN transfers' \in SUBSET JobIds' /\ JobIds \in SUBSET JobIds'
         /\ jobCounter' \in Nat /\ staleBelow' \in 0 .. jobCounter'
         /\ jobCounter \in JobIds'
         /\ \A j \in DOMAIN jobs' : IsJob(jobs'[j])
         /\ \A j \in DOMAIN transfers' : IsTransfer(transfers'[j])
<1>0. PICK x : x = jobCounter
  OBVIOUS
<1>a. Issued(x, r, isStore, K, pairs, fenced, deferred)
  BY <1>0, NewJobFacts
<1>1. /\ x \notin DOMAIN jobs \cup DOMAIN transfers \cup DOMAIN outs
      /\ DOMAIN jobs' = DOMAIN jobs \cup {x}
      /\ \A i \in DOMAIN jobs : jobs'[i] = jobs[i]
      /\ jobs'[x] = [req |-> r, pending |-> Cardinality(Worker), keys |-> K,
                     is_store |-> isStore, fenced |-> fenced, deferred |-> deferred]
      /\ DOMAIN transfers' = DOMAIN transfers \cup {x}
      /\ \A i \in DOMAIN transfers : transfers'[i] = transfers[i]
      /\ transfers'[x] = [req |-> r, is_store |-> isStore, pairs |-> pairs, at |-> "built",
                          left |-> Worker, done |-> {}]
      /\ jobCounter' = x + 1 /\ Cardinality(Worker) \in Nat \ {0}
  BY <1>a DEF Issued
<1>2. x \in Nat /\ staleBelow \in 0 .. x /\ DOMAIN transfers \in SUBSET JobIds
  BY <1>0 DEF EngineInv, ConnectorShapes
<1>3. jobCounter' \in Nat /\ staleBelow' \in 0 .. jobCounter' /\ ~(x < staleBelow)
  BY <1>1, <1>2
<1>4. x \in JobIds' /\ JobIds \in SUBSET JobIds'
  BY <1>0, <1>1, <1>2 DEF JobIds
<1>5. IsJob(jobs'[x]) /\ IsTransfer(transfers'[x])
  <2>1. IsJob(jobs'[x])
    BY <1>1 DEF IsJob
  <2>2. IsTransfer(transfers'[x])
    BY <1>1 DEF IsTransfer
  <2> QED BY <2>1, <2>2
<1>6. /\ \A j \in DOMAIN jobs' : IsJob(jobs'[j])
      /\ \A j \in DOMAIN transfers' : IsTransfer(transfers'[j])
  BY <1>1, <1>5 DEF EngineInv, ConnectorShapes
<1>7. Counted'
  <2>1. \A j : JobStale(j)' <=> JobStale(j)
    BY DEF JobStale
  <2>2. \A j \in DOMAIN transfers : Uncounted(j)' = Uncounted(j)
    BY <1>1 DEF Uncounted
  <2>3. Uncounted(x)' = Cardinality(Worker) /\ ~JobStale(x)
    <3>1. Uncounted(x)' = Cardinality(Worker) + Cardinality({}) + 0
      BY <1>1 DEF Uncounted
    <3>2. Cardinality({}) = 0
      BY FS_EmptySet
    <3> QED BY <1>1, <1>3, <3>1, <3>2 DEF JobStale
  <2>4. /\ \A j \in DOMAIN jobs : /\ j \in DOMAIN transfers /\ ~JobStale(j)
                                  /\ jobs[j].pending = Uncounted(j)
        /\ \A j \in DOMAIN transfers :
              ~JobStale(j) /\ Uncounted(j) > 0 => j \in DOMAIN jobs
        /\ DOMAIN outs \in SUBSET DOMAIN transfers
        /\ outs \in [DOMAIN outs -> 1 .. Cardinality(Worker)]
        /\ DOMAIN outs = {} /\ \A j \in DOMAIN transfers : transfers[j].done = {}
    BY DEF EngineInv, Counted
  <2>5. jobs'[x].pending = Cardinality(Worker) /\ transfers'[x].done = {}
    BY <1>1
  <2>6. \A j \in DOMAIN jobs' : /\ j \in DOMAIN transfers' /\ ~JobStale(j)'
                                /\ jobs'[j].pending = Uncounted(j)'
    BY <1>1, <2>1, <2>2, <2>3, <2>4, <2>5
  <2>7. \A j \in DOMAIN transfers' : ~JobStale(j)' /\ Uncounted(j)' > 0 => j \in DOMAIN jobs'
    BY <1>1, <2>1, <2>2, <2>4
  <2>8. \A j \in DOMAIN transfers' : transfers'[j].done = {}
    BY <1>1, <2>4, <2>5
  <2>9. DOMAIN outs' = {} /\ outs' \in [DOMAIN outs' -> 1 .. Cardinality(Worker)]
        /\ DOMAIN outs' \in SUBSET DOMAIN transfers'
    BY <1>1, <2>4
  <2> QED BY <2>6, <2>7, <2>8, <2>9 DEF Counted
<1> QED BY <1>0, <1>1, <1>2, <1>3, <1>4, <1>6, <1>7

\* A load pins its keys.
LEMMA LoadPins ==
  ASSUME EngineInv, NEW r \in Req, NEW K, NEW pairs, PrepareLoad(K),
         NewJob(r, FALSE, K, pairs, {}, {})
  PROVE  Pins'
<1>0. PICK x : x = jobCounter
  OBVIOUS
<1>1. /\ x \notin DOMAIN jobs /\ DOMAIN jobs' = DOMAIN jobs \cup {x}
      /\ \A i \in DOMAIN jobs : jobs'[i] = jobs[i]
      /\ jobs'[x].keys = K /\ jobs'[x].is_store = FALSE
  <2>1. Issued(x, r, FALSE, K, pairs, {}, {})
    BY <1>0, NewJobFacts
  <2> QED BY <2>1 DEF Issued
<1>2. \A k : /\ WritersOf(k)' = WritersOf(k) /\ x \notin ReadersOf(k)
             /\ ReadersOf(k)' = ReadersOf(k) \cup IF k \in K THEN {x} ELSE {}
  BY <1>1 DEF ReadersOf, WritersOf
<1>3. /\ K \subseteq Cached /\ \A k \in K : blocks[k].ref_cnt >= 0
      /\ blocks' = [k \in Cached |-> IF k \in K THEN [blocks[k] EXCEPT !.ref_cnt = @ + 1]
                                     ELSE blocks[k]]
  BY DEF PrepareLoad, LoadAsserts, Ready
<1>4. Cached' = Cached
  BY <1>3 DEF Cached
<1>5. ASSUME NEW k \in Cached PROVE Pinned(k)'
  <2>1. Pinned(k)
    BY DEF EngineInv, Pins
  <2>2. CASE k \in K
    <3>1. WritersOf(k) = {} /\ blocks[k].ref_cnt = Cardinality(ReadersOf(k))
      BY <1>3, <2>1, <2>2 DEF Pinned
    <3>2. ReadersOf(k)' = ReadersOf(k) \cup {x} /\ WritersOf(k)' = {}
      BY <1>2, <2>2, <3>1
    <3>3. Cardinality(ReadersOf(k) \cup {x}) = blocks[k].ref_cnt + 1
      BY <1>2, <3>1, ReadersFinite, FS_AddElement
    <3> DEFINE e == blocks[k]
    <3>4. e = [ref_cnt |-> e.ref_cnt, block_id |-> e.block_id]
      BY <2>1 DEF Pinned
    <3>5. blocks'[k] = [e EXCEPT !.ref_cnt = @ + 1]
      BY <1>3, <2>2
    <3> HIDE DEF e
    <3>6. blocks'[k] = [ref_cnt |-> e.ref_cnt + 1, block_id |-> e.block_id]
      BY <3>4, <3>5
    <3>7. blocks'[k].ref_cnt = Cardinality(ReadersOf(k)')
      BY <3>2, <3>3, <3>6 DEF e
    <3> QED BY <3>2, <3>6, <3>7 DEF Pinned
  <2>3. CASE k \notin K
    <3>1. ReadersOf(k)' = ReadersOf(k) /\ WritersOf(k)' = WritersOf(k) /\ blocks'[k] = blocks[k]
      BY <1>2, <1>3, <2>3
    <3> QED BY <2>1, <3>1 DEF Pinned
  <2> QED BY <2>2, <2>3
<1>6. \A i \in DOMAIN jobs' : jobs'[i].keys \subseteq Cached
  BY <1>1, <1>3 DEF EngineInv, Pins
<1> QED BY <1>4, <1>5, <1>6 DEF Pins

\* A store pins its keys, and evicts none that a job has.
LEMMA StorePins ==
  ASSUME EngineInv, NEW r \in Req, NEW K, NEW pairs,
         NEW fenced \in SUBSET GpuBlock, NEW deferred \in SUBSET GpuBlock,
         NEW es \in EvictionsFor(K), NEW slot, PrepareStore(K, es, slot),
         NewJob(r, TRUE, New(K), pairs, fenced, deferred)
  PROVE  Pins'
<1>0. PICK x : x = jobCounter
  OBVIOUS
<1>a. PICK N : N = New(K)
  OBVIOUS
<1>1. /\ x \notin DOMAIN jobs /\ DOMAIN jobs' = DOMAIN jobs \cup {x}
      /\ \A i \in DOMAIN jobs : jobs'[i] = jobs[i]
      /\ jobs'[x].keys = N /\ jobs'[x].is_store = TRUE
  <2>1. Issued(x, r, TRUE, N, pairs, fenced, deferred)
    BY <1>0, <1>a, NewJobFacts
  <2> QED BY <2>1 DEF Issued
<1>2. \A k : /\ ReadersOf(k)' = ReadersOf(k)
             /\ WritersOf(k)' = WritersOf(k) \cup IF k \in N THEN {x} ELSE {}
  BY <1>1 DEF ReadersOf, WritersOf
<1>3. Range(es) \subseteq Evictable
  BY DEF EvictionsFor, Evictions, Range
<1>4. N \cap Cached = {}
  BY <1>a DEF New
<1>5. blocks' = [k \in (Cached \ Range(es)) \cup N |->
                    IF k \in N THEN [ref_cnt |-> -1, block_id |-> slot[k]] ELSE blocks[k]]
  BY <1>a DEF PrepareStore
<1>6. Cached' = (Cached \ Range(es)) \cup N
  BY <1>5 DEF Cached
<1>7. \A j \in DOMAIN jobs : jobs[j].keys \subseteq Cached \ Range(es)
  <2>1. ASSUME NEW j \in DOMAIN jobs, NEW k \in jobs[j].keys PROVE k \in Cached \ Range(es)
    <3>1. k \in Cached /\ blocks[k].ref_cnt # 0
      BY PinnedKeys
    <3> QED BY <1>3, <3>1 DEF Evictable
  <2> QED BY <2>1
<1>8. ASSUME NEW k \in Cached' PROVE Pinned(k)'
  <2>1. CASE k \in N
    <3>1. \A j \in DOMAIN jobs : k \notin jobs[j].keys
      BY <1>4, <1>7, <2>1
    <3>2. ReadersOf(k)' = {} /\ WritersOf(k)' = {x}
      BY <1>2, <2>1, <3>1 DEF ReadersOf, WritersOf
    <3>3. blocks'[k] = [ref_cnt |-> -1, block_id |-> slot[k]]
      BY <1>5, <2>1
    <3> QED BY <3>2, <3>3 DEF Pinned
  <2>2. CASE k \notin N
    <3>1. ReadersOf(k)' = ReadersOf(k) /\ WritersOf(k)' = WritersOf(k)
      BY <1>2, <2>2
    <3>2. k \in Cached /\ blocks'[k] = blocks[k]
      BY <1>5, <1>6, <2>2
    <3>3. Pinned(k)
      BY <3>2 DEF EngineInv, Pins
    <3> QED BY <3>1, <3>2, <3>3 DEF Pinned
  <2> QED BY <2>1, <2>2
<1>9. \A i \in DOMAIN jobs' : jobs'[i].keys \subseteq Cached'
  BY <1>1, <1>6, <1>7
<1> QED BY <1>8, <1>9 DEF Pins

\* Fences stay right when a job is issued that watches the blocks B.
LEMMA IssuedFences ==
  ASSUME EngineInv, NEW x, NEW r \in Req, NEW isStore, NEW K, NEW pairs,
         NEW fenced, NEW deferred, Issued(x, r, isStore, K, pairs, fenced, deferred),
         \A y \in Req : Finished(y)' <=> Finished(y),
         NEW B, B = fenced \cup IF Finished(r) THEN deferred ELSE {},
         pendingOf' = Watched(x, B)
  PROVE  Fences'
<1>1. /\ x \notin DOMAIN jobs /\ DOMAIN jobs' = DOMAIN jobs \cup {x}
      /\ \A i \in DOMAIN jobs : jobs'[i] = jobs[i]
      /\ jobs'[x].req = r /\ jobs'[x].fenced = fenced /\ jobs'[x].deferred = deferred
  BY DEF Issued
<1>2. \A i \in DOMAIN jobs : jobs[i].req \in Req
  BY DEF EngineInv, ConnectorShapes, IsJob
<1>3. \A i \in DOMAIN jobs : Finished(jobs[i].req)' <=> Finished(jobs[i].req)
  BY <1>1, <1>2 DEF Finished
<1>4. Finished(jobs[x].req)' <=> Finished(r)
  BY <1>1 DEF Finished
<1>5. ASSUME NEW b \in GpuBlock
      PROVE  pendingOf'[b] = {i \in DOMAIN jobs' : b \in jobs'[i].fenced
                \/ (b \in jobs'[i].deferred /\ Finished(jobs[i].req)')}
  <2>1. pendingOf'[b] = pendingOf[b] \cup IF b \in B THEN {x} ELSE {}
    BY DEF Watched
  <2>2. pendingOf[b] = {i \in DOMAIN jobs : b \in jobs[i].fenced
                \/ (b \in jobs[i].deferred /\ Finished(jobs[i].req))}
    BY DEF EngineInv, Fences
  <2>3. b \in B <=> b \in jobs'[x].fenced
                       \/ (b \in jobs'[x].deferred /\ Finished(jobs[x].req)')
    BY <1>1, <1>4
  <2>4. \A i : i \in pendingOf'[b] <=>
           i \in DOMAIN jobs' /\ (b \in jobs'[i].fenced
                \/ (b \in jobs'[i].deferred /\ Finished(jobs[i].req)'))
    <3>1. ASSUME NEW i, i # x
          PROVE  i \in pendingOf'[b] <=> i \in DOMAIN jobs' /\ (b \in jobs'[i].fenced
                    \/ (b \in jobs'[i].deferred /\ Finished(jobs[i].req)'))
      BY <1>1, <1>3, <2>1, <2>2, <3>1
    <3>2. x \in pendingOf'[b] <=> x \in DOMAIN jobs' /\ (b \in jobs'[x].fenced
                    \/ (b \in jobs'[x].deferred /\ Finished(jobs[x].req)'))
      BY <1>1, <2>1, <2>2, <2>3
    <3> QED BY <3>1, <3>2
  <2> QED BY <2>4
<1>6. pendingOf' = [b \in GpuBlock |-> pendingOf'[b]]
  BY DEF Watched
<1> QED BY <1>5, <1>6 DEF Fences

\* A load of the keys K is prepared and issued.
LoadStep(r, K, pairs) ==
    /\ PrepareLoad(K)
    /\ NewJob(r, FALSE, K, pairs, {}, {})
    /\ \A p \in pairs : \E k \in K : p[2] = blocks[k].block_id

\* What update_state_after_alloc does to the connector and the manager.
LEMMA LoadEffect ==
  ASSUME NEW r \in Req, NEW blks, NEW isHashed, UpdateStateAfterAlloc(r, blks, isHashed)
  PROVE  /\ \E K, pairs : LoadStep(r, K, pairs)
         /\ stored' = [stored EXCEPT ![r] = Len(blks)]
         /\ blockIds' = [blockIds EXCEPT ![r] = <<>>]
         /\ batchAlloc' = batchAlloc \cup NonNull(blks)
         /\ UNCHANGED <<signaled, tracked, pendingOf, toFlush, staleBelow>>
<1> DEFINE pending == PendingBlocks(blks, isHashed)
           K == {KeysOf[r][i] : i \in pending}
           pairs == {<<blks[i], blocks[KeysOf[r][i]].block_id>> : i \in pending}
<1>1. PrepareLoad(K) /\ NewJob(r, FALSE, K, pairs, {}, {})
  BY DEF UpdateStateAfterAlloc
<1>2. \A p \in pairs : \E k \in K : p[2] = blocks[k].block_id
  <2> HIDE DEF pending
  <2> QED OBVIOUS
<1>3. LoadStep(r, K, pairs)
  BY <1>1, <1>2 DEF LoadStep
<1> QED BY <1>3 DEF UpdateStateAfterAlloc, trackVars

\* A waiting request starts to load.
LEMMA AdmitLoadKeeps ==
  ASSUME EngineInv, NEW r \in Req, AdmitLoad(r)
  PROVE  EngineInv'
<1>0. PICK x : x = jobCounter
  OBVIOUS
<1> DEFINE local == LocalBlocks(r)
           c == Len(local) * TokensPerChunk
<1>1. PICK hit \in Answers(r, c) \ {0, Deferred} :
      \E ids \in Extensions(local, c + hit, ChunksFor(c + hit)) :
         /\ UpdateStateAfterAlloc(r, ids, [b \in GpuBlock |-> b \in Range(local)])
         /\ table' = [table EXCEPT ![r] = ids]
         /\ computed' = [computed EXCEPT ![r] = c + hit]
  BY DEF AdmitLoad
<1>2. PICK ids \in Extensions(local, c + hit, ChunksFor(c + hit)) :
         /\ UpdateStateAfterAlloc(r, ids, [b \in GpuBlock |-> b \in Range(local)])
         /\ table' = [table EXCEPT ![r] = ids]
         /\ computed' = [computed EXCEPT ![r] = c + hit]
  BY <1>1
<1>3. /\ status[r] = "waiting" /\ phase = "schedule"
      /\ status' = [status EXCEPT ![r] = "remote"] /\ seen' = seen \cup {r}
      /\ UNCHANGED <<tokens, batch, newIds, finishedIds, phase, todo, waitFor, outs>>
  BY DEF AdmitLoad, Waiting, Turn, Scheduling, outVars
<1>4. c \in Nat /\ local \in Seq(Cell) /\ tokens[r] \in Nat
  BY RequestFacts
<1> HIDE DEF c, local
<1> DEFINE n == c + hit
<1>5. n \in Nat /\ n <= tokens[r]
  BY <1>1, <1>4, HitsWithinTokens
<1> HIDE DEF n
<1>6. ids \in Seq(Cell) /\ Len(ids) \in Nat
  <2>1. ChunksFor(n) \in Nat
    BY <1>5, ChunksForNat
  <2> QED BY <1>2, <1>4, <1>5, <2>1, ExtensionsAreCells DEF EngineInv, n
<1>7. /\ \E K, pairs : LoadStep(r, K, pairs)
      /\ stored' = [stored EXCEPT ![r] = Len(ids)]
      /\ blockIds' = [blockIds EXCEPT ![r] = <<>>]
      /\ batchAlloc' = batchAlloc \cup NonNull(ids)
      /\ UNCHANGED <<signaled, tracked, pendingOf, toFlush, staleBelow>>
  BY <1>2, LoadEffect
<1>8. PICK K, pairs : PrepareLoad(K) /\ NewJob(r, FALSE, K, pairs, {}, {})
  BY <1>7 DEF LoadStep
<1>9. Issued(x, r, FALSE, K, pairs, {}, {})
  BY <1>0, <1>8, NewJobFacts
<1>10. /\ Counted'
       /\ DOMAIN transfers' \in SUBSET JobIds' /\ JobIds \in SUBSET JobIds'
       /\ jobCounter' \in Nat /\ staleBelow' \in 0 .. jobCounter'
       /\ \A j \in DOMAIN jobs' : IsJob(jobs'[j])
       /\ \A j \in DOMAIN transfers' : IsTransfer(transfers'[j])
  <2>1. /\ {} \in SUBSET GpuBlock /\ FALSE \in BOOLEAN /\ phase \in {"schedule", "stores"}
        /\ UNCHANGED <<outs, staleBelow, phase>>
    BY <1>3, <1>7
  <2> QED BY <1>8, <2>1, NewJobCounted
<1>11. /\ status'[r] = "remote" /\ computed'[r] = n /\ \A y \in Req \ {r} :
             status'[y] = status[y] /\ computed'[y] = computed[y]
  BY <1>2, <1>3 DEF EngineInv, RequestShapes, n
<1>12. RequestShapes'
  BY <1>2, <1>3, <1>5, <1>6 DEF EngineInv, RequestShapes, n
<1>13. \A y \in Req : Finished(y)' <=> Finished(y)
  BY <1>3, <1>11 DEF Finished
<1>14. ConnectorShapes'
  <2>1. blockIds' \in [Req -> Seq(Cell)]
    BY <1>7, ForgetIds
  <2>2. stored' \in [Req -> Nat]
    BY <1>6, <1>7 DEF EngineInv, ConnectorShapes
  <2>3. batchAlloc' \in SUBSET GpuBlock
    <3>1. \A i \in DOMAIN ids : ids[i] \in Cell
      BY <1>6, ElementOfSeq, LenProperties
    <3>2. NonNull(ids) \in SUBSET GpuBlock
      BY <3>1 DEF NonNull, Range, Cell
    <3> QED BY <1>7, <3>2 DEF EngineInv, ConnectorShapes
  <2>4. toFlush' \in SUBSET JobIds' /\ waitFor' \in SUBSET JobIds'
    BY <1>3, <1>7, <1>10 DEF EngineInv, ConnectorShapes
  <2>5. signaled' \in SUBSET Req /\ tracked' \in SUBSET Req /\ todo' \in SUBSET tracked'
    BY <1>3, <1>7 DEF EngineInv, ConnectorShapes
  <2> QED BY <1>10, <2>1, <2>2, <2>3, <2>4, <2>5 DEF ConnectorShapes
<1>15. Amounts'
  <2>1. ~(batch[r] > 0) /\ batch[r] \in Nat
    BY <1>3 DEF EngineInv, Amounts, RequestShapes
  <2>2. computed'[r] <= tokens[r] /\ computed'[r] + batch[r] <= tokens[r]
    BY <1>5, <1>11, <2>1, RequestFacts
  <2>3. \A y \in Req : /\ tokens[y] \in 1 .. MaxTokens
                       /\ ~Finished(y) => tokens[y] < MaxTokens
                       /\ computed[y] <= tokens[y]
                       /\ batch[y] > 0 => status[y] = "running"
                       /\ computed[y] + batch[y] <= tokens[y]
                       /\ batch[y] > 0 => y \in seen
    BY <1>3 DEF EngineInv, Amounts
  <2>4. ASSUME NEW y \in Req
        PROVE  /\ tokens'[y] \in 1 .. MaxTokens
               /\ ~Finished(y)' => tokens'[y] < MaxTokens
               /\ computed'[y] <= tokens'[y]
               /\ batch'[y] > 0 => status'[y] = "running"
               /\ computed'[y] + batch'[y] <= tokens'[y]
               /\ batch'[y] > 0 => y \in seen'
    <3>1. CASE y = r
      BY <1>3, <1>13, <2>1, <2>2, <2>3, <3>1
    <3>2. CASE y # r
      BY <1>3, <1>11, <1>13, <2>3, <3>2
    <3> QED BY <3>1, <3>2
  <2> QED BY <1>3, <2>4 DEF Amounts
<1>16. Tracked'
  <2>1. r \in tracked
    BY <1>3 DEF EngineInv, Tracked, Finished
  <2>2. \A j \in DOMAIN jobs' : jobs'[j].req \in tracked'
    <3>1. jobs'[x].req = r /\ DOMAIN jobs' = DOMAIN jobs \cup {x}
          /\ \A i \in DOMAIN jobs : jobs'[i] = jobs[i]
      BY <1>9 DEF Issued
    <3> QED BY <1>7, <2>1, <3>1 DEF EngineInv, Tracked
  <2> QED BY <1>3, <1>7, <1>13, <2>2 DEF EngineInv, Tracked, RequestShapes, ConnectorShapes
<1>17. Pins'
  BY <1>8, LoadPins
<1>18. Fences'
  <2>1. PICK B : B = {}
    OBVIOUS
  <2>2. pendingOf' = Watched(x, B)
    <3>1. pendingOf = [b \in GpuBlock |-> pendingOf[b]]
      BY DEF EngineInv, Fences
    <3> QED BY <1>7, <2>1, <3>1 DEF Watched
  <2>3. B = B \cup IF Finished(r) THEN B ELSE {}
    OBVIOUS
  <2>4. Issued(x, r, FALSE, K, pairs, B, B)
    BY <1>9, <2>1
  <2> QED BY <1>13, <2>2, <2>3, <2>4, IssuedFences
<1> QED BY <1>10, <1>12, <1>14, <1>15, <1>16, <1>17, <1>18 DEF EngineInv

\* Chunks that may be stored are among the blocks the connector knows.
LEMMA StorableBounds ==
  ASSUME EngineInv, NEW r \in Req
  PROVE  /\ StorableChunks(r) \in Int /\ StorableChunks(r) <= Len(blockIds[r])
         /\ FirstOffered(r) \in Nat \ {0} /\ Len(blockIds[r]) \in Nat
<1> DEFINE t == Smaller(TokensAfterBatch(r), tokens[r])
           m == t \div TokensPerChunk
           l == Len(blockIds[r])
<1>1. TokensAfterBatch(r) \in Nat /\ tokens[r] \in Nat /\ stored[r] \in Nat
  BY RequestFacts DEF TokensAfterBatch
<1>2. t \in Nat
  BY <1>1 DEF Smaller
<1> HIDE DEF t
<1>3. m \in Int
  BY <1>2, ConnectorAssumption
<1>4. l \in Nat
  BY RequestFacts, LenProperties
<1>5. StorableChunks(r) = Smaller(m, l)
  BY DEF StorableChunks, t
<1> HIDE DEF m
<1>6. Smaller(m, l) \in Int /\ Smaller(m, l) <= l
  BY <1>3, <1>4 DEF Smaller
<1>7. FirstOffered(r) \in Nat \ {0}
  BY <1>1 DEF FirstOffered
<1> QED BY <1>4, <1>5, <1>6, <1>7

\* The stored index only moves up.
LEMMA AdvanceStoredNat ==
  ASSUME EngineInv, NEW r \in Req, AdvanceStored(r)
  PROVE  stored' \in [Req -> Nat]
<1>1. Larger(stored[r], StorableChunks(r)) \in Nat
  BY RequestFacts, StorableBounds DEF Larger
<1>2. stored' = [stored EXCEPT ![r] = Larger(stored[r], StorableChunks(r))]
  BY DEF AdvanceStored
<1> QED BY <1>1, <1>2 DEF EngineInv, ConnectorShapes

\* What a round of _build_store_jobs leaves alone.
LEMMA BuildStoreFrame ==
  ASSUME EngineInv, NEW r \in Req, BuildStore(r)
  PROVE  /\ phase = "stores" /\ r \in todo /\ r \in tracked /\ todo' = todo \ {r}
         /\ UNCHANGED <<status, finishedIds, phase, waitFor, outs>>
         /\ \A x \in Req : Finished(x)' <=> Finished(x)
         /\ RequestShapes' /\ Amounts'
<1>1. /\ phase = "stores" /\ r \in todo /\ todo' = todo \ {r}
      /\ UNCHANGED <<status, computed, tokens, batch, newIds, finishedIds, table, phase,
                     seen, waitFor, outs>>
  BY DEF BuildStore, reqVars, outVars, coreVars
<1>2. \A x \in Req : Finished(x)' <=> Finished(x)
  BY <1>1 DEF Finished
<1>3. RequestShapes'
  BY <1>1 DEF EngineInv, RequestShapes
<1>4. Amounts'
  BY <1>1, <1>2 DEF EngineInv, Amounts
<1>5. r \in tracked
  BY <1>1 DEF EngineInv, ConnectorShapes
<1> QED BY <1>1, <1>2, <1>3, <1>4, <1>5

\* A request without anything new to store, or whose store is refused.
LEMMA NoStoreKeeps ==
  ASSUME EngineInv, NEW r \in Req, BuildStore(r), NothingToStore(r) \/ StoreRefused(r)
  PROVE  EngineInv'
<1>1. /\ phase = "stores" /\ todo' = todo \ {r}
      /\ UNCHANGED <<status, finishedIds, phase, waitFor, outs>>
      /\ \A x \in Req : Finished(x)' <=> Finished(x)
      /\ RequestShapes' /\ Amounts'
  BY BuildStoreFrame
<1>2. /\ UNCHANGED <<blocks, signaled, tracked, blockIds, jobs, jobCounter, transfers,
                     pendingOf, toFlush, batchAlloc, staleBelow>>
      /\ stored' \in [Req -> Nat]
  <2>1. CASE NothingToStore(r)
    <3>1. AdvanceStored(r) /\ UNCHANGED <<mgrVars, trackVars, blockIds, jobVars, fenceVars, staleBelow>>
      BY <2>1 DEF NothingToStore
    <3> QED BY <3>1, AdvanceStoredNat DEF mgrVars, trackVars, jobVars, fenceVars
  <2>2. CASE StoreRefused(r)
    <3>1. UNCHANGED <<mgrVars, connVars>>
      BY <2>2 DEF StoreRefused
    <3> QED BY <3>1 DEF mgrVars, connVars, trackVars, jobVars, fenceVars,
            EngineInv, ConnectorShapes
  <2> QED BY <2>1, <2>2
<1>3. ConnectorShapes'
  <2>1. JobIds' = JobIds
    BY <1>2 DEF JobIds
  <2> QED BY <1>1, <1>2, <2>1 DEF EngineInv, ConnectorShapes, IsJob, IsTransfer
<1>4. Tracked'
  BY <1>1, <1>2 DEF EngineInv, Tracked, RequestShapes, ConnectorShapes
<1>5. Counted' /\ Pins' /\ Fences'
  BY <1>1, <1>2, CountedSame, PinsSame, FencesSame DEF EngineInv
<1> QED BY <1>1, <1>3, <1>4, <1>5 DEF EngineInv

\* What an accepted store of the new keys of K, read from the blocks source,
\* does to the connector and the manager.
StoreStep(r, K, es, slot, pairs, source) ==
    LET fenced == WatchedAtOnce(source)
        deferred == source \ fenced
    IN  /\ source \in SUBSET GpuBlock /\ IsFiniteSet(K)
        /\ es \in EvictionsFor(K) /\ PrepareStore(K, es, slot)
        /\ \A p \in pairs : \E k \in New(K) : p[2] = slot[k]
        /\ NewJob(r, TRUE, New(K), pairs, fenced, deferred)
        /\ pendingOf' = Watched(jobCounter,
                            fenced \cup IF Finished(r) THEN deferred ELSE {})
        /\ toFlush' \subseteq toFlush \cup {jobCounter}
        /\ AdvanceStored(r)
        /\ UNCHANGED <<signaled, tracked, blockIds, batchAlloc, staleBelow>>

\* An accepted store is such a step.
LEMMA StoreEffect ==
  ASSUME EngineInv, NEW r \in Req, StoreAccepted(r)
  PROVE  \E K, es, slot, pairs, source : StoreStep(r, K, es, slot, pairs, source)
<1> DEFINE K == {KeysOf[r][i] : i \in Offered(r)}
           chunks == {i \in FirstOffered(r) .. StorableChunks(r) : KeysOf[r][i] \in New(K)}
           source == {blockIds[r][i] : i \in chunks} \ {0}
           fenced == WatchedAtOnce(source)
           deferred == source \ fenced
           watched == fenced \cup IF Finished(r) THEN deferred ELSE {}
           F == IF Finished(r) /\ deferred \cap batchAlloc # {} THEN {jobCounter} ELSE {}
<1>1. \E es \in EvictionsFor(K) :
      \E slot \in Injection(New(K), Fresh(Cardinality(New(K)))
                                      \cup freeList \cup SlotsOf(Range(es))) :
         /\ PrepareStore(K, es, slot)
         /\ NewJob(r, TRUE, New(K),
                   {<<blockIds[r][i], slot[KeysOf[r][i]]>> :
                       i \in {c \in chunks : blockIds[r][c] # 0}},
                   fenced, deferred)
         /\ AdvanceStored(r)
         /\ pendingOf' = Watched(jobCounter, watched)
         /\ toFlush' = toFlush \cup F
         /\ UNCHANGED <<trackVars, blockIds, batchAlloc, staleBelow>>
  BY Zenon DEF StoreAccepted
<1>2. source \in SUBSET GpuBlock
  <2>1. \A i \in chunks : i \in 1 .. Len(blockIds[r])
    BY StorableBounds
  <2>2. \A i \in 1 .. Len(blockIds[r]) : blockIds[r][i] \in Cell
    BY RequestFacts, ElementOfSeq
  <2> HIDE DEF chunks
  <2> QED BY <2>1, <2>2 DEF Cell
<1>3. F \subseteq {jobCounter}
  OBVIOUS
<1>a. IsFiniteSet(K)
  <2>1. StorableChunks(r) \in Int /\ FirstOffered(r) \in Int
    BY StorableBounds
  <2>2. IsFiniteSet(FirstOffered(r) .. StorableChunks(r))
    BY <2>1, FS_Interval
  <2>3. Offered(r) \in SUBSET (FirstOffered(r) .. StorableChunks(r))
    BY DEF Offered
  <2>4. IsFiniteSet(Offered(r))
    BY <2>2, <2>3, FS_Subset
  <2>5. [i \in Offered(r) |-> KeysOf[r][i]] \in Surjection(Offered(r), K)
    BY DEF Surjection
  <2> HIDE DEF K
  <2> QED BY <2>4, <2>5, FS_Surjection
<1>b. \A i \in chunks : KeysOf[r][i] \in New(K)
  OBVIOUS
<1> HIDE DEF source, F, K, chunks
<1>4. PICK es \in EvictionsFor(K) :
      \E slot :
         /\ PrepareStore(K, es, slot)
         /\ NewJob(r, TRUE, New(K),
                   {<<blockIds[r][i], slot[KeysOf[r][i]]>> :
                       i \in {c \in chunks : blockIds[r][c] # 0}},
                   fenced, deferred)
         /\ AdvanceStored(r)
         /\ pendingOf' = Watched(jobCounter, watched)
         /\ toFlush' = toFlush \cup F
         /\ UNCHANGED <<trackVars, blockIds, batchAlloc, staleBelow>>
  BY <1>1
<1>5. PICK slot :
         /\ PrepareStore(K, es, slot)
         /\ NewJob(r, TRUE, New(K),
                   {<<blockIds[r][i], slot[KeysOf[r][i]]>> :
                       i \in {c \in chunks : blockIds[r][c] # 0}},
                   fenced, deferred)
         /\ AdvanceStored(r)
         /\ pendingOf' = Watched(jobCounter, watched)
         /\ toFlush' = toFlush \cup F
         /\ UNCHANGED <<trackVars, blockIds, batchAlloc, staleBelow>>
  BY <1>4
<1>6. UNCHANGED <<signaled, tracked, blockIds, batchAlloc, staleBelow>>
  BY <1>5 DEF trackVars
<1> DEFINE read == {c \in chunks : blockIds[r][c] # 0}
           pairsOf == {<<blockIds[r][i], slot[KeysOf[r][i]]>> : i \in read}
<1>c. \A p \in pairsOf : \E k \in New(K) : p[2] = slot[k]
  <2>1. \A i \in read : KeysOf[r][i] \in New(K)
    BY <1>b
  <2> HIDE DEF read
  <2> QED BY <2>1
<1>7. PICK pairs : /\ NewJob(r, TRUE, New(K), pairs, fenced, deferred)
                   /\ \A p \in pairs : \E k \in New(K) : p[2] = slot[k]
  BY <1>5, <1>c
<1>8. StoreStep(r, K, es, slot, pairs, source)
  BY <1>2, <1>3, <1>5, <1>6, <1>7, <1>a DEF StoreStep
<1> QED BY <1>8

\* A store is prepared.
LEMMA StoreAcceptedKeeps ==
  ASSUME EngineInv, NEW r \in Req, BuildStore(r), StoreAccepted(r)
  PROVE  EngineInv'
<1>0. PICK x : x = jobCounter
  OBVIOUS
<1>1. /\ phase = "stores" /\ r \in todo /\ r \in tracked /\ todo' = todo \ {r}
      /\ UNCHANGED <<status, finishedIds, phase, waitFor, outs>>
      /\ \A y \in Req : Finished(y)' <=> Finished(y)
      /\ RequestShapes' /\ Amounts'
  BY BuildStoreFrame
<1>2. PICK K, es, slot, pairs, source : StoreStep(r, K, es, slot, pairs, source)
  BY StoreEffect
<1>3. PICK fenced : fenced = WatchedAtOnce(source)
  OBVIOUS
<1>4. PICK deferred : deferred = source \ fenced
  OBVIOUS
<1>5. PICK watched : watched = fenced \cup IF Finished(r) THEN deferred ELSE {}
  OBVIOUS
<1>6. /\ source \in SUBSET GpuBlock
      /\ es \in EvictionsFor(K) /\ PrepareStore(K, es, slot)
      /\ NewJob(r, TRUE, New(K), pairs, fenced, deferred)
      /\ pendingOf' = Watched(x, watched)
      /\ toFlush' \subseteq toFlush \cup {x}
      /\ AdvanceStored(r)
      /\ UNCHANGED <<signaled, tracked, blockIds, batchAlloc, staleBelow>>
  BY <1>0, <1>2, <1>3, <1>4, <1>5 DEF StoreStep
<1>7. fenced \in SUBSET GpuBlock /\ deferred \in SUBSET GpuBlock
  BY <1>3, <1>4, <1>6 DEF WatchedAtOnce
<1>8. Issued(x, r, TRUE, New(K), pairs, fenced, deferred)
  BY <1>0, <1>6, <1>7, NewJobFacts
<1>9. /\ Counted'
      /\ DOMAIN transfers' \in SUBSET JobIds' /\ JobIds \in SUBSET JobIds'
      /\ jobCounter' \in Nat /\ staleBelow' \in 0 .. jobCounter'
      /\ jobCounter \in JobIds'
      /\ \A j \in DOMAIN jobs' : IsJob(jobs'[j])
      /\ \A j \in DOMAIN transfers' : IsTransfer(transfers'[j])
  <2>1. /\ TRUE \in BOOLEAN /\ phase \in {"schedule", "stores"}
        /\ UNCHANGED <<outs, staleBelow, phase>>
    BY <1>1, <1>6
  <2> QED BY <1>6, <1>7, <2>1, NewJobCounted
<1>10. ConnectorShapes'
  <2>1. stored' \in [Req -> Nat]
    BY <1>6, AdvanceStoredNat
  <2>2. toFlush' \in SUBSET JobIds' /\ waitFor' \in SUBSET JobIds'
    BY <1>0, <1>1, <1>6, <1>9 DEF EngineInv, ConnectorShapes
  <2>3. /\ blockIds' \in [Req -> Seq(Cell)] /\ signaled' \in SUBSET Req
        /\ tracked' \in SUBSET Req /\ todo' \in SUBSET tracked'
        /\ batchAlloc' \in SUBSET GpuBlock
    BY <1>1, <1>6 DEF EngineInv, ConnectorShapes
  <2> QED BY <1>9, <2>1, <2>2, <2>3 DEF ConnectorShapes
<1>11. Tracked'
  <2>1. \A j \in DOMAIN jobs' : jobs'[j].req \in tracked'
    <3>1. jobs'[x].req = r /\ DOMAIN jobs' = DOMAIN jobs \cup {x}
          /\ \A i \in DOMAIN jobs : jobs'[i] = jobs[i]
      BY <1>8 DEF Issued
    <3> QED BY <1>1, <1>6, <3>1 DEF EngineInv, Tracked
  <2> QED BY <1>1, <1>6, <2>1 DEF EngineInv, Tracked, RequestShapes, ConnectorShapes
<1>12. Pins'
  BY <1>6, <1>7, StorePins
<1>13. Fences'
  BY <1>1, <1>5, <1>6, <1>8, IssuedFences
<1> QED BY <1>1, <1>9, <1>10, <1>11, <1>12, <1>13 DEF EngineInv

\* Every round of _build_store_jobs.
LEMMA BuildStoreKeeps ==
  ASSUME EngineInv, NEW r \in Req, BuildStore(r)
  PROVE  EngineInv'
<1>1. NothingToStore(r) \/ StoreRefused(r) \/ StoreAccepted(r)
  BY DEF BuildStore, BuildStoreJob
<1> QED BY <1>1, NoStoreKeeps, StoreAcceptedKeeps

-----------------------------------------------------------------------------
(***************************************************************************)
(* The theorems.                                                           *)
(***************************************************************************)
\* An engine just started has no job and nothing computed.
LEMMA InitEngineInv == Init => EngineInv
<1> SUFFICES ASSUME Init PROVE EngineInv
  OBVIOUS
<1>1. /\ tracked = Req /\ signaled = {} /\ blockIds = [r \in Req |-> <<>>]
      /\ stored = [r \in Req |-> 0] /\ jobs = <<>> /\ transfers = <<>>
      /\ jobCounter = 0 /\ staleBelow = 0 /\ pendingOf = [b \in GpuBlock |-> {}]
      /\ toFlush = {} /\ batchAlloc = {} /\ blocks = NoBlocks
      /\ status = [r \in Req |-> "waiting"] /\ computed = [r \in Req |-> 0]
      /\ tokens = PromptTokens /\ batch = [r \in Req |-> 0]
      /\ newIds = [r \in Req |-> <<>>] /\ finishedIds = {} /\ phase = "schedule"
      /\ table = [r \in Req |-> <<>>] /\ todo = {} /\ waitFor = {} /\ outs = <<>>
  BY DEF Init, ConnectorInit, MgrInit
<1>2. /\ DOMAIN jobs = {} /\ DOMAIN transfers = {} /\ DOMAIN outs = {} /\ Cached = {}
  BY <1>1 DEF Cached, NoBlocks
<1>3. /\ PromptTokens \in [Req -> 1 .. MaxTokens - 1] /\ MaxTokens \in Nat
      /\ <<>> \in Seq(Cell)
  BY EngineAssumption
<1>4. RequestShapes
  BY <1>1, <1>3 DEF RequestShapes
<1>5. ConnectorShapes
  BY <1>1, <1>2, <1>3 DEF ConnectorShapes
<1>6. \A r \in Req : ~Finished(r)
  BY <1>1 DEF Finished
<1>7. Amounts
  BY <1>1, <1>3, <1>6 DEF Amounts
<1>8. Tracked
  BY <1>1, <1>2, <1>6 DEF Tracked
<1>9. Counted
  <2>1. outs \in [DOMAIN outs -> 1 .. Cardinality(Worker)]
    BY <1>1
  <2> QED BY <1>1, <1>2, <2>1 DEF Counted
<1>10. Pins
  BY <1>2 DEF Pins
<1>11. Fences
  BY <1>1, <1>2 DEF Fences
<1> QED BY <1>4, <1>5, <1>7, <1>8, <1>9, <1>10, <1>11 DEF EngineInv

\* Every step of the engine keeps the invariant.
LEMMA NextEngineInv == EngineInv /\ [Next]_vars => EngineInv'
<1> SUFFICES ASSUME EngineInv, [Next]_vars PROVE EngineInv'
  OBVIOUS
<1>1. ASSUME NEW r \in Req, NEW n \in 1 .. MaxTokens,
             ScheduleRunning(r, n) \/ AdmitRun(r, n) \/ AdmitLoaded(r, n)
      PROVE  EngineInv'
  BY <1>1, ScheduleRunningKeeps, AdmitRunKeeps, AdmitLoadedKeeps
<1>2. ASSUME NEW r \in Req,
             QueryOnly(r) \/ AdmitLoad(r) \/ Promote(r) \/ Preempt(r) \/ Abort(r)
      PROVE  EngineInv'
  BY <1>2, QueryOnlyKeeps, AdmitLoadKeeps, PromoteKeeps, PreemptKeeps, AbortKeeps
<1>3. ASSUME Step PROVE EngineInv'
  <2>1. CASE BuildConnectorMeta
    BY <2>1, BuildConnectorMetaKeeps
  <2>2. ASSUME NEW r \in Req, BuildStore(r) PROVE EngineInv'
    BY <2>2, BuildStoreKeeps
  <2>3. CASE HandOver \/ SubmitStores \/ Forward \/ FinishStep
    BY <2>3, HandOverKeeps, SubmitStoresKeeps, ForwardKeeps, FinishStepKeeps
  <2>4. ASSUME NEW F \in SUBSET Req, UpdateFromOutput(F) PROVE EngineInv'
    BY <2>4, UpdateFromOutputKeeps
  <2>5. ASSUME NEW j \in DOMAIN outs, UpdateConnectorOutput(j) PROVE EngineInv'
    BY <2>5, UpdateConnectorOutputKeeps
  <2> QED BY <1>3, <2>1, <2>2, <2>3, <2>4, <2>5 DEF Step
<1>4. ASSUME Copy PROVE EngineInv'
  BY <1>4, CopyBlocksKeeps DEF Copy
<1>5. ASSUME NEW running \in {{}, Running}, Reset(running) PROVE EngineInv'
  BY <1>5, ResetKeeps
<1>6. ASSUME NEW running \in {{}, Running}, ResetLocal(running) PROVE EngineInv'
  BY <1>6, UnseatKeeps DEF ResetLocal
<1>7. ASSUME ResetRaises PROVE EngineInv'
  <2>1. Unseat(Running) /\ Running \in {{}, Running} /\ UNCHANGED <<mgrVars, connVars>>
    BY <1>7 DEF ResetRaises
  <2> QED BY <2>1, UnseatKeeps
<1>8. ASSUME Quiescent \/ UNCHANGED vars PROVE EngineInv'
  BY <1>8, SteadyKeeps DEF Quiescent
<1> QED BY <1>1, <1>2, <1>3, <1>4, <1>5, <1>6, <1>7, <1>8 DEF Next

\* The counts of reports, readers and fences agree whenever the engine stops
\* to look: the connector's tables (_jobs, _block_id_to_pending_jobs), the
\* manager's ref_cnt, and what the workers have reported and will report.
THEOREM EngineBookkeeping == Spec => []EngineInv
<1>1. Init => EngineInv
  BY InitEngineInv
<1>2. EngineInv /\ [Next]_vars => EngineInv'
  BY NextEngineInv
<1> QED BY <1>1, <1>2, PTL DEF Spec

\* The types follow from the invariant.
LEMMA EngineTypes == EngineInv => TypeOK
<1> SUFFICES ASSUME EngineInv PROVE TypeOK
  OBVIOUS
<1>1. computed \in [Req -> 0 .. MaxTokens] /\ tokens \in [Req -> 1 .. MaxTokens]
  <2>1. ASSUME NEW r \in Req
        PROVE  tokens[r] \in 1 .. MaxTokens /\ computed[r] \in 0 .. MaxTokens
    <3>1. tokens[r] \in 1 .. MaxTokens
      BY DEF EngineInv, Amounts
    <3> QED BY <3>1, RequestFacts, EngineAssumption
  <2> QED BY <2>1 DEF EngineInv, RequestShapes
<1>2. ASSUME NEW s \in Seq(Cell) PROVE Range(s) \subseteq GpuBlock \cup {0}
  <2>1. \A i \in DOMAIN s : s[i] \in Cell
    BY ElementOfSeq, LenProperties
  <2> QED BY <2>1 DEF Range, Cell
<1>3. \A r \in Req : Range(table[r]) \cup Range(blockIds[r]) \subseteq GpuBlock \cup {0}
  BY <1>2, RequestFacts
<1>4. DOMAIN jobs \subseteq DOMAIN transfers \cup DOMAIN outs
  BY DEF EngineInv, Counted
<1>5. DOMAIN transfers \cup toFlush \cup waitFor \subseteq JobIds
  BY DEF EngineInv, ConnectorShapes
<1>6. pendingOf \in [GpuBlock -> SUBSET JobIds]
  BY JobsHaveIds DEF EngineInv, Fences
<1>7. outs \in [DOMAIN outs -> 1 .. Cardinality(Worker)]
  BY DEF EngineInv, Counted
<1>8. /\ status \in [Req -> {"waiting", "remote", "loaded", "running",
                             "finished", "aborted"}]
      /\ signaled \subseteq Req /\ tracked \subseteq Req
  BY DEF EngineInv, RequestShapes, ConnectorShapes
<1> QED BY <1>1, <1>3, <1>4, <1>5, <1>6, <1>7, <1>8 DEF TypeOK

\* What a worker reports, the connector and the manager are ready for.
LEMMA EngineReports == EngineInv => ReportsFindTheirJobs
<1> SUFFICES ASSUME EngineInv, NEW j \in DOMAIN outs, ~JobStale(j)
             PROVE  /\ j \in DOMAIN jobs
                    /\ jobs[j].req \in tracked
                    /\ outs[j] <= jobs[j].pending
                    /\ ~jobs[j].is_store => CompleteLoadAsserts(jobs[j].keys)
                    /\ jobs[j].is_store => jobs[j].keys \subseteq WritePending
                    /\ \A b \in jobs[j].fenced : j \in pendingOf[b]
                    /\ Finished(jobs[j].req) => \A b \in jobs[j].deferred : j \in pendingOf[b]
  BY DEF ReportsFindTheirJobs
<1>1. j \in DOMAIN jobs /\ outs[j] <= jobs[j].pending
  BY ReportedJob
<1>2. jobs[j].req \in tracked
  BY <1>1 DEF EngineInv, Tracked
<1>3. ~jobs[j].is_store => CompleteLoadAsserts(jobs[j].keys)
  BY <1>1, PinnedKeys DEF CompleteLoadAsserts
<1>4. jobs[j].is_store => jobs[j].keys \subseteq WritePending
  BY <1>1, PinnedKeys DEF WritePending
<1>5. jobs[j].fenced \subseteq GpuBlock /\ jobs[j].deferred \subseteq GpuBlock
  BY <1>1 DEF EngineInv, ConnectorShapes, IsJob
<1>6. \A b \in GpuBlock : pendingOf[b] = {i \in DOMAIN jobs : b \in jobs[i].fenced
                                \/ (b \in jobs[i].deferred /\ Finished(jobs[i].req))}
  BY DEF EngineInv, Fences
<1> QED BY <1>1, <1>2, <1>3, <1>4, <1>5, <1>6

\* The fences of the invariant are those the runs check.
LEMMA EngineFences == EngineInv => FencesExact
  BY DEF EngineInv, Fences, FencesExact

\* The connector's tables agree with the manager, the fences and the reports of
\* the workers: a report that update_connector_output takes finds its job, its
\* request and as many reports expected, complete_load and complete_store find
\* the pins they assert, and _block_id_to_pending_jobs watches exactly the
\* blocks that stores in flight may lose; for every size of the system, every
\* window, with and without mirroring, through preemptions, aborts and resets.
THEOREM ConnectorConsistent == Spec => []JobsConsistent
<1>1. EngineInv => JobsConsistent
  BY EngineTypes, EngineReports, EngineFences DEF JobsConsistent
<1> QED BY <1>1, EngineBookkeeping, PTL

-----------------------------------------------------------------------------
(***************************************************************************)
(* CPU slots.                                                              *)
(***************************************************************************)
\* Every block has a slot of its own, that was handed out and is not free.
SlotBooks ==
    /\ numAllocated \in 0 .. NumBlocks
    /\ freeList \in SUBSET (0 .. numAllocated - 1)
    /\ \A k \in Cached : blocks[k].block_id \in (0 .. numAllocated - 1) \ freeList
    /\ \A k, l \in Cached : blocks[k].block_id = blocks[l].block_id => k = l

\* A job's transfer has the slots of the job's keys.
JobSlots ==
    \A j \in DOMAIN jobs :
        /\ transfers[j].is_store = jobs[j].is_store
        /\ SlotsUsed(j) \subseteq SlotsOf(jobs[j].keys)

\* The first step after a reset waits for all that was in flight.
Awaited ==
    \A i \in Uncopied : JobStale(i) =>
        /\ phase \in {"schedule", "stores"} => i \in toFlush
        /\ phase \in {"submit", "forward"} => i \in waitFor
        /\ phase \notin {"update", "outputs"}

\* Until then nothing new is started but stores that are flushed themselves.
HeldBack ==
    \A i \in Uncopied : \A j \in DOMAIN transfers :
        JobStale(i) /\ ~JobStale(j) =>
            \/ transfers[j].at = "built"
            \/ /\ phase = "forward" /\ transfers[j].is_store
               /\ transfers[j].at = "queued" \/ j \in waitFor

\* What was in flight at a reset did not meet in a slot.
OldApart ==
    \A i, j \in Uncopied :
        JobStale(i) /\ JobStale(j) /\ transfers[i].is_store /\ ~transfers[j].is_store
            => SlotsUsed(i) \cap SlotsUsed(j) = {}

SlotInv == SlotBooks /\ JobSlots /\ Awaited /\ HeldBack /\ OldApart

-----------------------------------------------------------------------------
\* The books stay right while blocks keep their slots and only their counts
\* change.
LEMMA BooksSame ==
  ASSUME SlotBooks, UNCHANGED <<freeList, numAllocated>>, Cached' = Cached,
         \A k \in Cached : blocks'[k].block_id = blocks[k].block_id
  PROVE  SlotBooks'
  BY DEF SlotBooks

\* What a job uses stays what its keys have while blocks keep their slots.
LEMMA JobSlotsSame ==
  ASSUME JobSlots, Pins, DOMAIN jobs' \subseteq DOMAIN jobs,
         \A j \in DOMAIN jobs' : /\ jobs'[j].is_store = jobs[j].is_store
                                 /\ jobs'[j].keys = jobs[j].keys,
         \A k \in Cached : blocks'[k].block_id = blocks[k].block_id,
         \A j \in DOMAIN jobs : /\ transfers'[j].is_store = transfers[j].is_store
                                /\ transfers'[j].pairs = transfers[j].pairs
  PROVE  JobSlots'
<1>1. ASSUME NEW j \in DOMAIN jobs'
      PROVE  /\ transfers'[j].is_store = jobs'[j].is_store
             /\ SlotsUsed(j)' \subseteq SlotsOf(jobs[j].keys)'
  <2>1. /\ transfers[j].is_store = jobs[j].is_store
        /\ SlotsUsed(j) \subseteq SlotsOf(jobs[j].keys) /\ jobs[j].keys \subseteq Cached
    BY DEF JobSlots, Pins
  <2>2. SlotsUsed(j)' = SlotsUsed(j)
    BY DEF SlotsUsed
  <2>3. SlotsOf(jobs[j].keys)' = SlotsOf(jobs[j].keys)
    <3>1. jobs'[j].keys = jobs[j].keys
      OBVIOUS
    <3> QED BY <2>1, <3>1 DEF SlotsOf
  <2> QED BY <2>1, <2>2, <2>3
<1> QED BY <1>1 DEF JobSlots

\* Nothing changes for slots while the tables and the transfers do not.
LEMMA SlotsSame ==
  ASSUME EngineInv, SlotInv,
         UNCHANGED <<blocks, freeList, numAllocated, jobs, transfers, staleBelow,
                     toFlush, waitFor, phase>>
  PROVE  SlotInv'
<1>1. Uncopied' = Uncopied /\ Cached' = Cached
  BY DEF Uncopied, Cached
<1>2. \A j : (JobStale(j)' <=> JobStale(j)) /\ SlotsUsed(j)' = SlotsUsed(j)
  BY DEF JobStale, SlotsUsed
<1>3. SlotBooks' /\ JobSlots'
  BY <1>1, BooksSame, JobSlotsSame DEF SlotInv, EngineInv
<1>4. Awaited' /\ HeldBack' /\ OldApart'
  BY <1>1, <1>2 DEF SlotInv, Awaited, HeldBack, OldApart
<1> QED BY <1>3, <1>4 DEF SlotInv

\* Transfers proceed or are over, and what they use stays.
LEMMA TransfersGoOn ==
  ASSUME EngineInv, SlotInv,
         UNCHANGED <<blocks, freeList, numAllocated, jobs, staleBelow>>,
         Counted', DOMAIN transfers' \subseteq DOMAIN transfers,
         \A j \in DOMAIN transfers' : /\ transfers'[j].is_store = transfers[j].is_store
                                      /\ transfers'[j].pairs = transfers[j].pairs
                                      /\ transfers'[j].left \subseteq transfers[j].left
  PROVE  /\ SlotBooks' /\ JobSlots' /\ OldApart'
         /\ Uncopied' \subseteq Uncopied
         /\ \A j : JobStale(j)' <=> JobStale(j)
<1>1. Uncopied' \subseteq Uncopied /\ Cached' = Cached
  BY DEF Uncopied, Cached
<1>2. \A j : JobStale(j)' <=> JobStale(j)
  BY DEF JobStale
<1>3. \A j \in DOMAIN transfers' : SlotsUsed(j)' = SlotsUsed(j)
  BY DEF SlotsUsed
<1>4. \A j \in DOMAIN jobs : j \in DOMAIN transfers'
  BY DEF Counted
<1>5. SlotBooks' /\ JobSlots'
  BY <1>1, <1>4, BooksSame, JobSlotsSame DEF SlotInv, EngineInv
<1>6. \A j \in Uncopied' : j \in DOMAIN transfers'
  BY DEF Uncopied
<1>7. OldApart'
  BY <1>1, <1>2, <1>3, <1>6 DEF SlotInv, OldApart
<1> QED BY <1>1, <1>2, <1>5, <1>7

-----------------------------------------------------------------------------
\* The metadata of a step takes what is to be flushed to the workers.
LEMMA MetadataSlots ==
  ASSUME EngineInv, SlotInv, EngineInv', BuildConnectorMeta \/ HandOver
  PROVE  SlotInv'
<1>1. /\ UNCHANGED <<blocks, freeList, numAllocated, jobs, staleBelow, transfers>>
      /\ \/ phase = "schedule" /\ phase' = "stores" /\ toFlush \subseteq toFlush'
         \/ phase = "stores" /\ phase' = "submit" /\ waitFor' = toFlush
  BY DEF BuildConnectorMeta, HandOver, StartConnectorMeta, FinishConnectorMeta,
     mgrVars, jobVars
<1>2. /\ SlotBooks' /\ JobSlots' /\ OldApart' /\ Uncopied' \subseteq Uncopied
      /\ \A j : JobStale(j)' <=> JobStale(j)
  BY <1>1, TransfersGoOn DEF EngineInv
<1>3. Awaited'
  BY <1>1, <1>2 DEF SlotInv, Awaited
<1>4. HeldBack'
  BY <1>1, <1>2 DEF SlotInv, HeldBack
<1> QED BY <1>2, <1>3, <1>4 DEF SlotInv

\* New stores are deferred or flushed while older transfers are waited for.
LEMMA SubmitSlots ==
  ASSUME EngineInv, SlotInv, EngineInv', SubmitStores
  PROVE  SlotInv'
<1>1. /\ phase = "submit" /\ phase' = "forward"
      /\ UNCHANGED <<blocks, freeList, numAllocated, jobs, staleBelow, waitFor>>
      /\ DOMAIN transfers' = DOMAIN transfers
      /\ \A j \in DOMAIN transfers : transfers'[j] =
            IF ~transfers[j].is_store THEN transfers[j]
            ELSE IF transfers[j].at = "queued" \/ j \in waitFor
                 THEN [transfers[j] EXCEPT !.at = "running"]
            ELSE IF transfers[j].at = "built"
                 THEN [transfers[j] EXCEPT !.at = "queued"] ELSE transfers[j]
  BY DEF SubmitStores, mgrVars
<1>2. ASSUME NEW j \in DOMAIN transfers
      PROVE  /\ transfers'[j].is_store = transfers[j].is_store
             /\ transfers'[j].pairs = transfers[j].pairs
             /\ transfers'[j].left = transfers[j].left
             /\ transfers[j].at = "built" =>
                   \/ transfers'[j].at = "built"
                   \/ transfers[j].is_store /\ (transfers'[j].at = "queued" \/ j \in waitFor)
  <2> DEFINE x == transfers[j]
  <2>1. x = [req |-> x.req, is_store |-> x.is_store, pairs |-> x.pairs,
             at |-> x.at, left |-> x.left, done |-> x.done]
    BY TransferFacts DEF IsTransfer
  <2>2. \/ transfers'[j] = x
        \/ x.is_store /\ j \in waitFor /\ transfers'[j] = [x EXCEPT !.at = "running"]
        \/ x.at = "queued" /\ transfers'[j] = [x EXCEPT !.at = "running"]
        \/ x.is_store /\ transfers'[j] = [x EXCEPT !.at = "queued"]
    BY <1>1
  <2> HIDE DEF x
  <2>3. /\ transfers'[j].is_store = x.is_store /\ transfers'[j].pairs = x.pairs
        /\ transfers'[j].left = x.left
    BY <2>1, <2>2
  <2>4. x.at = "built" => \/ transfers'[j].at = "built"
                          \/ x.is_store /\ (transfers'[j].at = "queued" \/ j \in waitFor)
    BY <2>1, <2>2
  <2> QED BY <2>3, <2>4 DEF x
<1>3. /\ SlotBooks' /\ JobSlots' /\ OldApart' /\ Uncopied' \subseteq Uncopied
      /\ \A j : JobStale(j)' <=> JobStale(j)
  BY <1>1, <1>2, TransfersGoOn DEF EngineInv
<1>4. Awaited'
  BY <1>1, <1>3 DEF SlotInv, Awaited
<1>5. HeldBack'
  BY <1>1, <1>2, <1>3 DEF SlotInv, HeldBack
<1> QED BY <1>3, <1>4, <1>5 DEF SlotInv

\* A copy leaves less to wait for.
LEMMA CopySlots ==
  ASSUME EngineInv, SlotInv, EngineInv', NEW j \in DOMAIN transfers, NEW w \in Worker,
         CopyBlocks(j, w)
  PROVE  SlotInv'
<1>1. /\ UNCHANGED <<blocks, freeList, numAllocated, jobs, staleBelow, toFlush, waitFor,
                     phase>>
      /\ transfers' = [transfers EXCEPT ![j].left = @ \ {w}, ![j].done = @ \cup {w}]
  BY DEF CopyBlocks, mgrVars, fenceVars
<1>2. ASSUME NEW i \in DOMAIN transfers
      PROVE  /\ transfers'[i].is_store = transfers[i].is_store
             /\ transfers'[i].pairs = transfers[i].pairs
             /\ transfers'[i].at = transfers[i].at
             /\ transfers'[i].left \subseteq transfers[i].left
  <2> DEFINE x == transfers[i]
  <2>1. x = [req |-> x.req, is_store |-> x.is_store, pairs |-> x.pairs,
             at |-> x.at, left |-> x.left, done |-> x.done]
    BY TransferFacts DEF IsTransfer
  <2>2. \/ transfers'[i] = x
        \/ transfers'[i] = [[x EXCEPT !.left = @ \ {w}] EXCEPT !.done = @ \cup {w}]
    BY <1>1
  <2> HIDE DEF x
  <2>3. /\ transfers'[i].is_store = x.is_store /\ transfers'[i].pairs = x.pairs
        /\ transfers'[i].at = x.at /\ transfers'[i].left \subseteq x.left
    BY <2>1, <2>2
  <2> QED BY <2>3 DEF x
<1>3. DOMAIN transfers' = DOMAIN transfers
  BY <1>1
<1>4. /\ SlotBooks' /\ JobSlots' /\ OldApart' /\ Uncopied' \subseteq Uncopied
      /\ \A i : JobStale(i)' <=> JobStale(i)
  BY <1>1, <1>2, <1>3, TransfersGoOn DEF EngineInv
<1>5. Awaited'
  BY <1>1, <1>4 DEF SlotInv, Awaited
<1>6. HeldBack'
  BY <1>1, <1>2, <1>3, <1>4 DEF SlotInv, HeldBack
<1> QED BY <1>4, <1>5, <1>6 DEF SlotInv

\* When the model runs, what was to be flushed is over.
LEMMA ForwardSlots ==
  ASSUME EngineInv, SlotInv, EngineInv', Forward
  PROVE  SlotInv'
<1>1. /\ phase = "forward" /\ phase' = "update" /\ Flushed
      /\ UNCHANGED <<blocks, freeList, numAllocated, jobs, staleBelow>>
      /\ DOMAIN transfers' = DOMAIN transfers
      /\ \A j \in DOMAIN transfers :
            \/ transfers'[j] = transfers[j]
            \/ transfers'[j] = [transfers[j] EXCEPT !.at = "running"]
  BY DEF Forward, mgrVars
<1>2. ASSUME NEW j \in DOMAIN transfers
      PROVE  /\ transfers'[j].is_store = transfers[j].is_store
             /\ transfers'[j].pairs = transfers[j].pairs
             /\ transfers'[j].left = transfers[j].left
  <2> DEFINE x == transfers[j]
  <2>1. x = [req |-> x.req, is_store |-> x.is_store, pairs |-> x.pairs,
             at |-> x.at, left |-> x.left, done |-> x.done]
    BY TransferFacts DEF IsTransfer
  <2>2. transfers'[j] = x \/ transfers'[j] = [x EXCEPT !.at = "running"]
    BY <1>1
  <2> HIDE DEF x
  <2>3. /\ transfers'[j].is_store = x.is_store /\ transfers'[j].pairs = x.pairs
        /\ transfers'[j].left = x.left
    BY <2>1, <2>2
  <2> QED BY <2>3 DEF x
<1>3. /\ SlotBooks' /\ JobSlots' /\ OldApart' /\ Uncopied' \subseteq Uncopied
      /\ \A j : JobStale(j)' <=> JobStale(j)
  BY <1>1, <1>2, TransfersGoOn DEF EngineInv
<1>4. \A i \in Uncopied : ~JobStale(i)
  BY <1>1 DEF SlotInv, Awaited, Flushed, Uncopied
<1>5. Awaited' /\ HeldBack'
  BY <1>3, <1>4 DEF Awaited, HeldBack
<1> QED BY <1>3, <1>5 DEF SlotInv

\* From then to the end of the step nothing stale is in flight.
LEMMA OutputSlots ==
  ASSUME EngineInv, SlotInv, EngineInv',
         FinishStep \/ \E F \in SUBSET Req : UpdateFromOutput(F)
  PROVE  SlotInv'
<1>1. /\ phase \in {"update", "outputs"}
      /\ UNCHANGED <<blocks, freeList, numAllocated, jobs, staleBelow>>
      /\ \/ transfers' = Restrict(transfers, DOMAIN transfers \ Reported)
         \/ transfers' = [j \in DOMAIN transfers |-> [transfers[j] EXCEPT !.done = {}]]
  BY DEF FinishStep, UpdateFromOutput, mgrVars
<1>2. DOMAIN transfers' \subseteq DOMAIN transfers
  BY <1>1 DEF Restrict
<1>3. ASSUME NEW j \in DOMAIN transfers'
      PROVE  /\ transfers'[j].is_store = transfers[j].is_store
             /\ transfers'[j].pairs = transfers[j].pairs
             /\ transfers'[j].left \subseteq transfers[j].left
  <2> DEFINE x == transfers[j]
  <2>1. x = [req |-> x.req, is_store |-> x.is_store, pairs |-> x.pairs,
             at |-> x.at, left |-> x.left, done |-> x.done]
    BY <1>2, TransferFacts DEF IsTransfer
  <2>2. transfers'[j] = x \/ transfers'[j] = [x EXCEPT !.done = {}]
    BY <1>1 DEF Restrict
  <2> HIDE DEF x
  <2>3. /\ transfers'[j].is_store = x.is_store /\ transfers'[j].pairs = x.pairs
        /\ transfers'[j].left \subseteq x.left
    BY <2>1, <2>2
  <2> QED BY <2>3 DEF x
<1>4. /\ SlotBooks' /\ JobSlots' /\ OldApart' /\ Uncopied' \subseteq Uncopied
      /\ \A j : JobStale(j)' <=> JobStale(j)
  BY <1>1, <1>2, <1>3, TransfersGoOn DEF EngineInv
<1>5. \A i \in Uncopied : ~JobStale(i)
  BY <1>1 DEF SlotInv, Awaited
<1>6. Awaited' /\ HeldBack'
  BY <1>4, <1>5 DEF Awaited, HeldBack
<1> QED BY <1>4, <1>6 DEF SlotInv

-----------------------------------------------------------------------------
\* A new transfer is held back, and uses slots of its job's keys.
LEMMA NewJobSlots ==
  ASSUME EngineInv, SlotInv, SlotBooks',
         NEW r \in Req, NEW isStore, NEW K, NEW pairs,
         NEW fenced \in SUBSET GpuBlock, NEW deferred \in SUBSET GpuBlock,
         NewJob(r, isStore, K, pairs, fenced, deferred),
         phase \in {"schedule", "stores"}, UNCHANGED <<staleBelow, phase>>,
         toFlush \subseteq toFlush',
         \A j \in DOMAIN jobs : \A k \in jobs[j].keys :
             blocks'[k].block_id = blocks[k].block_id,
         \A p \in pairs : p[2] \in SlotsOf(K)'
  PROVE  SlotInv'
<1>0. PICK x : x = jobCounter
  OBVIOUS
<1>1. Issued(x, r, isStore, K, pairs, fenced, deferred)
  BY <1>0, NewJobFacts
<1>2. /\ x \notin DOMAIN jobs \cup DOMAIN transfers
      /\ DOMAIN jobs' = DOMAIN jobs \cup {x}
      /\ \A i \in DOMAIN jobs : jobs'[i] = jobs[i]
      /\ jobs'[x].keys = K /\ jobs'[x].is_store = isStore
      /\ DOMAIN transfers' = DOMAIN transfers \cup {x}
      /\ \A i \in DOMAIN transfers : transfers'[i] = transfers[i]
      /\ transfers'[x].is_store = isStore /\ transfers'[x].pairs = pairs
      /\ transfers'[x].at = "built"
  BY <1>1 DEF Issued
<1>3. ~JobStale(x)' /\ \A i : JobStale(i)' <=> JobStale(i)
  BY <1>0 DEF JobStale, EngineInv, ConnectorShapes
<1>4. Uncopied' \subseteq Uncopied \cup {x}
  BY <1>2 DEF Uncopied
<1>5. \A i \in DOMAIN transfers : SlotsUsed(i)' = SlotsUsed(i)
  BY <1>2 DEF SlotsUsed
<1>6. JobSlots'
  <2>1. ASSUME NEW j \in DOMAIN jobs
        PROVE  /\ transfers'[j].is_store = jobs'[j].is_store
               /\ SlotsUsed(j)' \subseteq SlotsOf(jobs[j].keys)'
    <3>1. /\ j \in DOMAIN transfers
          /\ transfers[j].is_store = jobs[j].is_store
          /\ SlotsUsed(j) \subseteq SlotsOf(jobs[j].keys)
      BY DEF EngineInv, Counted, SlotInv, JobSlots
    <3>2. SlotsOf(jobs[j].keys)' = SlotsOf(jobs[j].keys)
      <4>1. jobs'[j].keys = jobs[j].keys
        BY <1>2
      <4> QED BY <4>1 DEF SlotsOf
    <3>3. j \in DOMAIN jobs' /\ jobs'[j].is_store = jobs[j].is_store
          /\ transfers'[j].is_store = transfers[j].is_store /\ SlotsUsed(j)' = SlotsUsed(j)
      BY <1>2, <1>5, <3>1
    <3> QED BY <3>1, <3>2, <3>3
  <2>2. SlotsUsed(x)' \subseteq SlotsOf(jobs[x].keys)'
    <3>1. SlotsUsed(x)' = {p[2] : p \in pairs}
      BY <1>2 DEF SlotsUsed
    <3>2. SlotsOf(jobs[x].keys)' = SlotsOf(K)'
      BY <1>2 DEF SlotsOf
    <3> QED BY <3>1, <3>2
  <2> QED BY <1>2, <2>1, <2>2 DEF JobSlots
<1>7. \A i \in Uncopied' : JobStale(i)' => i \in Uncopied /\ i \in DOMAIN transfers /\ JobStale(i)
  BY <1>3, <1>4 DEF Uncopied
<1>8. Awaited'
  BY <1>7 DEF SlotInv, Awaited
<1>9. HeldBack'
  <2>1. ASSUME NEW i \in Uncopied', NEW j \in DOMAIN transfers', JobStale(i)', ~JobStale(j)'
        PROVE  transfers'[j].at = "built"
    <3>1. CASE j = x
      BY <1>2, <3>1
    <3>2. CASE j # x
      BY <1>2, <1>3, <1>7, <2>1, <3>2 DEF SlotInv, HeldBack
    <3> QED BY <3>1, <3>2
  <2> QED BY <2>1 DEF HeldBack
<1>10. OldApart'
  BY <1>2, <1>5, <1>7 DEF SlotInv, OldApart
<1> QED BY <1>6, <1>8, <1>9, <1>10 DEF SlotInv

\* A load is started: it reads the slots of its keys.
LEMMA AdmitLoadSlots ==
  ASSUME EngineInv, SlotInv, NEW r \in Req, AdmitLoad(r)
  PROVE  SlotInv'
<1> DEFINE local == LocalBlocks(r)
           c == Len(local) * TokensPerChunk
<1>1. PICK ids : UpdateStateAfterAlloc(r, ids, [b \in GpuBlock |-> b \in Range(local)])
  BY DEF AdmitLoad
<1>2. PICK K, pairs : LoadStep(r, K, pairs)
  BY <1>1, LoadEffect
<1>3. /\ phase = "schedule" /\ UNCHANGED <<phase, staleBelow, toFlush>>
  BY <1>1, LoadEffect DEF AdmitLoad, Waiting, Turn, Scheduling
<1>4. /\ PrepareLoad(K) /\ NewJob(r, FALSE, K, pairs, {}, {})
      /\ \A p \in pairs : \E k \in K : p[2] = blocks[k].block_id
  BY <1>2 DEF LoadStep
<1>5. /\ K \subseteq Cached
      /\ blocks' = [k \in Cached |-> IF k \in K THEN [blocks[k] EXCEPT !.ref_cnt = @ + 1]
                                     ELSE blocks[k]]
      /\ UNCHANGED <<freeList, numAllocated>>
  BY <1>4 DEF PrepareLoad, LoadAsserts
<1>6. Cached' = Cached /\ \A k \in Cached : blocks'[k].block_id = blocks[k].block_id
  <2>1. ASSUME NEW k \in Cached PROVE blocks'[k].block_id = blocks[k].block_id
    <3> DEFINE e == blocks[k]
    <3>1. e = [ref_cnt |-> e.ref_cnt, block_id |-> e.block_id]
      BY DEF EngineInv, Pins, Pinned
    <3>2. blocks'[k] = e \/ blocks'[k] = [e EXCEPT !.ref_cnt = @ + 1]
      BY <1>5
    <3> HIDE DEF e
    <3>3. blocks'[k].block_id = e.block_id
      BY <3>1, <3>2
    <3> QED BY <3>3 DEF e
  <2> QED BY <1>5, <2>1 DEF Cached
<1>7. SlotBooks'
  BY <1>5, <1>6, BooksSame DEF SlotInv
<1>8. \A j \in DOMAIN jobs : \A k \in jobs[j].keys : blocks'[k].block_id = blocks[k].block_id
  BY <1>6 DEF EngineInv, Pins
<1>9. \A p \in pairs : p[2] \in SlotsOf(K)'
  <2>1. \A k \in K : blocks'[k].block_id \in SlotsOf(K)'
    BY DEF SlotsOf
  <2> QED BY <1>4, <1>5, <1>6, <2>1
<1>10. {} \in SUBSET GpuBlock
  OBVIOUS
<1> QED BY <1>3, <1>4, <1>7, <1>8, <1>9, <1>10, NewJobSlots

\* prepare_store gives its new keys slots that no block has: the fresh ones,
\* those given back, and those of the blocks it evicts.
LEMMA StoreBooks ==
  ASSUME SlotBooks, NEW K, NEW es, NEW slot, PrepareStore(K, es, slot),
         IsFiniteSet(K), Range(es) \subseteq Cached
  PROVE  /\ SlotBooks'
         /\ \A k \in New(K) : blocks'[k].block_id = slot[k]
         /\ \A k \in Cached \ Range(es) : blocks'[k] = blocks[k]
<1> DEFINE N == New(K)
           n == Cardinality(N)
           kept == Cached \ Range(es)
           pool == freeList \cup SlotsOf(Range(es))
<1>1. /\ blocks' = [k \in kept \cup N |->
                      IF k \in N THEN [ref_cnt |-> -1, block_id |-> slot[k]] ELSE blocks[k]]
      /\ freeList' = pool \ Range(slot)
      /\ numAllocated' = numAllocated + NumFresh(n)
      /\ slot \in Injection(N, Fresh(n) \cup pool)
  BY DEF PrepareStore, IsAllocation
<1>2. n \in Nat
  <2>1. N \in SUBSET K
    BY DEF New
  <2> QED BY <2>1, FS_Subset, FS_CardinalityType
<1>3. N \cap Cached = {}
  BY DEF New
<1> HIDE DEF n, N
<1>4. /\ Cached' = kept \cup N
      /\ \A k \in kept : k \notin N /\ blocks'[k] = blocks[k]
      /\ \A k \in N : blocks'[k].block_id = slot[k]
  BY <1>1, <1>3 DEF Cached
<1>5. /\ numAllocated' \in 0 .. NumBlocks /\ numAllocated <= numAllocated'
      /\ Fresh(n) = numAllocated .. numAllocated' - 1
  BY <1>1, <1>2, NumBlocksAssumption DEF SlotBooks, NumFresh, Fresh
<1>6. /\ pool \subseteq 0 .. numAllocated - 1
      /\ \A k \in kept : blocks[k].block_id \in (0 .. numAllocated - 1) \ pool
  BY DEF SlotBooks, SlotsOf
<1>7. /\ \A k \in N : slot[k] \in (Fresh(n) \cup pool) /\ slot[k] \in Range(slot)
      /\ \A k, l \in N : slot[k] = slot[l] => k = l
  BY <1>1 DEF Injection, IsInjective, Range
<1>c. /\ 0 .. numAllocated - 1 \subseteq 0 .. numAllocated' - 1
      /\ Fresh(n) \subseteq 0 .. numAllocated' - 1
      /\ Fresh(n) \cap (0 .. numAllocated - 1) = {}
  <2>1. /\ numAllocated \in Nat /\ numAllocated' \in Nat /\ numAllocated <= numAllocated'
        /\ Fresh(n) = numAllocated .. numAllocated' - 1
    BY <1>5, NumBlocksAssumption DEF SlotBooks
  <2>2. ASSUME NEW a \in Nat, NEW b \in Nat, a <= b
        PROVE  /\ \A x \in 0 .. a - 1 : x \in 0 .. b - 1
               /\ \A x \in a .. b - 1 : x \in 0 .. b - 1 /\ x \notin 0 .. a - 1
    BY <2>2
  <2>3. /\ \A x \in 0 .. numAllocated - 1 : x \in 0 .. numAllocated' - 1
        /\ \A x \in numAllocated .. numAllocated' - 1 :
              x \in 0 .. numAllocated' - 1 /\ x \notin 0 .. numAllocated - 1
    BY <2>1, <2>2
  <2> QED BY ONLY <2>1, <2>3
<1> HIDE DEF pool, kept
<1>8. freeList' \in SUBSET (0 .. numAllocated' - 1)
  BY <1>1, <1>6, <1>c
<1>9. ASSUME NEW k \in Cached'
      PROVE  blocks'[k].block_id \in (0 .. numAllocated' - 1) \ freeList'
  <2>1. CASE k \in N
    <3>1. slot[k] \in 0 .. numAllocated' - 1 /\ slot[k] \notin freeList'
      BY <1>1, <1>6, <1>7, <1>c, <2>1
    <3> QED BY <1>4, <2>1, <3>1
  <2>2. CASE k \in kept
    BY <1>1, <1>4, <1>6, <1>c, <2>2
  <2> QED BY <1>4, <2>1, <2>2
<1>10. \A k, l \in Cached' : blocks'[k].block_id = blocks'[l].block_id => k = l
  <2>1. \A k \in kept, l \in N : blocks[k].block_id # slot[l]
    BY <1>6, <1>7, <1>c
  <2>2. \A k, l \in kept : blocks[k].block_id = blocks[l].block_id => k = l
    BY DEF SlotBooks, kept
  <2> QED BY <1>4, <1>7, <2>1, <2>2
<1> QED BY <1>4, <1>5, <1>8, <1>9, <1>10 DEF SlotBooks, N, kept

\* A store is started: it writes the slots that its new keys were given.
LEMMA StoreAcceptedSlots ==
  ASSUME EngineInv, SlotInv, NEW r \in Req, BuildStore(r), StoreAccepted(r)
  PROVE  SlotInv'
<1>1. phase = "stores" /\ UNCHANGED <<phase, waitFor>>
  BY BuildStoreFrame
<1>2. PICK K, es, slot, pairs, source : StoreStep(r, K, es, slot, pairs, source)
  BY StoreEffect
<1>3. PICK fenced : fenced = WatchedAtOnce(source)
  OBVIOUS
<1>4. PICK deferred : deferred = source \ fenced
  OBVIOUS
<1>a. PICK N : N = New(K)
  OBVIOUS
<1>5. /\ source \in SUBSET GpuBlock /\ IsFiniteSet(K)
      /\ es \in EvictionsFor(K) /\ PrepareStore(K, es, slot)
      /\ \A p \in pairs : \E k \in N : p[2] = slot[k]
      /\ NewJob(r, TRUE, N, pairs, fenced, deferred)
      /\ UNCHANGED staleBelow
  BY <1>2, <1>3, <1>4, <1>a DEF StoreStep
<1>6. toFlush \subseteq toFlush'
  BY DEF StoreAccepted
<1>7. fenced \in SUBSET GpuBlock /\ deferred \in SUBSET GpuBlock
  BY <1>3, <1>4, <1>5 DEF WatchedAtOnce
<1>8. Range(es) \subseteq Evictable
  BY <1>5 DEF EvictionsFor, Evictions, Range
<1>9. /\ SlotBooks'
      /\ \A k \in N : blocks'[k].block_id = slot[k]
      /\ \A k \in Cached \ Range(es) : blocks'[k] = blocks[k]
  BY <1>5, <1>8, <1>a, StoreBooks DEF SlotInv, Evictable
<1>10. \A j \in DOMAIN jobs : \A k \in jobs[j].keys : blocks'[k].block_id = blocks[k].block_id
  <2>1. ASSUME NEW j \in DOMAIN jobs, NEW k \in jobs[j].keys PROVE k \in Cached \ Range(es)
    <3>1. k \in Cached /\ blocks[k].ref_cnt # 0
      BY PinnedKeys
    <3> QED BY <1>8, <3>1 DEF Evictable
  <2> QED BY <1>9, <2>1
<1>11. \A p \in pairs : p[2] \in SlotsOf(N)'
  BY <1>5, <1>9 DEF SlotsOf
<1> QED BY <1>1, <1>5, <1>6, <1>7, <1>9, <1>10, <1>11, NewJobSlots

-----------------------------------------------------------------------------
\* complete_load and complete_store leave every block its slot.
LEMMA CompletionKeepsSlots ==
  ASSUME EngineInv, NEW K, CompleteLoad(K) \/ StoreSucceeds(K)
  PROVE  /\ UNCHANGED <<freeList, numAllocated>> /\ Cached' = Cached
         /\ \A k \in Cached : blocks'[k].block_id = blocks[k].block_id
<1>1. /\ UNCHANGED <<freeList, numAllocated>>
      /\ DOMAIN blocks' = Cached
      /\ \A k \in Cached : \/ blocks'[k] = blocks[k]
                           \/ blocks'[k] = [blocks[k] EXCEPT !.ref_cnt = @ - 1]
                           \/ blocks'[k] = [blocks[k] EXCEPT !.ref_cnt = 0]
  BY DEF CompleteLoad, StoreSucceeds
<1>2. ASSUME NEW k \in Cached PROVE blocks'[k].block_id = blocks[k].block_id
  <2> DEFINE e == blocks[k]
  <2>1. e = [ref_cnt |-> e.ref_cnt, block_id |-> e.block_id]
    BY DEF EngineInv, Pins, Pinned
  <2>2. \/ blocks'[k] = e \/ blocks'[k] = [e EXCEPT !.ref_cnt = @ - 1]
        \/ blocks'[k] = [e EXCEPT !.ref_cnt = 0]
    BY <1>1
  <2> HIDE DEF e
  <2>3. blocks'[k].block_id = e.block_id
    BY <2>1, <2>2
  <2> QED BY <2>3 DEF e
<1> QED BY <1>1, <1>2 DEF Cached

\* A report ends at most a job, and moves no block.
LEMMA ReportSlots ==
  ASSUME EngineInv, SlotInv, NEW j \in DOMAIN outs, UpdateConnectorOutput(j)
  PROVE  SlotInv'
<1>1. /\ CompleteJob(j, outs[j]) /\ UNCHANGED <<phase, waitFor>>
  BY ReportFrame
<1>2. CASE JobStale(j)
  <2>1. UNCHANGED <<blocks, freeList, numAllocated, jobs, transfers, staleBelow, toFlush>>
    BY <1>1, <1>2 DEF CompleteJob, mgrVars, connVars, jobVars, fenceVars
  <2> QED BY <1>1, <2>1, SlotsSame
<1>3. CASE ~JobStale(j)
  <2>1. /\ UNCHANGED <<transfers, toFlush, staleBelow>>
        /\ jobs' = JobsAfter(j, outs[j])
        /\ \/ UNCHANGED mgrVars
           \/ StoreSucceeds(jobs[j].keys) \/ CompleteLoad(jobs[j].keys)
    BY <1>1, <1>3 DEF CompleteJob
  <2>2. /\ UNCHANGED <<freeList, numAllocated>> /\ Cached' = Cached
        /\ \A k \in Cached : blocks'[k].block_id = blocks[k].block_id
    <3>1. CASE UNCHANGED mgrVars
      BY <3>1 DEF mgrVars, Cached
    <3>2. CASE StoreSucceeds(jobs[j].keys) \/ CompleteLoad(jobs[j].keys)
      <4>1. PICK K : K = jobs[j].keys
        OBVIOUS
      <4>2. CompleteLoad(K) \/ StoreSucceeds(K)
        BY <3>2, <4>1
      <4> QED BY <4>2, CompletionKeepsSlots
    <3> QED BY <2>1, <3>1, <3>2
  <2>3. j \in DOMAIN jobs /\ IsJob(jobs[j])
    BY <1>3, ReportedJob
  <2>4. /\ DOMAIN jobs' \subseteq DOMAIN jobs
        /\ \A i \in DOMAIN jobs' : \/ jobs'[i] = jobs[i]
                                   \/ /\ i = j
                                      /\ jobs'[i] = [jobs[j] EXCEPT !.pending = @ - outs[j]]
    BY <2>1, <2>3 DEF JobsAfter, Restrict
  <2>5. ASSUME NEW i \in DOMAIN jobs'
        PROVE  jobs'[i].is_store = jobs[i].is_store /\ jobs'[i].keys = jobs[i].keys
    <3>1. CASE jobs'[i] = jobs[i]
      BY <3>1
    <3>2. CASE i = j /\ jobs'[i] = [jobs[j] EXCEPT !.pending = @ - outs[j]]
      <4> DEFINE x == jobs[j]
      <4>1. x = [req |-> x.req, pending |-> x.pending, keys |-> x.keys,
                 is_store |-> x.is_store, fenced |-> x.fenced, deferred |-> x.deferred]
        BY <2>3 DEF IsJob
      <4>2. jobs'[i] = [x EXCEPT !.pending = @ - outs[j]]
        BY <3>2
      <4> HIDE DEF x
      <4>3. jobs'[i].is_store = x.is_store /\ jobs'[i].keys = x.keys
        BY <4>1, <4>2
      <4> QED BY <3>2, <4>3 DEF x
    <3> QED BY <2>4, <3>1, <3>2
  <2>6. SlotBooks' /\ JobSlots'
    BY <2>1, <2>2, <2>4, <2>5, BooksSame, JobSlotsSame DEF SlotInv, EngineInv
  <2>7. /\ Uncopied' = Uncopied
        /\ \A i : (JobStale(i)' <=> JobStale(i)) /\ SlotsUsed(i)' = SlotsUsed(i)
    BY <2>1 DEF Uncopied, JobStale, SlotsUsed
  <2>8. Awaited' /\ HeldBack' /\ OldApart'
    BY <1>1, <2>1, <2>7 DEF SlotInv, Awaited, HeldBack, OldApart
  <2> QED BY <2>6, <2>8 DEF SlotInv
<1> QED BY <1>2, <1>3

\* A transfer in flight since the last reset has a job.
LEMMA InFlightHasJob ==
  ASSUME EngineInv, NEW i \in Uncopied, ~JobStale(i)
  PROVE  i \in DOMAIN jobs
<1>1. i \in DOMAIN transfers /\ transfers[i].left # {}
  BY DEF Uncopied
<1>2. /\ Cardinality(transfers[i].left) \in Nat \ {0}
      /\ Cardinality(transfers[i].done) \in Nat
  BY <1>1, TransferFacts, FS_EmptySet
<1>3. (IF i \in DOMAIN outs THEN outs[i] ELSE 0) \in Nat
  <2>1. i \in DOMAIN outs => outs[i] \in 1 .. Cardinality(Worker)
    BY DEF EngineInv, Counted
  <2> QED BY <2>1
<1>4. Uncounted(i) > 0
  BY <1>2, <1>3 DEF Uncounted
<1> QED BY <1>1, <1>4 DEF EngineInv, Counted

\* A store and a load in flight since the last reset use no common slot:
\* prepare_store spares the blocks that are read, and no key is loaded before
\* its store is complete.
LEMMA NewApart ==
  ASSUME EngineInv, SlotInv, NEW i \in Uncopied, NEW j \in Uncopied,
         ~JobStale(i), ~JobStale(j), transfers[i].is_store, ~transfers[j].is_store
  PROVE  SlotsUsed(i) \cap SlotsUsed(j) = {}
<1>1. i \in DOMAIN jobs /\ j \in DOMAIN jobs
  BY InFlightHasJob
<1>2. /\ SlotsUsed(i) \subseteq SlotsOf(jobs[i].keys) /\ jobs[i].is_store
      /\ SlotsUsed(j) \subseteq SlotsOf(jobs[j].keys) /\ ~jobs[j].is_store
  BY <1>1 DEF SlotInv, JobSlots
<1>3. jobs[i].keys \cap jobs[j].keys = {}
  <2>1. ASSUME NEW k \in jobs[i].keys, k \in jobs[j].keys PROVE FALSE
    <3>1. ReadersOf(k) = {}
      BY <1>1, <1>2, PinnedKeys
    <3>2. j \in ReadersOf(k)
      BY <1>1, <1>2, <2>1, PinnedKeys
    <3> QED BY <3>1, <3>2
  <2> QED BY <2>1
<1>4. jobs[i].keys \subseteq Cached /\ jobs[j].keys \subseteq Cached
  BY <1>1 DEF EngineInv, Pins
<1>5. \A k \in jobs[i].keys, l \in jobs[j].keys : blocks[k].block_id # blocks[l].block_id
  BY <1>3, <1>4 DEF SlotInv, SlotBooks
<1> QED BY <1>2, <1>5 DEF SlotsOf

\* A reset leaves the transfers in flight to themselves, and they are apart.
LEMMA ResetSlots ==
  ASSUME EngineInv, SlotInv, NEW running \in {{}, Running}, Reset(running)
  PROVE  SlotInv'
<1>1. /\ phase = "schedule" /\ UNCHANGED <<phase, transfers, jobCounter>>
      /\ blocks' = NoBlocks /\ freeList' = {} /\ numAllocated' = 0
      /\ toFlush = {} /\ toFlush' = DOMAIN jobs /\ jobs' = <<>>
      /\ staleBelow' = jobCounter
  BY UnseatFacts DEF Reset, ResetConnector, ResetConnectorAsserts, ResetCache, JobsToOutlive
<1>2. SlotBooks'
  BY <1>1, NumBlocksAssumption DEF SlotBooks, Cached, NoBlocks
<1>3. JobSlots'
  BY <1>1 DEF JobSlots
<1>4. /\ Uncopied' = Uncopied /\ \A i : SlotsUsed(i)' = SlotsUsed(i)
  BY <1>1 DEF Uncopied, SlotsUsed
<1>5. \A i \in DOMAIN transfers : JobStale(i)'
  BY <1>1 DEF EngineInv, ConnectorShapes, JobIds, JobStale
<1>6. \A i \in Uncopied : ~JobStale(i)
  BY <1>1 DEF SlotInv, Awaited
<1>7. Awaited'
  BY <1>1, <1>4, <1>6, InFlightHasJob DEF Awaited
<1>8. HeldBack'
  BY <1>1, <1>5 DEF HeldBack
<1>9. OldApart'
  <2>1. ASSUME NEW i \in Uncopied, NEW j \in Uncopied,
               transfers[i].is_store, ~transfers[j].is_store
        PROVE  SlotsUsed(i) \cap SlotsUsed(j) = {}
    BY <1>6, <2>1, NewApart
  <2> QED BY <1>1, <1>4, <2>1 DEF OldApart
<1> QED BY <1>2, <1>3, <1>7, <1>8, <1>9 DEF SlotInv

-----------------------------------------------------------------------------
\* Scheduling and what happens between two steps change nothing for slots.
LEMMA OtherSlots ==
  ASSUME EngineInv, SlotInv,
         \/ \E r \in Req, n \in 1 .. MaxTokens :
               ScheduleRunning(r, n) \/ AdmitRun(r, n) \/ AdmitLoaded(r, n)
         \/ \E r \in Req : QueryOnly(r) \/ Promote(r) \/ Preempt(r) \/ Abort(r)
         \/ \E r \in Req : BuildStore(r) /\ (NothingToStore(r) \/ StoreRefused(r))
         \/ \E running \in {{}, Running} : ResetLocal(running)
         \/ ResetRaises
         \/ Quiescent
         \/ UNCHANGED vars
  PROVE  SlotInv'
<1> DEFINE Same == UNCHANGED <<blocks, freeList, numAllocated, jobs, transfers,
                               staleBelow, toFlush, waitFor, phase>>
<1> USE DEF mgrVars, connVars, jobVars, fenceVars
<1>1. ASSUME NEW r \in Req, NEW n \in 1 .. MaxTokens,
             ScheduleRunning(r, n) \/ AdmitRun(r, n) \/ AdmitLoaded(r, n)
      PROVE  Same
  <2>1. CASE ScheduleRunning(r, n)
    BY <2>1 DEF ScheduleRunning, Run
  <2>2. CASE AdmitRun(r, n)
    BY <2>2 DEF AdmitRun, Run
  <2>3. CASE AdmitLoaded(r, n)
    BY <2>3 DEF AdmitLoaded, Run
  <2> QED BY <1>1, <2>1, <2>2, <2>3
<1>2. ASSUME NEW r \in Req, QueryOnly(r) \/ Promote(r) \/ Preempt(r) \/ Abort(r)
      PROVE  Same
  <2>1. CASE QueryOnly(r)
    BY <2>1 DEF QueryOnly
  <2>2. CASE Promote(r)
    BY <2>2 DEF Promote
  <2>3. CASE Preempt(r)
    BY <2>3 DEF Preempt
  <2>4. CASE Abort(r)
    BY <2>4 DEF Abort
  <2> QED BY <1>2, <2>1, <2>2, <2>3, <2>4
<1>3. ASSUME NEW r \in Req, BuildStore(r), NothingToStore(r) \/ StoreRefused(r)
      PROVE  Same
  <2>1. UNCHANGED <<phase, waitFor>>
    BY <1>3, BuildStoreFrame
  <2> QED BY <1>3, <2>1 DEF NothingToStore, StoreRefused
<1>4. ASSUME NEW running \in {{}, Running}, ResetLocal(running)
      PROVE  Same
  BY <1>4 DEF ResetLocal, Unseat
<1>5. ResetRaises => Same
  BY DEF ResetRaises, Unseat
<1>6. Quiescent \/ UNCHANGED vars => Same
  BY DEF Quiescent, vars
<1>7. Same
  BY <1>1, <1>2, <1>3, <1>4, <1>5, <1>6
<1> QED BY <1>7, SlotsSame

\* No slot is in use before the first job.
LEMMA InitSlotInv == Init => SlotInv
<1> SUFFICES ASSUME Init PROVE SlotInv
  OBVIOUS
<1>1. /\ blocks = NoBlocks /\ freeList = {} /\ numAllocated = 0
      /\ jobs = <<>> /\ transfers = <<>>
  BY DEF Init, MgrInit, ConnectorInit
<1>2. Cached = {} /\ DOMAIN jobs = {} /\ Uncopied = {}
  BY <1>1 DEF Cached, NoBlocks, Uncopied
<1> QED BY <1>1, <1>2, NumBlocksAssumption
        DEF SlotInv, SlotBooks, JobSlots, Awaited, HeldBack, OldApart

\* Every step of the engine keeps the slots apart.
LEMMA NextSlotInv == EngineInv /\ SlotInv /\ [Next]_vars => SlotInv'
<1> SUFFICES ASSUME EngineInv, SlotInv, [Next]_vars PROVE SlotInv'
  OBVIOUS
<1>0. EngineInv'
  BY NextEngineInv
<1>1. ASSUME NEW r \in Req, AdmitLoad(r) PROVE SlotInv'
  BY <1>1, AdmitLoadSlots
<1>2. ASSUME Step PROVE SlotInv'
  <2>1. CASE BuildConnectorMeta \/ HandOver
    BY <1>0, <2>1, MetadataSlots
  <2>2. ASSUME NEW r \in Req, BuildStore(r) PROVE SlotInv'
    <3>1. NothingToStore(r) \/ StoreRefused(r) \/ StoreAccepted(r)
      BY <2>2 DEF BuildStore, BuildStoreJob
    <3> QED BY <2>2, <3>1, OtherSlots, StoreAcceptedSlots
  <2>3. CASE SubmitStores
    BY <1>0, <2>3, SubmitSlots
  <2>4. CASE Forward
    BY <1>0, <2>4, ForwardSlots
  <2>5. CASE FinishStep \/ \E F \in SUBSET Req : UpdateFromOutput(F)
    BY <1>0, <2>5, OutputSlots
  <2>6. ASSUME NEW j \in DOMAIN outs, UpdateConnectorOutput(j) PROVE SlotInv'
    BY <2>6, ReportSlots
  <2> QED BY <1>2, <2>1, <2>2, <2>3, <2>4, <2>5, <2>6 DEF Step
<1>3. ASSUME NEW j \in DOMAIN transfers, NEW w \in Worker, CopyBlocks(j, w)
      PROVE  SlotInv'
  BY <1>0, <1>3, CopySlots
<1>4. ASSUME NEW running \in {{}, Running}, Reset(running) PROVE SlotInv'
  BY <1>4, ResetSlots
<1>5. CASE \/ \E r \in Req, n \in 1 .. MaxTokens :
                 ScheduleRunning(r, n) \/ AdmitRun(r, n) \/ AdmitLoaded(r, n)
           \/ \E r \in Req : QueryOnly(r) \/ Promote(r) \/ Preempt(r) \/ Abort(r)
           \/ \E running \in {{}, Running} : ResetLocal(running)
           \/ ResetRaises \/ Quiescent \/ UNCHANGED vars
  BY <1>5, OtherSlots
<1> QED BY <1>1, <1>2, <1>3, <1>4, <1>5 DEF Next, Copy

\* A store and a load that run at the same time meet in a slot in one case only.
LEMMA SlotsApart == EngineInv /\ SlotInv => CpuTransfersUndisturbed
<1> SUFFICES ASSUME EngineInv, SlotInv, NEW i \in Uncopied, NEW j \in Uncopied,
                    transfers[i].at = "running", transfers[j].at = "running",
                    transfers[i].is_store, ~transfers[j].is_store,
                    SlotsUsed(i) \cap SlotsUsed(j) # {}
             PROVE  JobStale(j) /\ ~JobStale(i) /\ {i, j} \subseteq waitFor
  BY DEF CpuTransfersUndisturbed
<1>1. i \in DOMAIN transfers /\ j \in DOMAIN transfers
  BY DEF Uncopied
<1>2. JobStale(i) \/ JobStale(j)
  BY NewApart
<1>3. ~(JobStale(i) /\ JobStale(j))
  BY DEF SlotInv, OldApart
<1>4. JobStale(j)
  \* A load that started after a reset ran only when older stores were over.
  <2>1. SUFFICES ASSUME JobStale(i), ~JobStale(j) PROVE FALSE
    BY <1>2
  <2> QED BY <1>1, <2>1 DEF SlotInv, HeldBack
<1>5. phase = "forward" /\ i \in waitFor
  BY <1>1, <1>3, <1>4 DEF SlotInv, HeldBack
<1>6. j \in waitFor
  BY <1>4, <1>5 DEF SlotInv, Awaited
<1> QED BY <1>3, <1>4, <1>5, <1>6

\* While a load reads a CPU slot no store writes it, those from before a reset
\* included: prepare_store spares what complete_load has not let go, and the
\* jobs a reset leaves behind are flushed before anything else starts.  The one
\* exception is a store made and flushed in the first step after a reset, into
\* a slot that a load from before it still reads; the worker waits for both in
\* that step.  For every size of the system, through preemptions, evictions,
\* aborts, resets and the late reports of several workers.
THEOREM SlotsIsolated == Spec => []CpuTransfersUndisturbed
<1>1. Init => SlotInv
  BY InitSlotInv
<1>2. EngineInv /\ SlotInv /\ [Next]_vars => SlotInv'
  BY NextSlotInv
<1>3. EngineInv /\ SlotInv => CpuTransfersUndisturbed
  BY SlotsApart
<1> QED BY <1>1, <1>2, <1>3, EngineBookkeeping, PTL DEF Spec
=============================================================================
