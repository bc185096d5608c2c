---------------------------- MODULE MCAlgorithms ----------------------------
(***************************************************************************)
(* The pure algorithms against what they should compute, for the inputs    *)
(* below.  A behaviour takes one input, and the invariants judge it.       *)
(***************************************************************************)
EXTENDS Integers, Sequences, FiniteSets, FiniteSetsExt, SequencesExt

L == INSTANCE HybridLookup
P == INSTANCE PrefixCacheHit
D == INSTANCE CopyDescriptors
G == INSTANCE CudaGraphs

VARIABLE input

Of(kind) == input.kind = kind
None == [kind |-> "none"]

Init == input = None

(***************************************************************************)
(* Lookups in the tier.                                                    *)
(***************************************************************************)
Full(size) == [kind |-> "full", span |-> 0, size |-> size, eagle |-> FALSE, aligned |-> FALSE]
Sliding(span, size) == [Full(size) EXCEPT !.kind = "sliding", !.span = span]
Mamba(size) == [Full(size) EXCEPT !.kind = "mamba", !.aligned = TRUE]
Eagle(spec) == [spec EXCEPT !.eagle = TRUE]

\* The groups of a model, the request's tokens, and what the tier may answer.
Models == {
    [specs |-> <<Full(2), Sliding(2, 1)>>, tokens |-> {4, 5}, answers |-> {"HIT", "MISS", "HIT_PENDING"}],
    [specs |-> <<Sliding(1, 1), Full(1), Sliding(2, 1)>>, tokens |-> {4}, answers |-> {"HIT", "MISS"}],
    [specs |-> <<Sliding(2, 1), Full(2), Mamba(2)>>, tokens |-> {5}, answers |-> {"HIT", "MISS", "RETRY"}],
    [specs |-> <<Eagle(Full(1)), Eagle(Sliding(1, 1)), Eagle(Sliding(2, 1))>>, tokens |-> {4}, answers |-> {"HIT", "MISS"}],
    [specs |-> <<Full(2), Mamba(2)>>, tokens |-> {6}, answers |-> {"HIT", "MISS", "HIT_PENDING"}],
    [specs |-> <<Sliding(3, 1), Sliding(2, 2)>>, tokens |-> {6}, answers |-> {"HIT", "MISS"}],
    [specs |-> <<Full(4), Sliding(1, 1)>>, tokens |-> {8}, answers |-> {"HIT", "MISS"}],
    [specs |-> <<Eagle(Full(2)), Eagle(Sliding(2, 1))>>, tokens |-> {6}, answers |-> {"HIT", "MISS"}],
    [specs |-> <<Full(2), Eagle(Sliding(1, 1)), Sliding(1, 2)>>, tokens |-> {5}, answers |-> {"HIT", "MISS"}]}

Query(m, tokens, local, keys) ==
    [config |-> L!Config(m.specs, 1), align |-> L!MambaAlign(m.specs, 1),
     tokens |-> tokens, prompt |-> tokens, local |-> local, keys |-> keys, hash |-> 1,
     partial |-> FALSE,
     loading |-> [g \in DOMAIN m.specs |-> {}], tails |-> <<>>]

AnswerLists(m, tokens, g) == [1 .. tokens \div m.specs[g].size -> m.answers]

LookUp ==
    /\ input = None
    /\ \E m \in Models : \E tokens \in m.tokens, local \in {0, 2} :
         \E keys \in {ks \in [DOMAIN m.specs -> UNION {AnswerLists(m, tokens, g) : g \in DOMAIN m.specs}] :
                        \A g \in DOMAIN m.specs : ks[g] \in AnswerLists(m, tokens, g)} :
           input' = [kind |-> "lookup", q |-> Query(m, tokens, local, keys)]

\* Requests stored as the connector stores them, and looked up with more tokens.
LookUpStored ==
    /\ input = None
    /\ \E m \in Models, stored \in 1 .. 10, local \in {0, 4} :
         LET specs == m.specs
             keys == [g \in DOMAIN specs |-> [i \in 1 .. 12 \div specs[g].size |-> "MISS"]]
         IN  input' = [kind |-> "stored", tokens |-> stored, q |-> Query(m, 12, local, keys)]

\* Partial tails, also of a request that has sampled tokens since its prompt,
\* and chunks that another request is loading.
LookUpTail ==
    /\ input = None
    /\ \E a, b \in [{1, 2} -> {"HIT", "MISS"}], loading \in SUBSET {1, 2} :
         \E tails \in [{3, 5} -> [{1, 2} -> {"HIT", "MISS", "RETRY"}]], tokens \in {5, 6},
            prompt \in {3, 4, 5, 6} :
           LET m == [specs |-> <<Full(2), Mamba(2)>>]
           IN  /\ prompt <= tokens
               /\ input' = [kind |-> "tail",
                         q |-> [Query(m, tokens, 0, <<a, b>>) EXCEPT
                                  !.prompt = prompt,
                                  !.partial = L!SupportsPartialTail(m.specs, 1, 1),
                                  !.loading = [g \in {1, 2} |-> loading],
                                  !.tails = [x \in 1 .. 6 |-> IF x \in {3, 5} THEN tails[x]
                                                              ELSE <<"MISS", "MISS">>]]]

\* The answer of a lookup in the tier can be loaded, is the longest there is,
\* loses nothing to the chunks left out on store, and ends in a whole tail
\* (scheduler.py, _lookup_complete_chunks, _lookup, is_store_reachable_swa_chunk).
LookupsAreRight ==
    /\ Of("lookup") => L!LookupIsRight(input.q)
    /\ Of("stored") => L!NothingMissedIsNeeded(input.q, input.tokens)
    /\ Of("tail") => L!LookupIsRight(input.q) /\ L!TailIsRight(input.q)

(***************************************************************************)
(* Hits in the prefix cache.                                               *)
(***************************************************************************)
CacheSpec(kind, size, window) == [kind |-> kind, size |-> size, window |-> window]
CacheGroup(spec, eagle) == [spec |-> spec, eagle |-> eagle, shared |-> TRUE]
FA(size) == CacheSpec("full", size, 0)
SW(size, window) == CacheSpec("window", size, window)
SSM(size) == CacheSpec("mamba", size, 1)
Scratch == [spec |-> FA(3), eagle |-> FALSE, shared |-> FALSE]

CacheModels ==
    {<<CacheGroup(FA(2), TRUE), CacheGroup(SW(1, 1), TRUE), CacheGroup(SW(1, 2), TRUE)>>} \cup
    {<<CacheGroup(SW(1, 2), e), CacheGroup(FA(2), f)>> : e, f \in BOOLEAN} \cup
    {<<CacheGroup(SSM(2), e), CacheGroup(FA(1), e)>> : e \in BOOLEAN} \cup
    {<<CacheGroup(FA(2), e), CacheGroup(SW(1, 1), f), CacheGroup(SSM(2), FALSE)>> : e, f \in BOOLEAN} \cup
    {<<CacheGroup(FA(1), e), CacheGroup(FA(2), f)>> : e, f \in BOOLEAN} \cup
    {<<CacheGroup(FA(2), e), CacheGroup(SW(1, 1), f), CacheGroup(FA(1), FALSE)>> : e, f \in BOOLEAN} \cup
    {<<CacheGroup(SW(1, 2), FALSE), Scratch, CacheGroup(SW(2, 1), FALSE), CacheGroup(SW(1, 2), TRUE)>>}

HoldBlocks(gs, held) ==
    [g \in DOMAIN gs |-> [spec |-> gs[g].spec, eagle |-> gs[g].eagle, shared |-> gs[g].shared,
                          held |-> held[g] \cap 1 .. 4 \div gs[g].spec.size]]

FindHit ==
    /\ input = None
    /\ \E gs \in CacheModels, max \in {3, 4} :
         \E held \in [DOMAIN gs -> SUBSET (1 .. 4)] :
           input' = [kind |-> "hit",
                     q |-> [groups |-> HoldBlocks(gs, held), max |-> max, alignment |-> 2]]

FindCached ==
    /\ input = None
    /\ \E gs \in CacheModels, max \in 1 .. 8, computed \in 0 .. 8 :
         input' = [kind |-> "cached", computed |-> computed,
                   q |-> [groups |-> HoldBlocks(gs, [g \in DOMAIN gs |-> {}]),
                          max |-> max, alignment |-> 2]]

Admit ==
    /\ input = None
    /\ \E hits \in [1 .. 3 -> SUBSET (1 .. 4)], news \in [1 .. 3 -> 0 .. 2] :
         /\ \A g, h \in 1 .. 3 : g # h => hits[g] \cap hits[h] = {}
         /\ Cardinality(UNION {hits[g] : g \in 1 .. 3}) + news[1] + news[2] + news[3] <= 5
         /\ input' = [kind |-> "admission",
                      p |-> [hits |-> hits, news |-> news, free |-> <<3, 1, 5, 2, 4>>,
                             taken |-> {}]]

\* A hit in the prefix cache is one for every group and stays so while the
\* rest of the request's blocks are allocated, and what a request caches is
\* found (kv_cache_coordinator.py, find_longest_cache_hit, cache_blocks,
\* allocate_new_computed_blocks).
HitsAreRight ==
    /\ Of("hit") => P!HitFitsEveryGroup(input.q)
    /\ Of("cached") => P!WhatIsCachedIsFound(input.q, input.computed)
    /\ Of("admission") => P!HitsAreNotGivenAway(input.p)

(***************************************************************************)
(* Transfers.                                                              *)
(***************************************************************************)
\* A transfer of groups of these sizes and first blocks, GPU blocks in
\* descending and chunks in rotated order, as pools hand them out.
TransferOf(groups, bpc) ==
    LET blocks == MapThenSumSet(LAMBDA g : groups[g].size, DOMAIN groups)
        chunks == MapThenSumSet(
                    LAMBDA g : Cardinality({(groups[g].index + i) \div bpc : i \in 0 .. groups[g].size - 1}),
                    DOMAIN groups)
    IN  [store |-> TRUE, bpc |-> bpc, groups |-> groups,
         gpu |-> [i \in 1 .. blocks |-> 20 - i],
         cpu |-> [i \in 1 .. chunks |-> (i + 1) % (chunks + 1)]]

GroupSlice == [size : 0 .. 4, index : 0 .. 3]

\* The fragments of a rank's page in a page of the tier, for two ranks: the
\* heads of a rank side by side, or all of it replicated.
Run(num, size, local, localStride, canonical, canonicalStride) ==
    [num |-> num, size |-> size, local |-> local, localStride |-> localStride,
     canonical |-> canonical, canonicalStride |-> canonicalStride]
Sharded(r) == [runs |-> {Run(2, 1, 0, 1, r, 2), Run(1, 2, 2, 2, 4 + 2 * r, 2)},
               writers |-> 1, writer |-> 0]
Replicated(r) == [runs |-> {Run(2, 2, 0, 2, 0, 2)}, writers |-> 2, writer |-> r]
Layouts == {<<Sharded(0), Sharded(1)>>, <<Replicated(0), Replicated(1)>>}

Transfer ==
    /\ input = None
    /\ \E bpc \in 1 .. 3, a, b \in GroupSlice, ms \in Layouts :
         input' = [kind |-> "transfer", t |-> TransferOf(<<a, b>>, bpc), ms |-> ms]

LayOut ==
    /\ input = None
    /\ \E cell \in 1 .. 4, ranks \in 1 .. 2, stride \in 2 .. 6, a, b \in 1 .. 2 :
         input' = [kind |-> "region", cell |-> cell, ranks |-> ranks, stride |-> stride,
                   pages |-> <<a, b>>]

Pin ==
    /\ input = None
    /\ \E rows \in 1 .. 5, stride \in 1 .. 10, requested \in {2, 7, 12, 40} :
         input' = [kind |-> "pin", rows |-> rows, stride |-> stride, requested |-> requested]

\* Each block of a transfer goes to its own bytes of the tier and comes back
\* from where it was written, whatever the layout; the tier's views and the
\* ranges registered of it do not get in each other's way (gpu_worker.py,
\* transfer_async, _fill_direct_ops, _fill_canonical_ops, pin_mmap_region).
CopiesAreRight ==
    /\ Of("transfer") => /\ D!DirectOpsAreRight(input.t)
                         /\ D!CanonicalCopiesAreRight(input.t, input.ms)
    /\ Of("region") => D!ViewsAreDisjoint(input.cell, input.ranks, input.stride, input.pages)
    /\ Of("pin") => D!NoRowCrossesASeam(input.rows, input.requested, input.stride, 2, 4, 20)

(***************************************************************************)
(* CUDA graphs.                                                            *)
(***************************************************************************)
Modes == {[decode |-> "NONE", mixed |-> "NONE", separate |-> FALSE],
          [decode |-> "PIECEWISE", mixed |-> "PIECEWISE", separate |-> FALSE],
          [decode |-> "FULL", mixed |-> "FULL", separate |-> FALSE],
          [decode |-> "FULL", mixed |-> "NONE", separate |-> TRUE],
          [decode |-> "FULL", mixed |-> "PIECEWISE", separate |-> TRUE]}
Loras == {<<0>>, <<3>>, <<0, 1, 2, 3>>, <<0, 1, 3>>}

GraphConfig(mode, sizes, qlen, seqs, batches, loras) ==
    [decode |-> mode.decode, mixed |-> mode.mixed, separate |-> mode.separate,
     sizes |-> sizes, qlen |-> qlen, seqs |-> seqs, batches |-> batches,
     cases |-> loras, loras |-> ToSet(loras), specialize |-> Len(loras) > 2,
     qlens |-> <<qlen>>, varlen |-> FALSE]

\* The capture sizes are multiples of the query length of uniform decode.
Configs ==
    {GraphConfig(mode, {qlen * i : i \in sizes}, qlen, 3, batches, loras) :
        mode \in Modes, sizes \in {{1}, {1, 2, 4}, {2, 3, 8}}, qlen \in 1 .. 3,
        batches \in {{}, {1}, {1, 3}}, loras \in Loras}

\* Batches of so many requests with these query lengths at most.
Batches(c, reqs, query) ==
    {[reqs |-> reqs, tokens |-> n, query |-> query, loras |-> l] :
        n \in reqs - 1 + query .. reqs * query, l \in 0 .. 3}

DispatchBatch ==
    /\ input = None
    /\ \E c \in Configs, reqs \in 1 .. 3, query \in 1 .. 4,
          modes \in {{"NONE", "FULL", "PIECEWISE"}, {"NONE", "PIECEWISE"}} :
         \E b \in Batches(c, reqs, query) :
           /\ b.loras > 0 => Max(c.loras) > 0
           /\ input' = [kind |-> "dispatch", c |-> c,
                        b |-> [reqs |-> reqs, tokens |-> b.tokens, loras |-> b.loras, modes |-> modes,
                               uniform |-> b.tokens = reqs * query /\ query = c.qlen]]

ChooseGraph ==
    /\ input = None
    /\ \E c \in Configs, reqs \in 1 .. 3, query \in 1 .. 4, varlen \in BOOLEAN :
         \E b \in Batches(c, reqs, query), tracked \in BOOLEAN :
           /\ b.loras > 0 => Max(c.loras) > 0
           /\ input' = [kind |-> "graph",
                        c |-> [c EXCEPT !.varlen = varlen,
                                        !.qlens = IF c.qlen = 3 THEN <<1, 3>> ELSE <<c.qlen>>],
                        b |-> [reqs |-> reqs, tokens |-> b.tokens, loras |-> b.loras,
                               longest |-> query, query |-> IF tracked THEN query ELSE 0,
                               uniform |-> IF b.tokens = reqs * query THEN query ELSE 0]]

\* A batch runs in a captured graph that is large enough for it or in none,
\* and a uniform decode batch of any number of requests has a decode graph
\* (cudagraph_dispatcher.py, dispatch; cudagraph_utils.py, dispatch).
GraphsAreRight ==
    /\ Of("dispatch") => G!DispatcherIsRight(input.c, input.b)
    /\ Of("graph") => G!ManagerIsRight(input.c, input.b)

-----------------------------------------------------------------------------
Next ==
    \/ LookUp \/ LookUpStored \/ LookUpTail
    \/ FindHit \/ FindCached \/ Admit
    \/ Transfer \/ LayOut \/ Pin
    \/ DispatchBatch \/ ChooseGraph

Spec == Init /\ [][Next]_input
=============================================================================
