------------------------------ MODULE CudaGraphs ------------------------------
(***************************************************************************)
(* Which CUDA graphs are captured and which one a batch runs in: the       *)
(* dispatcher (v1/cudagraph_dispatcher.py) and the graph manager of the    *)
(* other model runner (v1/worker/gpu/cudagraph_utils.py).                  *)
(*                                                                         *)
(* Both have a configuration c:                                            *)
(*   decode, mixed, separate   the graphs of decode and of mixed batches,  *)
(*                     and whether they differ (cudagraph_mode)            *)
(*   sizes    cudagraph_capture_sizes, the greatest is the maximum         *)
(*   qlen     tokens of a request in a uniform decode batch                *)
(*   seqs     max_num_seqs                                                 *)
(*   batches  VLLM_MTP_DECODE_CG_BATCHES, empty when it is not set         *)
(*   loras    the numbers of active LoRA adapters graphs are captured for  *)
(***************************************************************************)
EXTENDS Integers, Sequences, FiniteSets, FiniteSetsExt, SequencesExt

Enabled(c) == c.decode # "NONE" \/ c.mixed # "NONE"
MaxSize(c) == Max(c.sizes)
MaxDecodeTokens(c) == c.qlen * c.seqs
AtLeast(sizes, n) == {s \in sizes : s >= n}

(***************************************************************************)
(* The dispatcher.  A graph's key is its mode and a descriptor: tokens,    *)
(* reqs (Unbound if it does not matter), uniform, loras.  c.specialize:    *)
(* graphs are captured for several numbers of adapters.                    *)
(***************************************************************************)
Unbound == 0

\* _decode_key_reqs
DecodeReqs(c) ==
    LET chosen == c.batches \cap 1 .. c.seqs
    IN  IF c.qlen <= 1 \/ chosen = {} THEN 1 .. c.seqs ELSE chosen
DecodeSizes(c) == {r * c.qlen : r \in DecodeReqs(c)}

\* _compute_bs_to_padded_graph_size: the next captured size; past the greatest,
\* the next size of uniform decode, and no padding when there is none.
PaddedSize(c, n) ==
    IF n = 0 THEN 0
    ELSE IF n <= MaxSize(c) THEN Min(AtLeast(c.sizes, n))
    ELSE IF AtLeast(DecodeSizes(c), n) # {} THEN Min(AtLeast(DecodeSizes(c), n)) ELSE n

\* _create_padded_batch_descriptor, and when its assertion holds.
Descriptor(c, n, uniform, loras) ==
    LET size == PaddedSize(c, n)
        decode == uniform /\ "FULL" \in {c.decode, c.mixed}
    IN  [tokens |-> size, uniform |-> decode, loras |-> loras,
         reqs |-> Min({c.seqs, IF decode THEN size \div c.qlen ELSE size})]
DescriptorAsserts(c, n, uniform) ==
    uniform /\ "FULL" \in {c.decode, c.mixed} => PaddedSize(c, n) % c.qlen = 0
Relaxed(d) == [d EXCEPT !.reqs = Unbound, !.uniform = FALSE]

\* initialize_cudagraph_keys
MixedKeys(c) ==
    IF c.mixed = "NONE" THEN {}
    ELSE {[mode |-> c.mixed,
           desc |-> LET d == Descriptor(c, n, FALSE, l)
                    IN  IF c.mixed = "PIECEWISE" THEN Relaxed(d) ELSE d] :
              n \in c.sizes, l \in c.loras}
DecodeKeys(c) ==
    IF ~(c.separate /\ c.decode = "FULL") THEN {}
    ELSE {[mode |-> "FULL", desc |-> Descriptor(c, n, TRUE, l)] :
              n \in IF c.qlen > 1 THEN DecodeSizes(c)
                    ELSE {s \in c.sizes : s <= MaxDecodeTokens(c)},
              l \in c.loras}
Keys(c) == MixedKeys(c) \cup DecodeKeys(c)

\* dispatch: batch b has tokens, uniform, loras and the modes it may use.
Limit(c, b) ==
    IF b.uniform /\ c.separate /\ c.qlen > 1 THEN Max({MaxSize(c), MaxDecodeTokens(c)})
    ELSE MaxSize(c)
CapturedLoras(c, b) ==
    IF b.loras = 0 THEN 0
    ELSE IF ~c.specialize THEN Max(c.loras)
    ELSE IF AtLeast(c.loras, b.loras) # {} THEN Min(AtLeast(c.loras, b.loras)) ELSE b.loras
NoGraph(b) == [mode |-> "NONE", desc |-> [tokens |-> b.tokens]]
Dispatch(c, b) ==
    LET desc == Descriptor(c, b.tokens, b.uniform /\ c.separate, CapturedLoras(c, b))
        full == [mode |-> "FULL", desc |-> desc]
        piecewise == [mode |-> "PIECEWISE", desc |-> Relaxed(desc)]
    IN  IF ~Enabled(c) \/ b.tokens > Limit(c, b) THEN NoGraph(b)
        ELSE IF "FULL" \in b.modes /\ full \in Keys(c) THEN full
        ELSE IF "PIECEWISE" \in b.modes /\ piecewise \in Keys(c) THEN piecewise
        ELSE NoGraph(b)

(***************************************************************************)
(* The graph manager.  c.qlens are the query lengths of uniform decode, in *)
(* the order it tries them; c.varlen: decode batches need not be uniform.  *)
(* A descriptor's reqs, uniform and query are Unbound when the graph takes *)
(* any.                                                                    *)
(***************************************************************************)
Graph(mode, tokens, reqs, uniform, query, loras) ==
    [mode |-> mode, tokens |-> tokens, reqs |-> reqs, uniform |-> uniform,
     query |-> query, loras |-> loras]

RoundUp(n, m) == ((n + m - 1) \div m) * m

\* _init_candidates: what a capture size gives, decode first.
VarlenGraphs(c, n, l) ==
    IF c.separate /\ c.decode # "NONE" /\ c.varlen /\ n <= MaxDecodeTokens(c)
    THEN <<Graph(c.decode, n, Min({n, c.seqs}), Unbound, c.qlen, l)>> ELSE <<>>
UniformGraphs(c, n, l) ==
    LET graph == [i \in DOMAIN c.qlens |->
                    LET m == RoundUp(n, c.qlens[i])
                    IN  Graph(c.decode, m, m \div c.qlens[i], c.qlens[i], Unbound, l)]
    IN  IF c.separate /\ c.decode # "NONE" /\ ~c.varlen
        THEN SelectSeq(graph, LAMBDA d : /\ d.tokens <= Min({MaxDecodeTokens(c), MaxSize(c)})
                                         /\ d.reqs <= c.seqs)
        ELSE <<>>
MixedGraphs(c, n, l) ==
    IF c.mixed = "NONE" THEN <<>>
    ELSE LET reqs == IF c.mixed = "FULL" THEN Min({n, c.seqs}) ELSE Unbound
         IN  <<Graph(c.mixed, n, reqs, Unbound, Unbound, l)>>

\* Mutant: the sizes that rounding gives, and no others.
SweptReqsOne(c) == {1}

\* The sweep over numbers of requests.
SweptReqs(c) ==
    LET chosen == c.batches \cap 1 .. c.seqs
    IN  IF c.batches = {} THEN 1 .. c.seqs ELSE IF chosen = {} THEN {1} ELSE chosen
SweptGraphs(c) ==
    LET q == Max(ToSet(c.qlens))
        Sweep(l) == [i \in 1 .. Cardinality(SweptReqs(c)) |->
                        LET r == SetToSortSeq(SweptReqs(c), LAMBDA a, b : a < b)[i]
                        IN  Graph(c.decode, r * q, r, q, Unbound, l)]
    IN  IF c.separate /\ c.decode # "NONE" /\ ~c.varlen /\ q > 1
        THEN FlattenSeq([i \in DOMAIN c.cases |-> Sweep(c.cases[i])]) ELSE <<>>

\* All graphs in the order they are tried; c.cases lists c.loras.
Graphs(c) ==
    LET sizes == SetToSortSeq(c.sizes, LAMBDA a, b : a < b)
        Of(n) == FlattenSeq([j \in DOMAIN c.cases |->
                    VarlenGraphs(c, n, c.cases[j]) \o UniformGraphs(c, n, c.cases[j])
                        \o MixedGraphs(c, n, c.cases[j])])
    IN  IF ~Enabled(c) THEN <<>>
        ELSE FlattenSeq([i \in DOMAIN sizes |-> Of(sizes[i])]) \o SweptGraphs(c)

\* A token count's candidates: the graphs of the next size there is.
Candidates(c, n, l) ==
    LET next == AtLeast({d.tokens : d \in ToSet(Graphs(c))}, n)
    IN  IF next = {} THEN <<>>
        ELSE SelectSeq(Graphs(c), LAMBDA d : d.tokens = Min(next) /\ d.loras = l)

\* _build_lora_dispatch_map, _resolve_effective_loras
EffectiveLoras(c, n) ==
    LET with == c.loras \ {0}
    IN  IF n = 0 \/ with = {} THEN n
        ELSE IF AtLeast(with, n) = {} THEN Max(with) ELSE Min(AtLeast(with, n))

\* _is_compatible; a batch that does not track it has query Unbound.
Compatible(d, b, loras) ==
    /\ d.uniform \in {Unbound, b.uniform}
    /\ d.query # Unbound => b.query # Unbound /\ d.query >= b.query
    /\ d.reqs # Unbound => d.reqs >= b.reqs
    /\ d.tokens >= b.tokens
    /\ d.loras = loras

DispatchGraph(c, b) ==
    LET loras == EffectiveLoras(c, b.loras)
        fitting == SelectSeq(Candidates(c, b.tokens, loras), LAMBDA d : Compatible(d, b, loras))
    IN  IF b.tokens > 0 /\ fitting # <<>> THEN fitting[1]
        ELSE Graph("NONE", b.tokens, b.reqs, Unbound, Unbound, loras)

-----------------------------------------------------------------------------
(***************************************************************************)
(* What the above should be; batch b has b.reqs requests, the longest      *)
(* query of b.longest tokens.                                              *)
(***************************************************************************)
\* The dispatcher's graph was captured and holds the batch; with all numbers of
\* requests captured, a uniform decode batch has one for decode.
DispatcherIsRight(c, b) ==
    LET graph == Dispatch(c, b)
        desc == graph.desc
    IN  /\ b.tokens <= Limit(c, b) => DescriptorAsserts(c, b.tokens, b.uniform /\ c.separate)
        /\ graph.mode # "NONE" =>
              /\ graph \in Keys(c) /\ graph.mode \in b.modes
              /\ desc.tokens >= b.tokens
              /\ desc.reqs # Unbound => desc.reqs >= b.reqs
              /\ desc.uniform => b.uniform
              /\ desc.loras >= b.loras
        /\ /\ b.uniform /\ c.separate /\ c.decode = "FULL" /\ c.qlen > 1
           /\ IF b.tokens > MaxSize(c) THEN AtLeast(DecodeSizes(c), b.tokens) # {}
              ELSE c.batches = {}
           /\ "FULL" \in b.modes /\ b.loras <= Max(c.loras)
           /\ b.loras > 0 \/ 0 \in c.loras
           => graph.mode = "FULL" /\ desc.uniform

\* The same of the graph manager.
ManagerIsRight(c, b) ==
    LET d == DispatchGraph(c, b)
    IN  /\ d.mode # "NONE" =>
              /\ d \in ToSet(Graphs(c))
              /\ d.tokens >= b.tokens
              /\ d.reqs # Unbound => d.reqs >= b.reqs
              /\ d.uniform # Unbound => d.uniform = b.uniform
              /\ d.query # Unbound => b.longest <= d.query
              /\ d.loras >= Min({b.loras, Max(c.loras)})
        /\ /\ c.separate /\ c.decode = "FULL" /\ ~c.varlen /\ c.batches = {}
           /\ b.uniform = Max(ToSet(c.qlens)) /\ b.uniform > 1
           /\ IF b.loras > 0 THEN Max(c.loras) > 0 ELSE 0 \in c.loras
           => d.mode = "FULL" /\ d.tokens = b.tokens /\ d.reqs = b.reqs
=============================================================================
