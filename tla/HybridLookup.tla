----------------------------- MODULE HybridLookup -----------------------------
(***************************************************************************)
(* How many tokens of a request the CPU tier can supply when the model has *)
(* several KV-cache groups (kv_connector/v1/offloading/scheduler.py): the  *)
(* groups as the connector configures them, the lookup that goes over them *)
(* until they agree, the partial tail beyond it, and the chunks of a window*)
(* worth storing.                                                          *)
(***************************************************************************)
EXTENDS Integers, Sequences, FiniteSets, FiniteSetsExt, SequencesExt

Cdiv(a, b) == (a + b - 1) \div b
RoundDown(a, b) == (a \div b) * b

(***************************************************************************)
(* A group's spec: kind, span (window or attention chunk, in tokens),      *)
(* size (tokens of a block), eagle, and for mamba whether it is aligned.   *)
(* No window and no segment are 0.                                         *)
(***************************************************************************)
\* get_sliding_window_size_in_chunks
WindowInChunks(spec, size) ==
    CASE spec.kind \in {"sliding", "local"} -> Cdiv(spec.span, size)
      [] spec.kind = "mamba" -> 1
      [] spec.kind = "full" -> 0

\* from_spec: the chunks of a group in one chunk of full attention, when they
\* are smaller, all full attention agrees, and the window does not span them.
SegmentInChunks(specs, g, bpc) ==
    LET sizes == {specs[h].size * bpc : h \in {i \in DOMAIN specs : specs[i].kind = "full"}}
        size == specs[g].size * bpc
        window == WindowInChunks(specs[g], size)
        segment == Max(sizes) \div size
    IN  IF Cardinality(sizes) # 1 \/ window = 0 THEN 0
        ELSE IF Max(sizes) <= size \/ window >= segment THEN 0 ELSE segment

Config(specs, bpc) ==
    [g \in DOMAIN specs |->
        [size |-> specs[g].size * bpc,
         window |-> WindowInChunks(specs[g], specs[g].size * bpc),
         segment |-> SegmentInChunks(specs, g, bpc),
         eagle |-> specs[g].eagle,
         cow |-> specs[g].kind = "mamba" /\ specs[g].aligned]]

\* resolve_mamba_align_size; all such groups agree.
MambaAlign(specs, bpc) ==
    Max({0} \cup {specs[g].size * bpc :
            g \in {h \in DOMAIN specs : specs[h].kind = "mamba" /\ specs[h].aligned}})

SupportsPartialTail(specs, bpc, tokensPerHash) ==
    /\ bpc = 1
    /\ \A g, h \in DOMAIN specs : specs[g].size = specs[h].size
    /\ \E g \in DOMAIN specs : Config(specs, bpc)[g].cow /\ specs[g].size > tokensPerHash
    /\ \A g \in DOMAIN specs :
          ~specs[g].eagle /\ (Config(specs, bpc)[g].window = 0 \/ Config(specs, bpc)[g].cow)

\* __init__: full attention first, then the widest window.
Windowed(config) ==
    SetToSortSeq({g \in DOMAIN config : config[g].window > 0},
                 LAMBDA g, h : config[g].window > config[h].window
                                  \/ (config[g].window = config[h].window /\ g < h))
Order(config) ==
    SetToSortSeq({g \in DOMAIN config : config[g].window = 0}, LAMBDA g, h : g < h) \o Windowed(config)

(***************************************************************************)
(* A lookup q: config, align (MambaAlign), tokens of the request, prompt   *)
(* (those it was submitted with), local (computed already), and keys: for  *)
(* each group what the tier answers for each chunk.                        *)
(***************************************************************************)
Deferred == -1
Waiting(result) == result \in {"HIT_PENDING", "RETRY"}
Counts(result) == result \in {"HIT", "HIT_PENDING"}

\* _maximal_prefix_lookup: hits before the first miss.
PrefixHits(ks) ==
    LET scanned == {i \in DOMAIN ks : \A h \in 1 .. i : ks[h] # "MISS"}
    IN  IF \E i \in scanned : Waiting(ks[i]) THEN Deferred ELSE Cardinality(scanned)

\* _sliding_window_lookup: the end of the last run of so many hits, else the
\* hits at the very start.
SuffixHits(ks, window) ==
    LET Run(e) == {i \in DOMAIN ks : \A h \in i .. e : Counts(ks[h])} \cap 1 .. e
        ends == {e \in DOMAIN ks : Cardinality(Run(e)) >= window}
        scanned == (IF ends = {} THEN 1 ELSE Max(ends) - window + 1) .. Len(ks)
    IN  IF \E i \in scanned : Waiting(ks[i]) THEN Deferred
        ELSE IF ends # {} THEN Max(ends)
        ELSE Cardinality({i \in DOMAIN ks : \A h \in 1 .. i : Counts(ks[h])})

\* The bounds that a group's keys put on the hit, and the answers it gets.
Bound(q, g, most) == Min({most, Len(q.keys[g]) * q.config[g].size})
Unverified(q, s, g) == q.config[g].eagle /\ g \notin s.verified
Asked(q, s, g) ==
    LET c == q.config[g]
        bound == Bound(q, g, s.most)
        more == IF Unverified(q, s, g) /\ c.window > 0 THEN bound + c.size ELSE bound
    IN  SubSeq(q.keys[g], q.local \div c.size + 1, Min({Cdiv(more, c.size), Len(q.keys[g])}))
Answer(q, s, g) ==
    IF q.config[g].window = 0 THEN PrefixHits(Asked(q, s, g))
    ELSE SuffixHits(Asked(q, s, g),
                    q.config[g].window + IF Unverified(q, s, g) THEN 1 ELSE 0)

\* One group's answer: it may tighten the hit, and then what went before is
\* looked at again.
Narrow(q, s, g, bound, answer) ==
    LET c == q.config[g]
        chunks == q.local \div c.size + answer - (IF Unverified(q, s, g) THEN 1 ELSE 0)
        most == IF answer = Deferred THEN bound ELSE Min({bound, c.size * chunks})
        hit == most - q.local
        defer == s.defer \/ answer = Deferred
        shrunk == hit < s.hit
    IN  IF bound - q.local < c.size \/ answer = 0 \/ hit < c.size
        THEN [s EXCEPT !.hit = 0, !.defer = FALSE, !.todo = <<>>, !.next = <<>>]
        ELSE [most |-> most,
              hit |-> hit,
              verified |-> IF shrunk /\ ~c.eagle THEN {}
                           ELSE IF c.eagle /\ answer # Deferred THEN s.verified \cup {g}
                           ELSE s.verified,
              defer |-> defer /\ ~shrunk,
              next |-> IF shrunk /\ defer THEN Order(q.config)
                       ELSE IF shrunk /\ s.slid /\ s.next = <<>> THEN Windowed(q.config)
                       ELSE s.next,
              slid |-> s.slid \/ c.window > 0,
              todo |-> Tail(s.todo)]

Visit(q, s) ==
    LET g == Head(s.todo) IN Narrow(q, s, g, Bound(q, g, s.most), Answer(q, s, g))

RECURSIVE Converge(_, _)
Converge(q, s) ==
    IF s.todo # <<>> THEN Converge(q, Visit(q, s))
    ELSE IF s.next # <<>>
         THEN Converge(q, [s EXCEPT !.todo = s.next, !.next = <<>>, !.slid = FALSE])
    ELSE IF s.defer THEN Deferred ELSE s.hit

\* The last token is computed anyway when a window is looked up.
MostTokens(q) ==
    IF Windowed(q.config) = <<>> THEN q.tokens
    ELSE IF q.align > 0 THEN RoundDown(q.tokens - 1, q.align) ELSE q.tokens - 1

\* The chunks a hit loads of a group, and is delayed for while they are loaded.
ToLoad(q, g, hit) ==
    LET c == q.config[g]
        first == q.local \div c.size + 1
        last == Cdiv(q.local + hit, c.size)
    IN  (IF c.window = 0 THEN first ELSE Max({first, last - c.window + 1})) .. last

\* _lookup_complete_chunks; q.loading: chunks that other requests load.
UnlessLoading(q, hit) ==
    IF \E g \in DOMAIN q.config : hit # Deferred /\ ToLoad(q, g, hit) \cap q.loading[g] # {}
    THEN Deferred ELSE hit
CompleteHit(q) ==
    UnlessLoading(q, Converge(q, [most |-> MostTokens(q), hit |-> 0, verified |-> {},
                                  defer |-> FALSE, slid |-> FALSE,
                                  todo |-> Order(q.config), next |-> <<>>]))

\* _lookup: the boundaries past the complete hit, last one first, whose keys
\* (of all groups) are all there.  q.tails: boundary -> group -> answer.
Tails(q, complete) ==
    {b \in DOMAIN q.tails :
        /\ b > q.local + complete
        /\ b <= RoundDown(Min({q.prompt, q.local + complete + q.config[1].size}) - 1, q.hash)}
WithTail(q, complete) ==
    LET Answered(b, result) == \A g \in DOMAIN q.config : q.tails[b][g] = result
        Missed(b) == \E g \in DOMAIN q.config : q.tails[b][g] = "MISS"
        whole == {b \in Tails(q, complete) : Answered(b, "HIT")}
        pending == {b \in Tails(q, complete) : \E g \in DOMAIN q.config :
                       Waiting(q.tails[b][g]) /\ \A h \in 1 .. g : q.tails[b][h] # "MISS"}
    IN  IF complete = Deferred \/ ~q.partial THEN complete
        ELSE IF whole # {} THEN Max(whole) - q.local
        ELSE IF pending # {} /\ complete = 0 THEN Deferred ELSE complete
Lookup(q) == WithTail(q, CompleteHit(q))

\* Mutant: without the chunk an eagle group drops.
WorthStoringBare(c, chunk, storable) ==
    LET place == chunk % c.segment
        length == Min({c.segment, storable - (chunk - place)})
    IN  c.segment = 0 \/ place >= length - c.window

\* is_store_reachable_swa_chunk; chunks are numbered from 0.
WorthStoring(c, chunk, storable) ==
    LET place == chunk % c.segment
        length == Min({c.segment, storable - (chunk - place)})
    IN  c.segment = 0 \/ place >= length - (c.window + IF c.eagle THEN 1 ELSE 0)

-----------------------------------------------------------------------------
(***************************************************************************)
(* What the above should be.                                               *)
(***************************************************************************)
Loadable(q, hit) ==
    \A g \in DOMAIN q.config :
        \A i \in ToLoad(q, g, hit) : i \in DOMAIN q.keys[g] /\ q.keys[g][i] = "HIT"

Whole(q, hit) ==
    \A g \in DOMAIN q.config :
        hit >= q.config[g].size /\ (q.local + hit) % q.config[g].size = 0

\* Had the tier all that is on its way.
Hopeful(q) ==
    [q EXCEPT !.keys = [g \in DOMAIN q.keys |-> [i \in DOMAIN q.keys[g] |->
        IF Waiting(q.keys[g][i]) THEN "HIT" ELSE q.keys[g][i]]]]

Eagles(q) == {g \in DOMAIN q.config : q.config[g].eagle}
Waits(q, g, chunks) == \E i \in DOMAIN q.keys[g] \cap chunks : Waiting(q.keys[g][i])
EndOf(q, g, hit) == Cdiv(q.local + hit, q.config[g].size)

\* The tier holds every chunk of the answer, and the one after it that an eagle
\* group drops; an answer for a recurrent group is its whole chunks.
AnswerIsHeld(q, hit) ==
    /\ Loadable(q, hit)
    /\ hit <= MostTokens(q) - q.local
    /\ \A g \in DOMAIN q.config : ToLoad(q, g, hit) \cap q.loading[g] = {}
    /\ \A g \in Eagles(q) : LET next == EndOf(q, g, hit) + 1
                           IN  next \in DOMAIN q.keys[g] /\ q.keys[g][next] = "HIT"
    /\ q.align > 0 /\ (\A g \in DOMAIN q.config : q.config[g].size % q.align = 0) =>
          (q.local + hit) % q.align = 0

\* Of whole chunks of all groups no longer hit exists; a request does not wait
\* for chunks of full attention that no hit could reach.
HitIsRight(q, hit, hope) ==
    LET reach == IF hope = 0 THEN q.tokens - q.local ELSE hope
    IN  /\ hit > 0 => AnswerIsHeld(q, hit)
        /\ hit = Deferred => \E g \in DOMAIN q.config :
              \/ q.config[g].window > 0 /\ Waits(q, g, DOMAIN q.keys[g])
              \/ Waits(q, g, 1 .. EndOf(q, g, reach) + (IF g \in Eagles(q) THEN 1 ELSE 0))
              \/ q.loading[g] # {}
        /\ hit # Deferred /\ Eagles(q) = {}
              /\ (\A g \in DOMAIN q.config : ~Waits(q, g, DOMAIN q.keys[g])) =>
              \A n \in hit + 1 .. MostTokens(q) - q.local : ~(Whole(q, n) /\ Loadable(q, n))
LookupIsRight(q) ==
    HitIsRight(q, CompleteHit(q),
               CompleteHit(Hopeful([q EXCEPT !.loading = [g \in DOMAIN @ |-> {}]])))

\* A partial tail is past the complete hit, within its block and the prompt but
\* for its last token, and all there.
TailFits(q, hit, complete) ==
    hit # complete /\ hit # Deferred =>
        /\ hit \in complete + 1 .. complete + q.config[1].size - 1
        /\ q.local + hit < q.prompt
        /\ \A g \in DOMAIN q.config : q.tails[q.local + hit][g] = "HIT"
TailIsRight(q) == TailFits(q, Lookup(q), CompleteHit(q))

\* The chunks left out when a request is stored cost no later lookup a hit on
\* whole chunks of full attention (but for what an eagle group drops).
Stored(q, tokens) ==
    [q EXCEPT !.keys = [g \in DOMAIN q.keys |->
        [i \in DOMAIN q.keys[g] |->
            IF i * q.config[g].size <= tokens
               /\ WorthStoring(q.config[g], i - 1, tokens \div q.config[g].size)
            THEN "HIT" ELSE "MISS"]]]
NothingMissedIsNeeded(q, tokens) ==
    LET all == Max({q.config[g].size : g \in DOMAIN q.config})
        drop == Max({0} \cup {q.config[g].size : g \in {h \in DOMAIN q.config : q.config[h].eagle}})
        most == RoundDown(Min({tokens, MostTokens(q)}), all)
    IN  most - drop - q.local >= all =>
            CompleteHit(Stored(q, tokens)) >= most - drop - q.local
=============================================================================
