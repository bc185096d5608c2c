---------------------------- MODULE PrefixCacheHit ----------------------------
(***************************************************************************)
(* The longest prefix that every KV-cache group still holds                *)
(* (v1/core/kv_cache_coordinator.py): the fixed point over the groups, what*)
(* is put into the prefix cache, and how the blocks of a hit are taken     *)
(* before others are allocated.                                            *)
(*                                                                         *)
(* The managers of the single groups and the block pool are not in the     *)
(* repository: Held and the free list stand for them.  Hits are of whole   *)
(* blocks (enable_partial_hash_hits off, no context parallelism).          *)
(***************************************************************************)
EXTENDS Integers, Sequences, FiniteSets, FiniteSetsExt, SequencesExt

(***************************************************************************)
(* A KV-cache group: spec [kind, size, window], eagle, and shared (the     *)
(* group takes part in prefix caching).  size counts tokens of a block,    *)
(* window blocks.  held is the set of its blocks in the cache.             *)
(*                                                                         *)
(* A lookup q has groups, the greatest length max and the alignment.       *)
(***************************************************************************)
Shared(q) == {g \in DOMAIN q.groups : q.groups[g].shared}
Specs(q) == {q.groups[g].spec : g \in Shared(q)}
Members(q, spec) == {g \in Shared(q) : q.groups[g].spec = spec}

\* verify_and_split_kv_cache_groups: one entry for each spec, full attention
\* first, then as they come; one eagle group makes the entry one.
AttentionGroups(q) ==
    LET Rank(spec) == (IF spec.kind = "full" THEN 0 ELSE Len(q.groups))
                        + Min(Members(q, spec))
    IN  SetToSortSeq({[spec |-> spec, ids |-> Members(q, spec),
                       eagle |-> \E g \in Members(q, spec) : q.groups[g].eagle] :
                          spec \in Specs(q)},
                     LAMBDA a, b : Rank(a.spec) < Rank(b.spec))

\* The blocks that a hit of n blocks needs, one more when it is to be dropped.
Needs(spec, n, drop) ==
    IF n = 0 THEN {}
    ELSE CASE spec.kind = "full"   -> 1 .. n + drop
           [] spec.kind = "window" -> Max({1, n - spec.window + 1}) .. n + drop
           [] spec.kind = "mamba"  -> {n}

\* find_longest_cache_hit of a group's manager.
Held(q, a, length, drop) ==
    LET size == a.spec.size
    IN  Max({n * size : n \in {k \in 0 .. length \div size :
            /\ k * size % q.alignment = 0
            /\ \A g \in a.ids : Needs(a.spec, k, drop) \subseteq q.groups[g].held
            /\ \A b \in Needs(a.spec, k, drop) : b * size <= length}})

NotLookedUp == -1

\* One group of a pass over them.
Consider(q, as, s, i) ==
    LET a == as[i]
        drops == a.eagle /\ i \notin s.verified
        margin == IF drops /\ a.spec.kind # "mamba" THEN a.spec.size ELSE 0
        new == Held(q, a, Min({s.length + margin, q.max}), IF drops THEN 1 ELSE 0)
    IN  IF a.spec.kind = "full" /\ s.found[i] # NotLookedUp
        THEN [s EXCEPT !.length = Min({s.length, s.found[i]})]
        ELSE [length |-> new,
              found |-> [s.found EXCEPT ![i] = new],
              verified |-> IF drops THEN s.verified \cup {i}
                           ELSE IF new < s.length THEN {} ELSE s.verified,
              longest |-> Max({s.longest, new})]

Pass(q, as, s) ==
    FoldLeft(LAMBDA t, i : Consider(q, as, t, i), s, [i \in DOMAIN as |-> i])

\* Full attention and one other group: one pass will do.
SimpleHybrid(as) == Len(as) = 2 /\ as[1].spec.kind = "full"

RECURSIVE Reconcile(_, _, _)
Reconcile(q, as, s) ==
    LET t == Pass(q, as, s)
    IN  IF t.length >= s.length THEN [t EXCEPT !.length = s.length]
        ELSE IF SimpleHybrid(as) THEN t
        ELSE Reconcile(q, as, t)

\* find_longest_cache_hit: the length, what each group hands over, and how
\* much longer a prefix some group knew.
LongestHit(q) ==
    LET as == AttentionGroups(q)
        end == Reconcile(q, as, [length |-> q.max, longest |-> 0, verified |-> {},
                                 found |-> [i \in DOMAIN as |-> NotLookedUp]])
    IN  [length |-> end.length,
         found |-> [i \in DOMAIN as |->
                      IF i = 1 /\ as[1].spec.kind = "full" THEN Min({end.length, end.found[1]})
                      ELSE end.found[i]],
         uncached |-> end.longest - end.length]

\* cache_blocks: the blocks a request's computed tokens leave in the cache.  An
\* eagle group makes eagle groups of those with its spec.
CachedTokens(q, g, computed) ==
    LET aligned == (computed \div q.alignment) * q.alignment
        eagle == \E h \in Members(q, q.groups[g].spec) : q.groups[h].eagle
    IN  IF eagle /\ aligned > 0
        THEN Min({computed, aligned + q.groups[g].spec.size}) ELSE aligned
Cached(q, computed) ==
    [q EXCEPT !.groups = [g \in DOMAIN q.groups |->
        [q.groups[g] EXCEPT !.held =
            1 .. CachedTokens(q, g, computed) \div q.groups[g].spec.size]]]

(***************************************************************************)
(* allocate_new_computed_blocks.  An admission has hits (blocks of each    *)
(* group, in use or free), news (blocks each group needs besides) and the  *)
(* free list, whose first block goes first, whatever it holds.             *)
(***************************************************************************)
Touch(p, g) == [p EXCEPT !.free = SelectSeq(@, LAMBDA b : b \notin p.hits[g])]
Allocate(p, g) ==
    [p EXCEPT !.free = SubSeq(@, p.news[g] + 1, Len(@)),
              !.taken = @ \cup ToSet(SubSeq(p.free, 1, p.news[g]))]
\* Mutant: group by group.
TakeInTurn(p) ==
    FoldLeft(LAMBDA a, g : Allocate(Touch(a, g), g), p, [g \in DOMAIN p.hits |-> g])

TakeComputed(p) ==
    LET order == [g \in DOMAIN p.hits |-> g]
    IN  FoldLeft(Allocate, FoldLeft(Touch, p, order), order)

-----------------------------------------------------------------------------
(***************************************************************************)
(* What the above should be.                                               *)
(***************************************************************************)
Holds(q, length) ==
    \A g \in Shared(q) :
        LET spec == q.groups[g].spec
        IN  length % spec.size = 0
            /\ Needs(spec, length \div spec.size, 0) \subseteq q.groups[g].held

\* Full attention is looked up once, and cut only where it is the first entry.
KeepsMore(q, i) ==
    /\ i > 1
    /\ Len(AttentionGroups(q)) > 2
    /\ AttentionGroups(q)[i].spec.kind = "full"

\* Every group holds what the hit needs and hands over just that much, but for
\* full attention that is not cut; without eagle groups no longer hit exists.
HitFitsEveryGroup(q) ==
    LET hit == LongestHit(q)
    IN  /\ Holds(q, hit.length)
        /\ \A i \in DOMAIN hit.found :
              IF KeepsMore(q, i) THEN hit.found[i] >= hit.length ELSE hit.found[i] = hit.length
        /\ hit.uncached >= 0
        /\ hit.length > 0 => \A g \in Shared(q) :
              q.groups[g].eagle /\ q.groups[g].spec.kind # "mamba" =>
                hit.length \div q.groups[g].spec.size + 1 \in q.groups[g].held
        /\ (\A g \in Shared(q) : ~q.groups[g].eagle) =>
              \A n \in hit.length + 1 .. q.max : n % q.alignment = 0 => ~Holds(q, n)

\* What a request of so many tokens leaves behind is found by the next one: the
\* whole of it, but for the block an eagle group drops.
WhatIsCachedIsFound(q, computed) ==
    LET drop == Max({0} \cup {q.groups[g].spec.size : g \in {h \in Shared(q) :
                                   q.groups[h].eagle /\ q.groups[h].spec.kind # "mamba"}})
    IN  LongestHit(Cached(q, computed)).length
          >= ((Min({computed, q.max}) - drop) \div q.alignment) * q.alignment

\* No block of a hit is given away, and no block twice.
HitsAreNotGivenAway(p) ==
    LET end == TakeComputed(p)
    IN  /\ end.taken \cap UNION {p.hits[g] : g \in DOMAIN p.hits} = {}
        /\ Cardinality(end.taken) = MapThenSumSet(LAMBDA g : p.news[g], DOMAIN p.news)
=============================================================================
