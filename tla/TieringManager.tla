---------------------------- MODULE TieringManager ----------------------------
(***************************************************************************)
(* TieringOffloadingManager (v1/kv_offload/tiering/manager.py): a CPU tier *)
(* that the GPU loads from and stores to, over secondary tiers (storage,   *)
(* network) that exchange blocks with the CPU tier only.                   *)
(*                                                                         *)
(*   cascade    a block stored in the primary tier is copied to every      *)
(*              secondary one; the copy pins it (ref_cnt)                  *)
(*   promotion  a block found in a secondary tier gets a write-pending     *)
(*              slot of the primary at once, and is fetched by a job that  *)
(*              the end of the schedule submits                            *)
(*   expiry     a promotion, or a GPU store, that is not reported in time  *)
(*              loses its reservation                                      *)
(*                                                                         *)
(* m is the manager's state.  Its operations are functions of it, so that  *)
(* a handler that polls, completes, evicts and submits is one action.      *)
(* The secondary tiers (tiering/base.py) and the GPU's transfers are not   *)
(* in this module's source; they move data in steps of their own.          *)
(*                                                                         *)
(* The job counter only grows; here ids that nobody remembers are used     *)
(* again.  Timers are relative and count in ticks: a tick is a share of    *)
(* the time to live, such that TTL of them just exceed it.  Ages grow up   *)
(* to it, windows count down.                                              *)
(*                                                                         *)
(* A GPU store may be reported after its reservation expired.  The manager *)
(* does not tell: it asserts if a block is gone, and makes a block that    *)
(* was reserved again readable.  From then on the books of that block are  *)
(* wrong, and taken records it.                                            *)
(***************************************************************************)
EXTENDS Integers, FiniteSets, FiniteSetsExt, Functions

CONSTANTS
    Key,            \* OffloadKey
    Idle,           \* bound: keys only found idle in the primary tier at first
    NumSlots,       \* bound: num_blocks of the primary tier
    Tier,           \* secondary tiers
    RequestLevel,   \* those whose offload policy is REQUEST_LEVEL
    Remote,         \* those that serve readers on other nodes
    Request,        \* requests
    NoRequest,      \* stands for a reader on another node
    NumIds,         \* bound: job and batch ids remembered at once
    PromotionTTL,   \* VLLM_KV_OFFLOAD_PROMOTION_TTL_SECS, 0 disables
    FailTTL,        \* VLLM_KV_OFFLOAD_PROMOTION_FAIL_TTL_SECS, 0 disables
    StoreTTL,       \* VLLM_KV_OFFLOAD_STORE_PENDING_TTL_SECS, 0 disables
    MaxGpuJobs,     \* bound: GPU transfers in flight
    MaxBatch        \* bound: blocks of one of them

ASSUME TieringAssumption ==
    /\ IsFiniteSet(Key) /\ Idle \subseteq Key
    /\ IsFiniteSet(Request) /\ NoRequest \notin Request
    /\ IsFiniteSet(Tier) /\ RequestLevel \subseteq Tier /\ Remote \subseteq Tier
    /\ {NumSlots, NumIds, MaxGpuJobs, MaxBatch} \subseteq Nat
    /\ {PromotionTTL, FailTTL, StoreTTL} \subseteq Nat

VARIABLES
    m,          \* the manager, see MgrInit
    work,       \* job id -> the transfer a secondary tier makes of it
    gpu,        \* transfers between GPU and primary tier, as the connector
                \* tracks them
    closed,     \* requests the secondary tiers were told are finished
    num_blocks, \* slots of the primary tier, which stay
    crashed,    \* an assertion failed, and the engine with it
    taken       \* history: blocks made readable under the reservation of
                \* another transfer, since the last reset

vars == <<m, work, gpu, closed, num_blocks, crashed, taken>>
fate == <<num_blocks, crashed, taken>>

Slot == 0 .. NumSlots - 1
Id   == 0 .. NumIds - 1

Empty == [x \in {} |-> 0]
Without(f, S) == Restrict(f, DOMAIN f \ S)
Updated(f, g) ==
    [x \in DOMAIN f \cup DOMAIN g |-> IF x \in DOMAIN g THEN g[x] ELSE f[x]]

(***************************************************************************)
(* The primary tier, a table key -> [ref, slot]; ref is -1 while a slot is *)
(* filled.  CpuTier is about the counters and lists it keeps besides.      *)
(***************************************************************************)
Ready(p) == {k \in DOMAIN p : p[k].ref >= 0}
Pending(p) == DOMAIN p \ Ready(p)

SlotsOf(p, K) == [k \in K |-> p[k].slot]

\* n calls of prepare_load, also called prepare_read; n[k] of complete_load.
Pin(p, K, n) ==
    [k \in DOMAIN p |-> IF k \in K THEN [p[k] EXCEPT !.ref = @ + n] ELSE p[k]]
Unpin(p, n) == [k \in DOMAIN p |-> [p[k] EXCEPT !.ref = @ - n[k]]]

\* complete_store, also called complete_write, with and without success.
Fill(p, K) == [k \in DOMAIN p |->
                  IF k \in K \cap Pending(p) THEN [p[k] EXCEPT !.ref = 0] ELSE p[k]]
Drop(p, K) == Without(p, K \cap Pending(p))

EvictableIfRead(p, K) == Ready(p) \ K
Evictable(p, K) == {k \in Ready(p) \ K : p[k].ref = 0}

\* prepare_store, also called prepare_write: the tables that may come of
\* reserving the keys of K that are new.  It may refuse whenever it has to
\* evict: for want of idle blocks, or because of the policy.
Reservations(p, K) ==
    LET new == K \ DOMAIN p
        free == {i \in Slot : i < num_blocks} \ Range(SlotsOf(p, DOMAIN p))
        deficit == Max({0, Cardinality(new) - Cardinality(free)})
        Reserved(E, at) ==
            [k \in (DOMAIN p \ E) \cup new |->
                IF k \in new THEN [ref |-> -1, slot |-> at[k]] ELSE p[k]]
    IN  UNION {{Reserved(E, at) :
                   at \in Injection(new, free \cup Range(SlotsOf(p, E)))}
               : E \in kSubset(deficit, Evictable(p, K))}

-----------------------------------------------------------------------------
(***************************************************************************)
(* The manager.                                                            *)
(***************************************************************************)
MgrInit == [
    primary   |-> Empty,    \* primary_tier
    jobs      |-> Empty,    \* _jobs with _job_started_at: id ->
                            \*   [promo, tier, slots, req, age]
    queued    |-> {},       \* _pending_load_submissions: [tier, req, key, slot]
    failures  |-> Empty,    \* _promotion_failures: key -> ticks left
    retracted |-> {},       \* _retracted_job_ids
    drained   |-> {},       \* _drained_retracted_job_ids
    stores    |-> Empty,    \* _store_pending_deadline and _owner:
                            \*   key -> [req, batch, age]
    reqs      |-> Empty,    \* _req_state: request -> [stores, finished]
    polled    |-> FALSE]    \* _processed_jobs_this_step

Init ==
    /\ num_blocks \in 1 .. NumSlots
    /\ \E at \in Injection(Idle, {i \in Slot : i < num_blocks}) :
          m = [MgrInit EXCEPT !.primary = [k \in Idle |-> [ref |-> 0, slot |-> at[k]]]]
    /\ work = Empty
    /\ gpu = {}
    /\ closed = {}
    /\ crashed = FALSE
    /\ taken = {}

\* Ids in use or remembered, and the promotions that will need one.
NoId == -1
KnownIds(s, w, G) ==
    DOMAIN s.jobs \cup DOMAIN w \cup s.retracted \cup s.drained
      \cup {g.batch : g \in G}
Batches(s) == {<<q.tier, q.req>> : q \in s.queued}
HasIds(s, w, G, n) ==
    Cardinality(Id \ KnownIds(s, w, G)) >= n + Cardinality(Batches(s))

\* _next_job_id, once for each element of S.
NextJobIds(s, w, G, S) == CHOOSE f \in Injection(S, Id \ KnownIds(s, w, G)) : TRUE

\* _register_job for a set of new jobs, and the work they give the tiers.
Job(promo, t, slots, r) ==
    [promo |-> promo, tier |-> t, slots |-> slots, req |-> r, age |-> 0]
Register(s, new) == [s EXCEPT !.jobs = Updated(@, new)]
Started(new) ==
    [i \in DOMAIN new |-> [slots |-> new[i].slots, promo |-> new[i].promo,
                           done |-> FALSE, ok |-> {}]]

\* create_store_job for every tier of T: pins the keys, registers the jobs.
StoreJobs(s, w, G, K, r, T) ==
    LET id == NextJobIds(s, w, G, T)
    IN  [i \in Range(id) |->
            Job(FALSE, CHOOSE t \in T : id[t] = i, SlotsOf(s.primary, K), r)]
Cascade(s, new, K, T) ==
    Register([s EXCEPT !.primary = Pin(@, K, Cardinality(T))], new)

-----------------------------------------------------------------------------
(***************************************************************************)
(* Polling the secondary tiers.                                            *)
(***************************************************************************)
Reported == {i \in DOMAIN work : work[i].done}

\* _suppress_promotion_failures
SuppressNothing(f, K) == f
Suppress(f, K) == IF FailTTL = 0 THEN f ELSE Updated(f, [k \in K |-> FailTTL])

\* Reports about jobs that were retracted are ignored.
LateReports(s) == Reported \cap (s.retracted \cup s.drained)
KnownReports(s) == (Reported \cap DOMAIN s.jobs) \ LateReports(s)

\* The orders in which the tiers may report a set of jobs.
Orders(S) == Injection(S, 1 .. Cardinality(S))

\* The loop of _process_finished_jobs, with _complete_promotion.  A block may
\* be promoted twice at once, if it was taken: the first report then decides
\* what becomes of it, the last one whether a failure is remembered.
ConsumeReports(s, at) ==
    LET jobs == KnownReports(s)
        promos == {i \in jobs : s.jobs[i].promo}
        keys == UNION {DOMAIN s.jobs[i].slots : i \in promos}
        Of(k) == {i \in promos : k \in DOMAIN s.jobs[i].slots}
        good == {k \in keys : \E i \in Of(k) :
                    k \in work[i].ok /\ \A j \in Of(k) : at[i] <= at[j]}
        failed == {k \in keys : \E i \in Of(k) :
                    k \notin work[i].ok /\ \A j \in Of(k) : at[j] <= at[i]}
        Reads == [k \in Key |->
            Cardinality({i \in jobs \ promos : k \in DOMAIN s.jobs[i].slots})]
    IN  [s EXCEPT
            !.primary = Drop(Fill(Unpin(@, Reads), good), keys \ good),
            !.jobs = Without(@, jobs),
            !.failures = Suppress(Without(@, keys \ failed), failed),
            !.retracted = @ \ LateReports(s),
            !.drained = @ \ LateReports(s)]

\* _expire_stale_promotions
StalePromotionsAnyKind(s) ==
    {i \in DOMAIN s.jobs : PromotionTTL > 0}
StalePromotionsNever(s) == {}
StalePromotions(s) ==
    {i \in DOMAIN s.jobs :
        PromotionTTL > 0 /\ s.jobs[i].promo /\ s.jobs[i].age >= PromotionTTL}
ExpirePromotions(s) ==
    LET old == StalePromotions(s)
        keys == UNION {DOMAIN s.jobs[i].slots : i \in old}
    IN  [s EXCEPT
            !.primary = Drop(@, keys),
            !.jobs = Without(@, old),
            !.failures = Suppress(@, keys),
            !.retracted = @ \cup old]

\* _expire_stale_store_pends
StaleStores(s) == {k \in DOMAIN s.stores : s.stores[k].age >= StoreTTL}
ExpireStores(s) ==
    LET old == StaleStores(s)
    IN  [s EXCEPT
            !.primary = Drop(@, old),
            !.stores = Without(@, old),
            !.retracted = @ \cup {s.stores[k].batch : k \in old}]

\* _process_finished_jobs and _maybe_process_finished_jobs, as the set of what
\* they may come to: an action binds it with \E.
Process(s) ==
    {ExpireStores(s2) : s2 \in {ExpirePromotions(s1) :
        s1 \in {ConsumeReports(s, at) : at \in Orders(KnownReports(s))}}}
Polled == IF m.polled THEN {m} ELSE Process([m EXCEPT !.polled = TRUE])
WorkPolled == IF m.polled THEN work ELSE Without(work, Reported)

-----------------------------------------------------------------------------
(***************************************************************************)
(* Operations of the connector.                                            *)
(***************************************************************************)
OnNewRequest(r) ==
    /\ r \notin DOMAIN m.reqs \cup closed
    /\ m' = [m EXCEPT !.reqs =
                Updated(@, [x \in {r} |-> [stores |-> 0, finished |-> FALSE]])]
    /\ UNCHANGED <<work, gpu, closed, fate>>

\* lookup, which asks the tiers in turn; the first that holds the key and is
\* not suppressed yields it.  _initiate_promotion reserves the slot.
CanPromote(s, k) == k \notin DOMAIN s.primary /\ k \notin DOMAIN s.failures

\* A lookup, or a prepare_store that is refused, which only polls.
LookupAnswers ==
    /\ ~m.polled
    /\ m' \in Polled
    /\ work' = WorkPolled
    /\ UNCHANGED <<gpu, closed, fate>>

LookupPromotes(r, t, k) ==
    /\ \E s \in Polled :
          /\ r \in DOMAIN s.reqs /\ ~s.reqs[r].finished
          /\ CanPromote(s, k)
          /\ <<t, r>> \in Batches(s) \/ HasIds(s, WorkPolled, gpu, 1)
          /\ \E p \in Reservations(s.primary, {k}) :
                m' = [s EXCEPT
                        !.primary = p,
                        !.queued = @ \cup {[tier |-> t, req |-> r, key |-> k,
                                            slot |-> p[k].slot]}]
    /\ work' = WorkPolled
    /\ UNCHANGED <<gpu, closed, fate>>

\* prepare_load, of blocks that the step's lookups found ready.  A transfer
\* that stores has, besides what the connector knows of it, the id its
\* reservation got: it tells whether that reservation still stands.
Transfer(kind, p, K, r, batch) ==
    [kind |-> kind, slots |-> SlotsOf(p, K), req |-> r, batch |-> batch]

PrepareLoad(r, K) ==
    /\ r \in DOMAIN m.reqs /\ ~m.reqs[r].finished
    /\ K \subseteq Ready(m.primary)
    /\ Transfer("load", m.primary, K, r, NoId) \notin gpu
    /\ Cardinality(gpu) < MaxGpuJobs
    /\ m' = [m EXCEPT !.primary = Pin(@, K, 1)]
    /\ gpu' = gpu \cup {Transfer("load", m.primary, K, r, NoId)}
    /\ UNCHANGED <<work, closed, fate>>

\* What the workers report is consumed between two schedules, when no
\* promotion is queued (update_connector_output).
CompleteLoad(g) ==
    /\ g.kind = "load" /\ m.queued = {}
    /\ m' = [m EXCEPT !.primary =
                Unpin(@, [k \in Key |-> IF k \in DOMAIN g.slots THEN 1 ELSE 0])]
    /\ gpu' = gpu \ {g}
    /\ UNCHANGED <<work, closed, fate>>

\* prepare_store.  New keys are reserved; the others, if ready, go to the
\* tiers that want whole requests, in _cascade_existing_blocks_to_....
Deadlines(r, new, batch) ==
    [k \in new |-> [req |-> r, batch |-> batch, age |-> 0]]
ReserveUncounted(s, p, r, new, batch) ==
    [s EXCEPT !.primary = p,
              !.stores = IF StoreTTL > 0 THEN Updated(@, Deadlines(r, new, batch))
                                         ELSE @]
Reserve(s, p, r, new, batch) ==
    IF new = {} THEN s
    ELSE [s EXCEPT !.primary = p,
                   !.reqs[r].stores = @ + 1,
                   !.stores = IF StoreTTL > 0
                              THEN Updated(@, Deadlines(r, new, batch)) ELSE @]

PrepareStore(r, K) ==
    /\ Cardinality(gpu) < MaxGpuJobs
    /\ \E s \in Polled, w \in {WorkPolled} :
          LET new == K \ DOMAIN s.primary
              old == K \cap Ready(s.primary)
              T == IF old = {} THEN {} ELSE RequestLevel
              batch == NextJobIds(s, w, gpu, {r})[r]
          IN  /\ r \in DOMAIN s.reqs /\ ~s.reqs[r].finished
              /\ HasIds(s, w, gpu, 1 + Cardinality(T))
              /\ \E p \in Reservations(s.primary, K) :
                 \E s1 \in {Reserve(s, p, r, new, batch)} :
                    /\ gpu' = IF new = {} THEN gpu
                              ELSE gpu \cup {Transfer("store", p, new, r, batch)}
                    /\ \E jobs \in {StoreJobs(s1, w, gpu', old, r, T)} :
                          /\ m' = Cascade(s1, jobs, old, T)
                          /\ work' = Updated(w, Started(jobs))
    /\ UNCHANGED <<closed, fate>>

\* _maybe_finalize_request
DoneAtOnce(s, r) == r \in DOMAIN s.reqs /\ s.reqs[r].finished
Done(s, r) == r \in DOMAIN s.reqs /\ s.reqs[r].finished /\ s.reqs[r].stores = 0
Finalize(s, R) == [s EXCEPT !.reqs = Without(@, R)]
FinalizeIfDone(s, r) == IF Done(s, r) THEN Finalize(s, {r}) ELSE s

\* Is the reservation of k the one that g got?
Holds(s, g, k) ==
    StoreTTL > 0 => k \in DOMAIN s.stores /\ s.stores[k].batch = g.batch

\* complete_store.  It does not ask whose reservation it ends: a block that is
\* reserved again, by a promotion or another store, becomes readable and is
\* cascaded, and loses the deadline of its new owner.
CompleteStore(g) ==
    LET K == DOMAIN g.slots
        s == [m EXCEPT !.primary = Fill(@, K), !.stores = Without(@, K)]
        jobs == StoreJobs(s, work, gpu \ {g}, K, g.req, Tier)
        s1 == [Cascade(s, jobs, K, Tier) EXCEPT !.reqs[g.req].stores = @ - 1]
    IN  /\ g.kind = "store" /\ m.queued = {}
        /\ Tier # {} => K \subseteq DOMAIN m.primary
        /\ HasIds(s, work, gpu \ {g}, Cardinality(Tier))
        /\ m' = FinalizeIfDone(s1, g.req)
        /\ work' = Updated(work, Started(jobs))
        /\ gpu' = gpu \ {g}
        /\ closed' = IF Done(s1, g.req) THEN closed \cup {g.req} ELSE closed
        /\ taken' = taken \cup {k \in K \cap Pending(m.primary) : ~Holds(m, g, k)}
        /\ UNCHANGED <<num_blocks, crashed>>

\* A block to cascade is gone: prepare_read asserts, in the engine's step.
CompleteStoreAsserts(g) ==
    /\ g.kind = "store" /\ m.queued = {}
    /\ Tier # {} /\ ~(DOMAIN g.slots \subseteq DOMAIN m.primary)
    /\ crashed' = TRUE
    /\ UNCHANGED <<m, work, gpu, closed, num_blocks, taken>>

OnRequestFinished(r) ==
    /\ r \in DOMAIN m.reqs /\ ~m.reqs[r].finished
    /\ LET s == [m EXCEPT !.reqs[r].finished = TRUE]
       IN  /\ m' = FinalizeIfDone(s, r)
           /\ closed' = IF Done(s, r) THEN closed \cup {r} ELSE closed
    /\ UNCHANGED <<work, gpu, fate>>

\* on_schedule_end: serves a reader on another node, if there is one, then
\* submits the promotions, one job for each tier and request
\* (_flush_pending_promotions).  build_connector_meta drains the ids to flush
\* right after it (drain_flush_job_ids).
PromotionJobs(s, w) ==
    LET id == NextJobIds(s, w, gpu, Batches(s))
    IN  [i \in Range(id) |->
            LET b == CHOOSE x \in Batches(s) : id[x] = i
                qs == {q \in s.queued : <<q.tier, q.req>> = b}
            IN  Job(TRUE, b[1], [k \in {q.key : q \in qs} |->
                       (CHOOSE q \in qs : q.key = k).slot], b[2])]

DrainForgets(s) == s.drained
Drain(s) == s.drained \cup s.retracted
Flushed(s, w) ==
    [Register(s, PromotionJobs(s, w)) EXCEPT
        !.queued = {}, !.polled = FALSE,
        !.drained = Drain(s), !.retracted = {}]

EndOfSchedule(s, w) ==
    /\ m' = Flushed(s, w)
    /\ work' = Updated(w, Started(PromotionJobs(s, w)))
    /\ UNCHANGED <<gpu, closed, fate>>

OnScheduleEnd ==
    \E s \in Polled, w \in {WorkPolled} : EndOfSchedule(s, w)

OnScheduleEndServing(t, K) ==
    \E s \in Polled, w \in {WorkPolled} :
       /\ K \subseteq Ready(s.primary)
       /\ HasIds(s, w, gpu, 1)
       /\ \E jobs \in {StoreJobs(s, w, gpu, K, NoRequest, {t})} :
             EndOfSchedule(Cascade(s, jobs, K, {t}), Updated(w, Started(jobs)))

\* drain_flush_job_ids forgets an id after ten minutes; a transfer that is
\* still running then is out of the model.
ForgetDrained(i) ==
    /\ i \in m.drained \ DOMAIN work
    /\ m' = [m EXCEPT !.drained = @ \ {i}]
    /\ UNCHANGED <<work, gpu, closed, fate>>

\* reset_cache, once drain_jobs returned for every tier.
Reset ==
    /\ DOMAIN m.jobs \subseteq Reported /\ Reported = DOMAIN work
    /\ \E s \in Process(m) :
          LET ended == {r \in DOMAIN s.reqs : s.reqs[r].finished}
          IN  /\ m' = [s EXCEPT
                         !.primary = Empty, !.queued = {}, !.stores = Empty,
                         !.polled = FALSE,
                         !.reqs = [r \in DOMAIN @ \ ended |->
                                      [stores |-> 0, finished |-> FALSE]]]
              /\ closed' = closed \cup ended
    /\ work' = Empty
    /\ gpu' = {}
    /\ taken' = {}
    /\ UNCHANGED <<num_blocks, crashed>>

-----------------------------------------------------------------------------
(***************************************************************************)
(* The secondary tiers and time.                                           *)
(***************************************************************************)
\* A tier ends a transfer; of a promotion it may have got only some blocks.
Report(i, ok) ==
    /\ ~work[i].done
    /\ work[i].promo \/ ok = {}
    /\ work' = [work EXCEPT ![i].done = TRUE, ![i].ok = ok]
    /\ UNCHANGED <<m, gpu, closed, fate>>

\* A promotion gets stuck and is never heard of again.
Lose(i) ==
    /\ work[i].promo /\ ~work[i].done
    /\ work' = Without(work, {i})
    /\ UNCHANGED <<m, gpu, closed, fate>>

Older(x, ttl) == IF x.age >= ttl THEN x ELSE [x EXCEPT !.age = @ + 1]
Tick ==
    /\ m' = [m EXCEPT
               !.jobs = [i \in DOMAIN @ |->
                            IF @[i].promo THEN Older(@[i], PromotionTTL) ELSE @[i]],
               !.stores = [k \in DOMAIN @ |-> Older(@[k], StoreTTL)],
               !.failures = [k \in {x \in DOMAIN @ : @[x] > 1} |-> @[k] - 1]]
    /\ m' # m
    /\ UNCHANGED <<work, gpu, closed, fate>>

Batch == UNION {kSubset(n, Key \ Idle) : n \in 1 .. MaxBatch}

Step ==
    \/ \E r \in Request :
          \/ OnNewRequest(r)
          \/ OnRequestFinished(r)
          \/ \E t \in Tier, k \in Key \ Idle : LookupPromotes(r, t, k)
          \/ \E K \in Batch : PrepareLoad(r, K) \/ PrepareStore(r, K)
    \/ \E g \in gpu : CompleteLoad(g) \/ CompleteStore(g) \/ CompleteStoreAsserts(g)
    \/ LookupAnswers
    \/ OnScheduleEnd
    \/ \E t \in Remote, K \in Batch : OnScheduleEndServing(t, K)
    \/ \E i \in Id : ForgetDrained(i)
    \/ \E i \in DOMAIN work :
          Lose(i) \/ \E ok \in SUBSET DOMAIN work[i].slots : Report(i, ok)
    \/ Reset
    \/ Tick

\* Nothing runs after a failed assertion.
Down == crashed /\ UNCHANGED vars

Next == (~crashed /\ Step) \/ Down

\* Time passes, and the engine steps again while promotions are queued or
\* some reservation is overdue (has_pending_work, and the connector's jobs).
Overdue ==
    \/ m.queued # {}
    \/ StalePromotions(m) # {}
    \/ StaleStores(m) # {}

Spec == Init /\ [][Next]_vars
FairSpec ==
    /\ Spec
    /\ WF_vars(~crashed /\ Tick)
    /\ WF_vars(~crashed /\ Overdue /\ OnScheduleEnd)

-----------------------------------------------------------------------------
(***************************************************************************)
(* Properties.                                                             *)
(***************************************************************************)
StateOK ==
    /\ num_blocks \in 1 .. NumSlots
    /\ \A k \in DOMAIN m.primary :
          k \in Key /\ m.primary[k].ref \in Nat \cup {-1} /\ m.primary[k].slot \in Slot
    /\ DOMAIN m.jobs \cup DOMAIN work \cup m.retracted \cup m.drained \subseteq Id
    /\ \A i \in DOMAIN m.jobs :
          m.jobs[i].tier \in Tier /\ m.jobs[i].req \in Request \cup {NoRequest}
    /\ \A r \in DOMAIN m.reqs : r \in Request /\ m.reqs[r].stores \in Nat
    /\ \A g \in gpu : DOMAIN g.slots # {} /\ g.req \in Request

\* What holds a reservation of k, and what reads its block.
Queued(k) == {q \in m.queued : q.key = k}
Promoting(k) == {i \in DOMAIN m.jobs : m.jobs[i].promo /\ k \in DOMAIN m.jobs[i].slots}
Storing(k) ==
    {g \in gpu : g.kind = "store" /\ k \in DOMAIN g.slots /\ Holds(m, g, k)}
Cascading(k) ==
    {i \in DOMAIN m.jobs : ~m.jobs[i].promo /\ k \in DOMAIN m.jobs[i].slots}
Loading(k) == {g \in gpu : g.kind = "load" /\ k \in DOMAIN g.slots}

\* The pins of a block are the reads in flight, and nothing else is read
\* (create_store_job and complete_read, prepare_load and complete_load).  A
\* block that is being filled has exactly one owner that will fill or drop it
\* (a queued promotion, a promotion in flight, or a GPU store), and no other
\* block has one (prepare_write and complete_write).  A late store breaks the
\* latter for the blocks it takes, and for no other.
ReservationsOwned ==
    \A k \in Key :
        LET owners == Cardinality(Queued(k)) + Cardinality(Promoting(k))
                        + Cardinality(Storing(k))
            readers == Cardinality(Cascading(k)) + Cardinality(Loading(k))
        IN  /\ readers = IF k \in Ready(m.primary) THEN m.primary[k].ref ELSE 0
            /\ k \notin taken => owners = IF k \in Pending(m.primary) THEN 1 ELSE 0

\* No two blocks share a slot, and a transfer moves data of blocks that are
\* where they were when it began: every read, and every write but those of
\* expired reservations and of blocks that a late store took.
TransfersKeepTheirSlots ==
    LET At(k, slots) == k \in DOMAIN m.primary /\ m.primary[k].slot = slots[k]
    IN  /\ IsInjective(SlotsOf(m.primary, DOMAIN m.primary))
        /\ \A k \in Key :
              /\ \A i \in Cascading(k) : At(k, m.jobs[i].slots)
              /\ \A g \in Loading(k) : At(k, g.slots)
              /\ k \notin taken =>
                    /\ \A q \in Queued(k) : At(k, [x \in {k} |-> q.slot])
                    /\ \A i \in Promoting(k) : At(k, m.jobs[i].slots)
                    /\ \A g \in Storing(k) : At(k, g.slots)

\* Every report of a tier finds its job, or finds it among the retracted ones
\* (the assert of _process_finished_jobs); a GPU store that ends finds its
\* request with a pending store (complete_store), and its blocks, unless their
\* reservations expired or a late store took them; and an id never means two
\* things at once.
AssertionsHold ==
    /\ \A i \in DOMAIN work : i \in DOMAIN m.jobs \cup m.retracted \cup m.drained
    /\ DOMAIN m.jobs \cap (m.retracted \cup m.drained) = {}
    /\ \A r \in Request :
          LET n == Cardinality({g \in gpu : g.kind = "store" /\ g.req = r})
          IN  n = IF r \in DOMAIN m.reqs THEN m.reqs[r].stores ELSE 0
    /\ crashed => \E g \in gpu : \E k \in DOMAIN g.slots \ DOMAIN m.primary :
                     g.kind = "store" /\ (k \in taken \/ ~Holds(m, g, k))

\* The tiers are told once that a request is finished, and get no block of it
\* afterwards (_maybe_finalize_request).
NothingAfterFinalization ==
    [][/\ closed \subseteq closed'
       /\ closed \cap DOMAIN m'.reqs = {}
       /\ \A i \in DOMAIN m'.jobs \ DOMAIN m.jobs :
             m'.jobs[i].promo \/ m'.jobs[i].req \notin closed]_vars

\* A key whose promotion failed or expired is not promoted again before its
\* window ends, in particular not by the lookup that found out, unless a late
\* store took its block.
FailedPromotionsWait ==
    [][\A q \in {q \in m'.queued \ m.queued : q.key \notin taken} :
          /\ q.key \notin DOMAIN m.failures
          /\ ~\E i \in DOMAIN m.jobs \ DOMAIN m'.jobs :
                m.jobs[i].promo /\ q.key \in DOMAIN m.jobs[i].slots]_vars

\* The slot of an expired transfer that still runs goes to no other block
\* before the flush that waits for it has left (drain_flush_job_ids).
FlushBeforeReuse ==
    LET Writes == {work[i].slots : i \in {i \in DOMAIN work \cap m.retracted : ~work[i].done}}
                    \cup {g.slots : g \in {g \in gpu : g.batch \in m.retracted}}
    IN  \A slots \in Writes, k \in DOMAIN m.primary :
            m.primary[k].slot \in Range(slots) => k \in DOMAIN slots

\* Every reservation is resolved, whatever gets lost: blocks do not stay
\* HIT_PENDING (the two expiry scans, run at least once a step).
ReservationsResolve ==
    \A k \in Key \ Idle : []<>(crashed \/ k \notin Pending(m.primary))

\* What the code says of stores that end, and late ones break: the blocks to
\* cascade are there (the assertion of prepare_read) ...
StoresFindTheirBlocks == ~crashed

\* ... and are in the primary tier by then (complete_store): no transfer is
\* still to fill a block that is read.
ReadBlocksAreFilled ==
    \A k \in Key :
        Queued(k) # {} \/ Promoting(k) # {} => Cascading(k) = {} /\ Loading(k) = {}

\* The three claims about expired transfers, as weakly as can be: one of them
\* holds throughout.  A behaviour that violates this violates each.
ExpiryIsHarmless ==
    []FlushBeforeReuse \/ []StoresFindTheirBlocks \/ []ReadBlocksAreFilled
=============================================================================
