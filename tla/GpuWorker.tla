------------------------------ MODULE GpuWorker -------------------------------
(***************************************************************************)
(* The GPU worker of the CPU tier (v1/kv_offload/cpu/gpu_worker.py): two   *)
(* directions, each with a queue of transfers on streams of their own.     *)
(*                                                                         *)
(* A transfer takes a stream, two events and a buffer for its descriptors  *)
(* from the pools of its direction; it waits, on the device, for the       *)
(* compute stream and for the end event of the transfer before it.  An     *)
(* event is done when the transfer that recorded it last has run.          *)
(*                                                                         *)
(* The worker is one thread.  It blocks in wait; the device runs on.       *)
(* A transfer whose copies the driver refuses raises out of submit, which  *)
(* ends the worker: it is shut down, and the shared region cleaned up.     *)
(*                                                                         *)
(* Which bytes the descriptors name is in CopyDescriptors.                 *)
(***************************************************************************)
EXTENDS Integers, Sequences, FiniteSets, FiniteSetsExt, Functions

CONSTANTS
    Job,        \* job ids, each submitted once
    NoJob,
    OpLists,    \* the descriptors of a transfer, as a sequence of kinds:
                \*   "plain"   the driver takes it
                \*   "hidden"  it takes it when the direction is explicit
                \*   "seam"    it takes it split where two registered ranges meet
                \*   "poison"  it refuses it
    SwapCap     \* _SWAP_CAP

ASSUME WorkerAssumption ==
    /\ IsFiniteSet(Job) /\ NoJob \notin Job
    /\ SwapCap \in Nat \ {0}
    /\ \A ops \in OpLists :
          ops \in Seq({"plain", "hidden", "seam", "poison"}) /\ Len(ops) > 0

Direction == {"store", "load"}

VARIABLES
    queue,      \* direction -> _transfers: [job, stream, start, end, buf]
    eventOf,    \* direction -> _transfer_events: job -> event
    pool,       \* direction -> [streams, events, buffers]
    events,     \* event -> job that recorded it last
    buffers,    \* buffer -> [size, job]: who wrote descriptors to it last
    numStreams, \* streams made so far
    sticky,     \* _SwapDiag.sticky
    device,     \* job -> [dir, after, gated, buf, ops, copies]: work enqueued
    done,       \* jobs that ran on the device
    compute,    \* is there work in the compute stream?
    waiting,    \* jobs the worker thread waits for
    state,      \* direction -> "up", "down" or "failed"
    broken,     \* the job whose transfer raised, or NoJob
    region      \* "mapped", "clean", or "forced": unmapped after a failed sync

handlerVars == <<queue, eventOf, pool, events, buffers, numStreams>>
deviceVars == <<device, done, compute>>
vars == <<handlerVars, sticky, deviceVars, waiting, state, broken, region>>

Init ==
    /\ queue = [d \in Direction |-> <<>>]
    /\ eventOf = [d \in Direction |-> [j \in {} |-> 0]]
    /\ pool = [d \in Direction |-> [streams |-> {}, events |-> {}, buffers |-> {}]]
    /\ events = <<>>
    /\ buffers = <<>>
    /\ numStreams = 0
    /\ sticky = FALSE
    /\ device = [j \in {} |-> 0]
    /\ done = {}
    /\ compute = FALSE
    /\ waiting = {}
    /\ state = [d \in Direction |-> "up"]
    /\ broken = NoJob
    /\ region = "mapped"

Up == state = [d \in Direction |-> "up"] /\ broken = NoJob
Free == Up /\ waiting = {}

-----------------------------------------------------------------------------
(***************************************************************************)
(* _SwapDiag: descriptors go to the driver in batches of SwapCap.  A batch *)
(* it rejects is done again in full, one descriptor at a time, and so is   *)
(* everything after the transfer in which that happened.                   *)
(***************************************************************************)
Span(ops, n) == n * SwapCap + 1 .. Min({(n + 1) * SwapCap, Len(ops)})
Spans(ops) == {Span(ops, n) : n \in 0 .. Len(ops) - 1}

\* The batch call takes a span, or raises.
Accepts(ops, I) == \A i \in I : ops[i] = "plain"

\* _run_per_entry: a plain copy, an explicit one, and one split at the seam.
Copies(kind) == kind \in {"plain", "hidden", "seam"}
PerEntry(ops, I) == {i \in I : Copies(ops[i])}

Rejected(ops) == {I \in Spans(ops) : ~Accepts(ops, I)}
Recovered(ops) == {I \in Rejected(ops) : \A i \in 1 .. Max(I) : Copies(ops[i])}
Singly(ops) == IF sticky THEN DOMAIN ops ELSE UNION Rejected(ops)

\* dispatcher and _recover: the descriptors copied in the end.
Copied(ops) ==
    (UNION {I \in Spans(ops) : I \cap Singly(ops) = {}})
        \cup PerEntry(ops, Singly(ops))
Raises(ops) == PerEntry(ops, Singly(ops)) # Singly(ops)

-----------------------------------------------------------------------------
(***************************************************************************)
(* SingleDirectionOffloadingHandler.transfer_async                         *)
(***************************************************************************)
\* The pooled buffers of the largest size that fits n descriptors.
BestBuffers(d, n) ==
    LET fit == {b \in pool[d].buffers : buffers[b].size >= n}
    IN  {b \in fit : \A c \in fit : buffers[c].size <= buffers[b].size}

\* A pooled resource, or else one made for the transfer.  Which of several
\* that are as good is not said.
Stream(d) ==
    IF pool[d].streams = {} THEN numStreams + 1 ELSE CHOOSE s \in pool[d].streams : TRUE
Buffer(d, n) ==
    IF BestBuffers(d, n) = {} THEN Len(buffers) + 1
    ELSE CHOOSE b \in BestBuffers(d, n) : TRUE
EventPair(d) ==
    LET p == pool[d].events
        e == Len(events)
    IN  CASE Cardinality(p) >= 2 -> CHOOSE q \in p \X p : q[1] # q[2]
          [] Cardinality(p) = 1 -> <<CHOOSE x \in p : TRUE, e + 1>>
          [] OTHER -> <<e + 1, e + 2>>

\* f with x at i, which may be new.
Put(f, i, x) == [k \in DOMAIN f \cup {i} |-> IF k = i THEN x ELSE f[k]]

\* Mutant: the buffer of a transfer stays in the pool.
TakenButTheBuffer(d, s, ev, b) ==
    [pool EXCEPT ![d] = [@ EXCEPT !.streams = @ \ {s}, !.events = @ \ {ev[1], ev[2]}]]

Taken(d, s, ev, b) ==
    [pool EXCEPT ![d] = [streams |-> @.streams \ {s},
                         events |-> @.events \ {ev[1], ev[2]},
                         buffers |-> @.buffers \ {b}]]

\* Mutant: a transfer is not ordered after the one before it.
AfterNothing(d) == NoJob

\* wait_event on the last transfer of the direction.
After(d) ==
    IF queue[d] = <<>> THEN NoJob ELSE events[queue[d][Len(queue[d])].end]

Acquire(d, j, ops, s, ev, b) ==
    /\ pool' = Taken(d, s, ev, b)
    /\ numStreams' = Max({numStreams, s})
    /\ buffers' = Put(buffers, b,
                      [size |-> IF b \in DOMAIN buffers THEN buffers[b].size
                                ELSE Len(ops), job |-> j])

Submit(d, j, ops) ==
    /\ Free
    /\ j \notin DOMAIN device \cup done
    /\ ~Raises(ops)
    /\ \E s \in {Stream(d)}, ev \in {EventPair(d)}, b \in {Buffer(d, Len(ops))} :
          /\ Acquire(d, j, ops, s, ev, b)
          /\ events' = Put(Put(events, ev[1], j), ev[2], j)
          /\ eventOf' = [eventOf EXCEPT ![d] = Put(@, j, ev[2])]
          /\ queue' = [queue EXCEPT ![d] =
                Append(@, [job |-> j, stream |-> s, start |-> ev[1],
                           end |-> ev[2], buf |-> b])]
          /\ device' = Put(device, j,
                [dir |-> d, after |-> After(d), gated |-> compute, buf |-> b,
                 ops |-> DOMAIN ops, copies |-> Copied(ops)])
    /\ sticky' = (sticky \/ Recovered(ops) # {})
    /\ UNCHANGED <<done, compute, waiting, state, broken, region>>

\* What the transfer took is lost with it.  Part of it may be enqueued; which
\* part makes no difference.
SubmitRaises(d, j, ops) ==
    /\ Free
    /\ j \notin DOMAIN device \cup done
    /\ Raises(ops)
    /\ \E s \in {Stream(d)}, ev \in {EventPair(d)}, b \in {Buffer(d, Len(ops))} :
          /\ Acquire(d, j, ops, s, ev, b)
          /\ events' = Put(Put(events, ev[1], j), ev[2], j)
          /\ device' = Put(device, j,
                [dir |-> d, after |-> After(d), gated |-> compute, buf |-> b,
                 ops |-> {}, copies |-> {}])
    /\ sticky' = (sticky \/ Recovered(ops) # {})
    /\ broken' = j
    /\ UNCHANGED <<queue, eventOf, done, compute, waiting, state, region>>

-----------------------------------------------------------------------------
(***************************************************************************)
(* get_finished, wait and shutdown.                                        *)
(***************************************************************************)
Query(e) == events[e] \in done

\* Mutant: the youngest transfer is left for the next one.
NumFinishedButLast(d) ==
    Cardinality({n \in DOMAIN queue[d] : /\ n < Len(queue[d])
                                        /\ \A i \in 1 .. n : Query(queue[d][i].end)})

\* The transfers get_finished pops: those before the first whose end event is
\* not done.
NumFinished(d) ==
    Cardinality({n \in DOMAIN queue[d] : \A i \in 1 .. n : Query(queue[d][i].end)})
Finished(d) == SubSeq(queue[d], 1, NumFinished(d))

Released(p, ts) ==
    [streams |-> p.streams \cup {ts[i].stream : i \in DOMAIN ts},
     events |-> p.events \cup {ts[i].start : i \in DOMAIN ts}
                         \cup {ts[i].end : i \in DOMAIN ts},
     buffers |-> p.buffers \cup {ts[i].buf : i \in DOMAIN ts}]

GetFinished ==
    /\ Free
    /\ \E d \in Direction : NumFinished(d) > 0
    /\ pool' = [d \in Direction |-> Released(pool[d], Finished(d))]
    /\ eventOf' = [d \in Direction |->
          Restrict(eventOf[d], DOMAIN eventOf[d]
                                 \ {Finished(d)[i].job : i \in 1 .. NumFinished(d)})]
    /\ queue' = [d \in Direction |->
          SubSeq(queue[d], NumFinished(d) + 1, Len(queue[d]))]
    /\ UNCHANGED <<events, buffers, numStreams, sticky, deviceVars, waiting,
                   state, broken, region>>

\* wait synchronizes with the end event of each job it knows.
Wait(J) ==
    /\ Free
    /\ waiting' = J
    /\ UNCHANGED <<handlerVars, sticky, deviceVars, state, broken, region>>

\* Mutant: only stores are waited for.
KnownStores(d, J) == IF d = "store" THEN J \cap DOMAIN eventOf[d] ELSE {}

Known(d, J) == J \cap DOMAIN eventOf[d]
WaitReturns ==
    /\ waiting # {}
    /\ \A d \in Direction : \A j \in Known(d, waiting) : Query(eventOf[d][j])
    /\ waiting' = {}
    /\ UNCHANGED <<handlerVars, sticky, deviceVars, state, broken, region>>

\* Mutant: the oldest transfer only.
DrainedOldest(d) == queue[d] # <<>> => Query(queue[d][1].end)

\* SingleDirectionOffloadingHandler.shutdown, for the stores first.  It drains
\* the queue; when synchronizing fails it gives up on what is left.
Drained(d) == \A i \in DOMAIN queue[d] : Query(queue[d][i].end)
Turn(d) == state[d] = "up" /\ (d = "load" => state["store"] # "up")

ShutdownDirection(d, outcome) ==
    /\ waiting = {} /\ Turn(d)
    /\ IF outcome = "down" THEN Drained(d) ELSE ~Drained(d)
    /\ state' = [state EXCEPT ![d] = outcome]
    /\ queue' = [queue EXCEPT ![d] = <<>>]
    /\ eventOf' = [eventOf EXCEPT ![d] = [j \in {} |-> 0]]
    /\ pool' = [pool EXCEPT ![d] = [streams |-> {}, events |-> {}, buffers |-> {}]]
    /\ UNCHANGED <<events, buffers, numStreams, sticky, deviceVars, waiting,
                   broken, region>>

ContinueShutdown ==
    state["store"] # "up" /\ \E outcome \in {"down", "failed"} :
        ShutdownDirection("load", outcome)

\* CPUOffloadingWorker.shutdown: the region is cleaned up last, after a
\* synchronization of the whole device if a direction failed.
Quiet == DOMAIN device = {}
Unmap(outcome) ==
    /\ region = "mapped"
    /\ \A d \in Direction : state[d] # "up"
    /\ IF \E d \in Direction : state[d] = "failed"
       THEN Quiet \/ outcome = "forced"
       ELSE outcome = "clean"
    /\ region' = outcome
    /\ UNCHANGED <<handlerVars, sticky, deviceVars, waiting, state, broken>>

-----------------------------------------------------------------------------
(***************************************************************************)
(* The device.                                                             *)
(***************************************************************************)
\* The model's work, queued between transfers.
Enqueue ==
    /\ Free /\ ~compute
    /\ compute' = TRUE
    /\ UNCHANGED <<handlerVars, sticky, device, done, waiting, state, broken, region>>

ComputeRuns ==
    /\ compute
    /\ compute' = FALSE
    /\ device' = [j \in DOMAIN device |-> [device[j] EXCEPT !.gated = FALSE]]
    /\ UNCHANGED <<handlerVars, sticky, done, waiting, state, broken, region>>

Runnable(j) == ~device[j].gated /\ device[j].after \in done \cup {NoJob}

TransferRuns(j) ==
    /\ Runnable(j)
    /\ device' = Restrict(device, DOMAIN device \ {j})
    /\ done' = done \cup {j}
    /\ UNCHANGED <<handlerVars, sticky, compute, waiting, state, broken, region>>

Next ==
    \/ \E d \in Direction, j \in Job, ops \in OpLists :
          Submit(d, j, ops) \/ SubmitRaises(d, j, ops)
    \/ GetFinished
    \/ \E J \in (SUBSET Job) \ {{}} : Wait(J)
    \/ WaitReturns
    \/ \E d \in Direction, outcome \in {"down", "failed"} :
          ShutdownDirection(d, outcome)
    \/ \E outcome \in {"clean", "forced"} : Unmap(outcome)
    \/ Enqueue
    \/ ComputeRuns
    \/ \E j \in DOMAIN device : TransferRuns(j)

Spec == Init /\ [][Next]_vars

\* The device works, the worker is polled after each step's waits, and a
\* shutdown that began goes on.
FairSpec ==
    /\ Spec
    /\ WF_vars(ComputeRuns) /\ WF_vars(\E j \in DOMAIN device : TransferRuns(j))
    /\ SF_vars(GetFinished) /\ WF_vars(WaitReturns)
    /\ WF_vars(ContinueShutdown)

-----------------------------------------------------------------------------
(***************************************************************************)
(* Properties.                                                             *)
(***************************************************************************)
\* Each stream, event and buffer is in one place, a pool or a transfer, so
\* what a transfer uses nobody else writes: its descriptors stay as they were
\* written, its events are its own, and every descriptor is copied
\* (transfer_async, get_finished, _SwapDiag).
TransfersIntact ==
    LET Held(d, S(_)) == UNION {S(queue[d][i]) : i \in DOMAIN queue[d]}
        S(t) == {t.stream}
        E(t) == {t.start, t.end}
        B(t) == {t.buf}
    IN  /\ \A d \in Direction :
              /\ Held(d, S) \cap pool[d].streams = {}
              /\ Held(d, E) \cap pool[d].events = {}
              /\ Held(d, B) \cap pool[d].buffers = {}
              /\ \A i \in DOMAIN queue[d] :
                    LET t == queue[d][i]
                    IN  /\ events[t.start] = t.job /\ events[t.end] = t.job
                        /\ buffers[t.buf].job = t.job
                        /\ \A k \in 1 .. i - 1 : queue[d][k].stream # t.stream
        /\ \A j \in DOMAIN device :
              /\ device[j].copies = device[j].ops
              /\ buffers[device[j].buf].job = j
              /\ device[j].ops \subseteq 1 .. buffers[device[j].buf].size

\* The two directions keep the promise of TransferQueue: in order, one at a
\* time, each transfer reported once, and only after it ran (transfer_async,
\* get_finished).
Queues == INSTANCE TransferQueue WITH
    pending <- [d \in Direction |-> [i \in DOMAIN queue[d] |-> queue[d][i].job]],
    ran <- [d \in Direction |->
              Max({0} \cup {i \in DOMAIN queue[d] : queue[d][i].job \in done})]
TransferQueues == Queues!Spec

\* When wait returns, no transfer of the jobs it was given is under way
\* (jobs_to_flush, whose blocks are reused next).
FlushedJobsAreDone ==
    [][waiting # {} /\ waiting' = {} => waiting \cap DOMAIN device = {}]_vars

\* The shared region stays mapped while a transfer may use it, unless the
\* device no longer answers, or the transfer raised: it is in no queue, and
\* shutdown does not wait for what it enqueued (CPUOffloadingWorker.shutdown).
RegionOutlivesTransfers == region = "clean" => DOMAIN device \subseteq {broken}

\* Every transfer is reported, or its worker shut down, unless one raised: the
\* queues keep emptying, and no wait lasts (get_finished, wait).
TransfersAreReported ==
    \A d \in Direction :
        DOMAIN eventOf[d] # {} ~> DOMAIN eventOf[d] = {} \/ broken # NoJob
=============================================================================
