--------------------------- MODULE GpuWorkerProofs ----------------------------
(***************************************************************************)
(* Proofs about GpuWorker, for every set of jobs, every list of            *)
(* descriptors and every batch size: that it keeps the promise of          *)
(* TransferQueue, that nothing a transfer uses is used twice, that what a  *)
(* wait was given is over when it returns, and that the shared region      *)
(* outlives the transfers.                                                 *)
(***************************************************************************)
EXTENDS GpuWorker, ProofBasics, FiniteSetTheorems, SequenceTheorems, TLAPS

-----------------------------------------------------------------------------
(***************************************************************************)
(* The descriptors: every one is copied, unless the transfer raises.       *)
(***************************************************************************)
\* Each descriptor is in one batch.
LEMMA SpansCover ==
    ASSUME WorkerAssumption, NEW ops \in OpLists
    PROVE  /\ \A i \in DOMAIN ops : \E I \in Spans(ops) : i \in I
           /\ \A I \in Spans(ops) : I \subseteq DOMAIN ops
           /\ \A I, J \in Spans(ops) : I \cap J # {} => I = J
<1> DEFINE L == Len(ops)
<1>1. SwapCap \in Nat \ {0} /\ L \in Nat \ {0} /\ DOMAIN ops = 1 .. L
  <2>1. ops \in Seq({"plain", "hidden", "seam", "poison"}) /\ Len(ops) > 0
    BY DEF WorkerAssumption
  <2> QED BY <2>1, LenProperties DEF WorkerAssumption
<1>2. \A n \in Nat : n * SwapCap \in Nat /\ (n + 1) * SwapCap = n * SwapCap + SwapCap
  BY <1>1
<1>3. \A n \in Nat : Span(ops, n) =
         {i \in 1 .. L : n * SwapCap < i /\ i <= (n + 1) * SwapCap}
  <2>1. SUFFICES ASSUME NEW n \in Nat
                 PROVE  Span(ops, n) =
                    {i \in 1 .. L : n * SwapCap < i /\ i <= (n + 1) * SwapCap}
    OBVIOUS
  <2>2. n * SwapCap \in Nat /\ (n + 1) * SwapCap \in Nat
    BY <1>1
  <2>3. Min({(n + 1) * SwapCap, L}) =
            IF (n + 1) * SwapCap <= L THEN (n + 1) * SwapCap ELSE L
    BY <1>1, <2>2, MinOfTwo
  <2> QED BY <1>1, <2>2, <2>3 DEF Span
<1>4. ASSUME NEW i \in 1 .. L
      PROVE  \E n \in 0 .. L - 1 : i \in Span(ops, n)
  <2> DEFINE T == {m \in Nat : i <= (m + 1) * SwapCap}
  <2>1. i <= (i + 1) * SwapCap
    BY <1>1
  <2>2. PICK m \in T : \A y \in T : m <= y
    <3>1. i \in T
      BY <2>1
    <3> QED BY <3>1, LeastNat
  <2>3. m * SwapCap < i
    <3>1. CASE m = 0
      BY <3>1, <1>1
    <3>2. CASE m # 0
      <4>1. m - 1 \in Nat /\ m - 1 \notin T
        BY <2>2, <3>2
      <4>2. (m - 1) + 1 = m
        OBVIOUS
      <4>3. m * SwapCap \in Nat
        BY <1>1
      <4> QED BY <4>1, <4>2, <4>3
    <3> QED BY <3>1, <3>2
  <2>4. m <= m * SwapCap
    BY <1>1
  <2>5. m \in 0 .. L - 1
    BY <1>1, <1>2, <2>3, <2>4
  <2> QED BY <1>3, <2>2, <2>3, <2>5
<1>5. \A m, n \in Nat : m < n => (m + 1) * SwapCap <= n * SwapCap
  BY <1>1
<1>6. \A m, n \in Nat : Span(ops, m) \cap Span(ops, n) # {} => m = n
  <2>1. SUFFICES ASSUME NEW m \in Nat, NEW n \in Nat, m < n
                 PROVE  Span(ops, m) \cap Span(ops, n) = {}
    OBVIOUS
  <2>2. (m + 1) * SwapCap \in Nat /\ n * SwapCap \in Nat
    BY <1>1
  <2>3. (m + 1) * SwapCap <= n * SwapCap
    BY <1>5, <2>1
  <2>4. \A i \in 1 .. L : ~(i <= (m + 1) * SwapCap /\ n * SwapCap < i)
    BY <2>2, <2>3
  <2> QED BY <1>3, <2>4
<1>7. Spans(ops) = {Span(ops, n) : n \in 0 .. L - 1} /\ 0 .. L - 1 \subseteq Nat
  BY <1>1 DEF Spans
<1>8. \A I \in Spans(ops) : I \subseteq DOMAIN ops
  <2> HIDE DEF L
  <2> QED BY <1>1, <1>3, <1>7
<1>9. \A i \in DOMAIN ops : \E I \in Spans(ops) : i \in I
  <2> HIDE DEF L
  <2> QED BY <1>1, <1>4, <1>7
<1>10. \A I, J \in Spans(ops) : I \cap J # {} => I = J
  <2> HIDE DEF L
  <2> QED BY <1>6, <1>7
<1> QED BY <1>8, <1>9, <1>10

\* A transfer that does not raise copies all its descriptors, in batches or
\* one by one (dispatcher, _recover).
LEMMA AllAreCopied ==
    ASSUME WorkerAssumption, NEW ops \in OpLists, sticky \in BOOLEAN, ~Raises(ops)
    PROVE  Copied(ops) = DOMAIN ops
<1>1. PerEntry(ops, Singly(ops)) = Singly(ops)
  BY DEF Raises
<1>2. CASE sticky
  <2>1. Singly(ops) = DOMAIN ops
    BY <1>2 DEF Singly
  <2>2. (UNION {I \in Spans(ops) : I \cap Singly(ops) = {}}) \subseteq DOMAIN ops
    BY SpansCover
  <2> QED BY <1>1, <2>1, <2>2 DEF Copied
<1>3. CASE ~sticky
  <2>1. Singly(ops) = UNION Rejected(ops) /\ Rejected(ops) \subseteq Spans(ops)
    BY <1>3 DEF Singly, Rejected
  <2>2. ASSUME NEW i \in DOMAIN ops, i \notin Singly(ops)
        PROVE  \E I \in Spans(ops) : i \in I /\ I \cap Singly(ops) = {}
    <3>1. PICK I \in Spans(ops) : i \in I
      BY SpansCover
    <3>2. I \notin Rejected(ops)
      BY <2>1, <2>2, <3>1
    <3>3. \A J \in Rejected(ops) : I \cap J = {}
      BY <2>1, <3>2, SpansCover
    <3> QED BY <2>1, <3>1, <3>3
  <2>3. Singly(ops) \subseteq DOMAIN ops
    BY <2>1, SpansCover
  <2>4. (UNION {I \in Spans(ops) : I \cap Singly(ops) = {}}) \subseteq DOMAIN ops
    BY SpansCover
  <2>5. DOMAIN ops
           \subseteq (UNION {I \in Spans(ops) : I \cap Singly(ops) = {}})
                          \cup Singly(ops)
    BY <2>2
  <2> QED BY <1>1, <2>3, <2>4, <2>5 DEF Copied
<1> QED BY <1>2, <1>3

-----------------------------------------------------------------------------
(***************************************************************************)
(* The inductive invariant.                                                *)
(***************************************************************************)
TransferRec == [job : Job, stream : Nat, start : Nat, end : Nat, buf : Nat]
PoolRec == [streams : SUBSET Nat, events : SUBSET Nat, buffers : SUBSET Nat]
WorkRec == [dir : Direction, after : Job \cup {NoJob}, gated : BOOLEAN,
            buf : Nat, ops : SUBSET Nat, copies : SUBSET Nat]

Types ==
    /\ queue \in [Direction -> Seq(TransferRec)]
    /\ pool \in [Direction -> PoolRec]
    /\ events \in Seq(Job)
    /\ buffers \in Seq([size : Nat, job : Job])
    /\ numStreams \in Nat
    /\ device \in [DOMAIN device -> WorkRec]
    /\ DOMAIN device \cup done \cup waiting \subseteq Job
    /\ compute \in BOOLEAN /\ sticky \in BOOLEAN
    /\ broken \in Job \cup {NoJob}
    /\ DOMAIN eventOf = Direction /\ DOMAIN state = Direction

\* A job is in one place of one queue, and either runs or ran; those of a
\* queue that ran are its oldest, for each waits for the one before it.
InOrder ==
    /\ DOMAIN device \cap done = {}
    /\ \A d \in Direction : \A i \in DOMAIN queue[d] :
          /\ queue[d][i].job \in DOMAIN device \cup done
          /\ queue[d][i].job \in done =>
                \A k \in 1 .. i : queue[d][k].job \in done
          /\ queue[d][i].job \in DOMAIN device =>
                device[queue[d][i].job].after
                    \in IF i = 1 THEN done \cup {NoJob} ELSE {queue[d][i - 1].job}
    /\ \A d, e \in Direction : \A i \in DOMAIN queue[d], k \in DOMAIN queue[e] :
          queue[d][i].job = queue[e][k].job => d = e /\ i = k

\* Streams are in a pool, or in one transfer of that direction, or lost.
StreamsOwned ==
    \A d \in Direction :
       /\ \A s \in pool[d].streams : s <= numStreams
       /\ \A i \in DOMAIN queue[d] :
             /\ queue[d][i].stream <= numStreams
             /\ queue[d][i].stream \notin pool[d].streams
             /\ \A k \in 1 .. i - 1 : queue[d][k].stream # queue[d][i].stream

\* Events are in the pool of one direction, or carry the job of the one
\* transfer that uses them, or are lost.
EventsOwned ==
    /\ pool["store"].events \cap pool["load"].events = {}
    /\ \A d \in Direction :
          /\ pool[d].events \subseteq DOMAIN events
          /\ \A i \in DOMAIN queue[d] :
             \A e \in {queue[d][i].start, queue[d][i].end} :
                /\ e \in DOMAIN events
                /\ events[e] = queue[d][i].job
                /\ \A c \in Direction : e \notin pool[c].events

\* So are buffers, and one that the device still reads is in no pool.
BuffersOwned ==
    /\ pool["store"].buffers \cap pool["load"].buffers = {}
    /\ \A d \in Direction :
          /\ pool[d].buffers \subseteq DOMAIN buffers
          /\ \A i \in DOMAIN queue[d] :
                /\ queue[d][i].buf \in DOMAIN buffers
                /\ buffers[queue[d][i].buf].job = queue[d][i].job
                /\ \A c \in Direction : queue[d][i].buf \notin pool[c].buffers
    /\ \A j \in DOMAIN device :
          /\ device[j].buf \in DOMAIN buffers
          /\ buffers[device[j].buf].job = j
          /\ device[j].ops \subseteq 1 .. buffers[device[j].buf].size
          /\ \A c \in Direction : device[j].buf \notin pool[c].buffers

\* wait can look up every transfer that is queued, and only those.
EventsKnown ==
    \A d \in Direction :
       /\ \A j \in DOMAIN eventOf[d] : \E i \in DOMAIN queue[d] : queue[d][i].job = j
       /\ \A i \in DOMAIN queue[d] :
             /\ queue[d][i].job \in DOMAIN eventOf[d]
             /\ eventOf[d][queue[d][i].job] = queue[d][i].end

\* What the device works on is queued, but for the transfer that raised and
\* for those a failed shutdown gave up.
WorkAccounted ==
    /\ \A j \in DOMAIN device :
          LET d == device[j].dir
          IN  \/ j = broken
              \/ state[d] = "failed"
              \/ state[d] = "up" /\ \E i \in DOMAIN queue[d] : queue[d][i].job = j
    /\ waiting # {} => Up
    /\ region # "mapped" => \A d \in Direction : state[d] # "up"

AllCopied == \A j \in DOMAIN device : device[j].copies = device[j].ops

IInv ==
    /\ Types /\ InOrder /\ StreamsOwned /\ EventsOwned /\ BuffersOwned
    /\ EventsKnown /\ WorkAccounted /\ AllCopied /\ RegionOutlivesTransfers

-----------------------------------------------------------------------------
(***************************************************************************)
(* What a transfer takes, and what is left of everything else.             *)
(***************************************************************************)
\* Writing to a sequence, or one past its end.
Written(g, f, i, x, S) ==
    /\ g \in Seq(S)
    /\ Len(g) = IF i = Len(f) + 1 THEN i ELSE Len(f)
    /\ DOMAIN g = DOMAIN f \cup {i}
    /\ \A k \in DOMAIN f \cup {i} : g[k] = IF k = i THEN x ELSE f[k]

\* Put writes to a sequence, or appends to it.
LEMMA PutSeq ==
    ASSUME NEW S, NEW f \in Seq(S), NEW i \in 1 .. Len(f) + 1, NEW x \in S
    PROVE  Written(Put(f, i, x), f, i, x, S)
<1> DEFINE n == IF i = Len(f) + 1 THEN i ELSE Len(f)
           g == Put(f, i, x)
<1>1. Len(f) \in Nat /\ DOMAIN f = 1 .. Len(f) /\ \A k \in 1 .. Len(f) : f[k] \in S
  BY LenProperties, ElementOfSeq
<1>2. n \in Nat /\ DOMAIN f \cup {i} = 1 .. n
  BY <1>1
<1>3. g = [k \in 1 .. n |-> IF k = i THEN x ELSE f[k]]
  BY <1>2 DEF Put
<1>4. \A k \in 1 .. n : (IF k = i THEN x ELSE f[k]) \in S
  BY <1>1, <1>2
<1>5. g \in [1 .. n -> S]
  <2> HIDE DEF n, g
  <2> QED BY <1>3, <1>4
<1>6. g \in Seq(S) /\ Len(g) = n
  <2> HIDE DEF n, g
  <2> QED BY <1>2, <1>5, SeqDef, LenProperties
<1> QED BY <1>2, <1>3, <1>6 DEF Written

\* What transfer_async draws from the pools of direction d for a transfer of n
\* descriptors, or makes.
Drawn(d, n, s, ev, b) ==
    /\ s \in pool[d].streams \cup {numStreams + 1}
    /\ ev[1] \in pool[d].events \cup {Len(events) + 1}
    /\ ev[2] \in pool[d].events \cup {Len(events) + 1, Len(events) + 2}
    /\ ev[2] = Len(events) + 2 => ev[1] = Len(events) + 1
    /\ b \in {c \in pool[d].buffers : buffers[c].size >= n} \cup {Len(buffers) + 1}

\* A pair of events is pooled, new, or one of each (transfer_async).
LEMMA EventPairDrawn ==
    ASSUME Types, EventsOwned, NEW d \in Direction
    PROVE  /\ EventPair(d)[1] \in pool[d].events \cup {Len(events) + 1}
           /\ EventPair(d)[2] \in pool[d].events \cup {Len(events) + 1, Len(events) + 2}
           /\ EventPair(d)[2] = Len(events) + 2 => EventPair(d)[1] = Len(events) + 1
<1> DEFINE p == pool[d].events
           e == Len(events)
<1>1. e \in Nat /\ p \in SUBSET (1 .. e)
  BY LenProperties DEF Types, EventsOwned
<1>2. IsFiniteSet(p) /\ Cardinality(p) \in Nat
  <2>1. IsFiniteSet(1 .. e)
    BY <1>1, FS_Interval
  <2>2. IsFiniteSet(p)
    BY <1>1, <2>1, FS_Subset
  <2> QED BY <2>2, FS_CardinalityType
<1>3. EventPair(d) = CASE Cardinality(p) >= 2 -> CHOOSE q \in p \X p : q[1] # q[2]
                       [] Cardinality(p) = 1 -> <<CHOOSE x \in p : TRUE, e + 1>>
                       [] OTHER -> <<e + 1, e + 2>>
  BY DEF EventPair
<1> HIDE DEF p, e
<1>4. CASE Cardinality(p) >= 2
  <2>1. \E x, y \in p : x # y
    <3>1. SUFFICES ASSUME \A x, y \in p : x = y PROVE FALSE
      OBVIOUS
    <3>2. PICK x : x \in p
      BY <1>2, <1>4, FS_EmptySet
    <3>3. p = {x}
      BY <3>1, <3>2
    <3>4. Cardinality(p) = 1
      BY <3>3, FS_Singleton
    <3> QED BY <1>4, <3>4
  <2>2. PICK x \in p, y \in p : x # y
    BY <2>1
  <2>3. <<x, y>> \in p \X p /\ <<x, y>>[1] # <<x, y>>[2]
    BY <2>2
  <2>4. EventPair(d) \in p \X p
    BY <1>3, <1>4, <2>3
  <2>5. EventPair(d)[1] \in p /\ EventPair(d)[2] \in p
    BY <2>4
  <2> QED BY <1>1, <2>5 DEF p, e
<1>5. CASE Cardinality(p) = 1
  <2>1. EventPair(d) = <<CHOOSE x \in p : TRUE, e + 1>>
    BY <1>2, <1>3, <1>5
  <2>2. p # {}
    BY <1>5, FS_EmptySet
  <2> QED BY <1>1, <2>1, <2>2 DEF p, e
<1>6. CASE ~(Cardinality(p) >= 2) /\ Cardinality(p) # 1
  <2>1. EventPair(d) = <<e + 1, e + 2>>
    BY <1>3, <1>6
  <2> QED BY <1>1, <2>1 DEF p, e
<1> QED BY <1>4, <1>5, <1>6

\* Stream, EventPair and Buffer draw what they say.
LEMMA AllDrawn ==
    ASSUME Types, EventsOwned, BuffersOwned, NEW d \in Direction, NEW n \in Nat
    PROVE  Drawn(d, n, Stream(d), EventPair(d), Buffer(d, n))
<1>1. Stream(d) \in pool[d].streams \cup {numStreams + 1}
  BY DEF Stream
<1>2. Buffer(d, n) \in {c \in pool[d].buffers : buffers[c].size >= n}
                          \cup {Len(buffers) + 1}
  <2> DEFINE fit == {c \in pool[d].buffers : buffers[c].size >= n}
  <2>1. BestBuffers(d, n) \subseteq fit
    BY DEF BestBuffers
  <2>2. Buffer(d, n) \in BestBuffers(d, n) \cup {Len(buffers) + 1}
    BY DEF Buffer
  <2> QED BY <2>1, <2>2
<1> QED BY <1>1, <1>2, EventPairDrawn DEF Drawn
\* What a transfer took is its own from then on.
TookStream(d, s) ==
    /\ numStreams' \in Nat /\ numStreams <= numStreams'
    /\ s \in Nat /\ s <= numStreams' /\ s \notin pool'[d].streams
    /\ \A i \in DOMAIN queue[d] : queue[d][i].stream # s

TookEvents(ev, j) ==
    /\ events' \in Seq(Job) /\ DOMAIN events \subseteq DOMAIN events'
    /\ \A x \in {ev[1], ev[2]} :
          /\ x \in Nat /\ x \in DOMAIN events' /\ events'[x] = j
          /\ \A e \in Direction : x \notin pool'[e].events
    /\ \A e \in Direction : \A i \in DOMAIN queue[e] :
       \A x \in {queue[e][i].start, queue[e][i].end} : events'[x] = events[x]

TookBuffer(b, j, n) ==
    /\ buffers' \in Seq([size : Nat, job : Job])
    /\ DOMAIN buffers \subseteq DOMAIN buffers'
    /\ b \in Nat /\ b \in DOMAIN buffers'
    /\ buffers'[b].job = j /\ 1 .. n \subseteq 1 .. buffers'[b].size
    /\ \A e \in Direction : b \notin pool'[e].buffers
    /\ \A e \in Direction : \A i \in DOMAIN queue[e] :
          buffers'[queue[e][i].buf] = buffers[queue[e][i].buf]
    /\ \A k \in DOMAIN device : buffers'[device[k].buf] = buffers[device[k].buf]

PoolsShrink ==
    /\ pool' \in [Direction -> PoolRec]
    /\ \A d \in Direction : /\ pool'[d].streams \subseteq pool[d].streams
                             /\ pool'[d].events \subseteq pool[d].events
                             /\ pool'[d].buffers \subseteq pool[d].buffers

Took(d, j, n, s, ev, b) ==
    TookStream(d, s) /\ TookEvents(ev, j) /\ TookBuffer(b, j, n) /\ PoolsShrink

\* What is drawn is in no pool afterwards, and nobody else uses it
\* (transfer_async).
LEMMA Acquired ==
    ASSUME Types, StreamsOwned, EventsOwned, BuffersOwned,
           NEW d \in Direction, NEW j \in Job, NEW ops, Len(ops) \in Nat,
           NEW s, NEW ev, NEW b, Drawn(d, Len(ops), s, ev, b),
           Acquire(d, j, ops, s, ev, b),
           events' = Put(Put(events, ev[1], j), ev[2], j)
    PROVE  Took(d, j, Len(ops), s, ev, b)
<1>1. /\ pool \in [Direction -> PoolRec]
      /\ numStreams \in Nat /\ events \in Seq(Job)
      /\ buffers \in Seq([size : Nat, job : Job])
      /\ queue \in [Direction -> Seq(TransferRec)]
  BY DEF Types
<1>2. /\ Len(events) \in Nat /\ DOMAIN events = 1 .. Len(events)
      /\ Len(buffers) \in Nat /\ DOMAIN buffers = 1 .. Len(buffers)
  BY <1>1, LenProperties
<1>3. /\ pool'[d] = [streams |-> pool[d].streams \ {s},
                     events |-> pool[d].events \ {ev[1], ev[2]},
                     buffers |-> pool[d].buffers \ {b}]
      /\ \A e \in Direction \ {d} : pool'[e] = pool[e]
      /\ DOMAIN pool' = Direction
      /\ pool' = [e \in Direction |-> pool'[e]]
  BY <1>1 DEF Acquire, Taken
<1>4. PoolsShrink
  <2>1. pool'[d] \in PoolRec
    BY <1>1, <1>3 DEF PoolRec
  <2>2. pool' \in [Direction -> PoolRec]
    BY <1>1, <1>3, <2>1
  <2> QED BY <1>3, <2>2 DEF PoolsShrink
<1>5. \A e \in Direction : \A i \in DOMAIN queue[e] : queue[e][i] \in TransferRec
  BY <1>1, ElementOfSeq, LenProperties
<1>6. TookStream(d, s)
  <2>1. s \in Nat /\ numStreams' = Max({numStreams, s})
    <3>1. pool[d].streams \subseteq Nat
      BY <1>1 DEF PoolRec
    <3> QED BY <1>1, <3>1 DEF Drawn, Acquire
  <2>2. numStreams' = IF numStreams >= s THEN numStreams ELSE s
    <3>1. numStreams \in Int /\ s \in Int
      BY <1>1, <2>1
    <3> QED BY <2>1, <3>1, MaxOfTwo
  <2>3. \A i \in DOMAIN queue[d] : queue[d][i].stream # s
    <3>1. SUFFICES ASSUME NEW i \in DOMAIN queue[d] PROVE queue[d][i].stream # s
      OBVIOUS
    <3>2. /\ queue[d][i].stream <= numStreams /\ queue[d][i].stream \in Nat
          /\ queue[d][i].stream \notin pool[d].streams
      BY <1>5 DEF StreamsOwned, TransferRec
    <3> QED BY <1>1, <3>2 DEF Drawn
  <2> QED BY <1>1, <1>3, <2>1, <2>2, <2>3 DEF TookStream
<1>7. TookEvents(ev, j)
  <2> DEFINE f == Put(events, ev[1], j)
  <2>1. ev[1] \in 1 .. Len(events) + 1
    BY <1>2 DEF Drawn, EventsOwned
  <2>2. Written(f, events, ev[1], j, Job)
    BY <1>1, <2>1, PutSeq
  <2> HIDE DEF f
  <2>3. f \in Seq(Job) /\ ev[2] \in 1 .. Len(f) + 1
    BY <1>2, <2>1, <2>2 DEF Drawn, EventsOwned, Written
  <2>4. Written(Put(f, ev[2], j), f, ev[2], j, Job)
    BY <2>3, PutSeq
  <2>5. events' = Put(f, ev[2], j)
    BY DEF f
  <2>5a. /\ events' \in Seq(Job)
         /\ DOMAIN events' = DOMAIN events \cup {ev[1], ev[2]}
         /\ events'[ev[1]] = j /\ events'[ev[2]] = j
         /\ \A x \in DOMAIN events \ {ev[1], ev[2]} : events'[x] = events[x]
    BY <2>2, <2>4, <2>5 DEF Written
  <2>6. \A x \in {ev[1], ev[2]}, e \in Direction : x \notin pool'[e].events
    <3>1. SUFFICES ASSUME NEW x \in {ev[1], ev[2]}, NEW e \in Direction \ {d}
                   PROVE  x \notin pool[e].events
      BY <1>3
    <3>2. x \in pool[d].events \/ x \notin DOMAIN events
      BY <1>2 DEF Drawn
    <3> QED BY <3>1, <3>2 DEF EventsOwned, Direction
  <2>7. \A x \in {ev[1], ev[2]} : x \in Nat /\ x \in DOMAIN events' /\ events'[x] = j
    BY <1>2, <2>1, <2>5a DEF Drawn, EventsOwned
  <2>8. \A e \in Direction : \A i \in DOMAIN queue[e] :
        \A x \in {queue[e][i].start, queue[e][i].end} :
            x \in DOMAIN events /\ x # ev[1] /\ x # ev[2]
    <3>1. \A e \in Direction : \A i \in DOMAIN queue[e] :
          \A x \in {queue[e][i].start, queue[e][i].end} :
              x \in DOMAIN events /\ x \notin pool[d].events
      BY DEF EventsOwned
    <3>2. \A x \in {ev[1], ev[2]} : x \in pool[d].events \/ x \notin DOMAIN events
      BY <1>2, LenProperties DEF Drawn, Types
    <3> QED BY <3>1, <3>2
  <2>9. \A e \in Direction : \A i \in DOMAIN queue[e] :
        \A x \in {queue[e][i].start, queue[e][i].end} : events'[x] = events[x]
    BY <2>5a, <2>8
  <2> QED BY <2>5a, <2>6, <2>7, <2>9 DEF TookEvents
<1>8. TookBuffer(b, j, Len(ops))
  <2> DEFINE x == [size |-> IF b \in DOMAIN buffers THEN buffers[b].size ELSE Len(ops),
                   job |-> j]
             B == [size : Nat, job : Job]
  <2>1. b \in 1 .. Len(buffers) + 1
    BY <1>2 DEF Drawn, BuffersOwned
  <2>2. b \in DOMAIN buffers => buffers[b] \in B
    BY <1>1, <1>2, ElementOfSeq
  <2>3. x \in B /\ x.job = j
    BY <2>2
  <2>4. buffers' = Put(buffers, b, x)
    BY DEF Acquire
  <2>5. b \in DOMAIN buffers => x.size >= Len(ops)
    BY <1>2 DEF Drawn
  <2>5a. x.size \in Nat /\ x.size >= Len(ops)
    BY <2>3, <2>5
  <2> HIDE DEF x, B
  <2>6. /\ buffers' \in Seq(B)
        /\ DOMAIN buffers' = DOMAIN buffers \cup {b}
        /\ \A k \in DOMAIN buffers \cup {b} :
              buffers'[k] = IF k = b THEN x ELSE buffers[k]
    <3>1. buffers \in Seq(B) /\ b \in 1 .. Len(buffers) + 1 /\ x \in B
      BY <1>1, <2>1, <2>3 DEF B
    <3>2. Written(Put(buffers, b, x), buffers, b, x, B)
      BY <3>1, PutSeq
    <3> QED BY <2>4, <3>2 DEF Written
  <2>7. \A e \in Direction : b \notin pool'[e].buffers
    <3>1. SUFFICES ASSUME NEW e \in Direction \ {d} PROVE b \notin pool[e].buffers
      BY <1>3
    <3>2. b \in pool[d].buffers \/ b \notin DOMAIN buffers
      BY <1>2 DEF Drawn
    <3> QED BY <3>1, <3>2 DEF BuffersOwned, Direction
  <2>8. \A e \in Direction : \A i \in DOMAIN queue[e] :
            queue[e][i].buf \in DOMAIN buffers /\ queue[e][i].buf # b
    BY <1>2 DEF BuffersOwned, Drawn
  <2>9. \A k \in DOMAIN device : device[k].buf \in DOMAIN buffers /\ device[k].buf # b
    BY <1>2 DEF BuffersOwned, Drawn
  <2>10. 1 .. Len(ops) \subseteq 1 .. buffers'[b].size
    BY <2>5a, <2>6
  <2> QED BY <2>1, <1>2, <2>3, <2>6, <2>7, <2>8, <2>9, <2>10 DEF TookBuffer, B
<1> QED BY <1>4, <1>6, <1>7, <1>8 DEF Took
-----------------------------------------------------------------------------
(***************************************************************************)
(* Each action preserves the invariant.                                    *)
(***************************************************************************)
\* The queues, and the elements of the queues, are sequences of transfers.
LEMMA QueueTypes ==
    ASSUME Types, NEW d \in Direction
    PROVE  /\ queue[d] \in Seq(TransferRec)
           /\ Len(queue[d]) \in Nat /\ DOMAIN queue[d] = 1 .. Len(queue[d])
           /\ \A i \in DOMAIN queue[d] :
                 /\ queue[d][i] \in TransferRec
                 /\ queue[d][i].job \in Job /\ queue[d][i].stream \in Nat
                 /\ queue[d][i].start \in Nat /\ queue[d][i].end \in Nat
                 /\ queue[d][i].buf \in Nat
<1>1. queue[d] \in Seq(TransferRec)
  BY DEF Types
<1>2. Len(queue[d]) \in Nat /\ DOMAIN queue[d] = 1 .. Len(queue[d])
  BY <1>1, LenProperties
<1>3. \A i \in DOMAIN queue[d] : queue[d][i] \in TransferRec
  BY <1>1, <1>2, ElementOfSeq
<1> QED BY <1>1, <1>2, <1>3 DEF TransferRec

\* The queues after a transfer t is appended to one.
Appended(d, t) ==
    LET n == Len(queue[d]) + 1
    IN  /\ \A e \in Direction \ {d} : queue'[e] = queue[e]
        /\ DOMAIN queue'[d] = DOMAIN queue[d] \cup {n}
        /\ n \in Nat \ {0} /\ DOMAIN queue[d] = 1 .. n - 1
        /\ queue'[d][n] = t
        /\ \A i \in DOMAIN queue[d] : queue'[d][i] = queue[d][i]

\* A transfer submitted goes to the end of its queue (transfer_async).
LEMMA QueueAppended ==
    ASSUME Types, NEW d \in Direction, NEW t \in TransferRec,
           queue' = [queue EXCEPT ![d] = Append(@, t)]
    PROVE  queue' \in [Direction -> Seq(TransferRec)] /\ Appended(d, t)
<1>1. queue[d] \in Seq(TransferRec) /\ queue \in [Direction -> Seq(TransferRec)]
  BY DEF Types
<1>2. Append(queue[d], t) \in Seq(TransferRec)
  BY <1>1
<1>3. queue'[d] = Append(queue[d], t) /\ \A e \in Direction \ {d} : queue'[e] = queue[e]
  BY <1>1
<1>4. queue' \in [Direction -> Seq(TransferRec)]
  BY <1>1, <1>2
<1>5. Len(queue[d]) \in Nat /\ DOMAIN queue[d] = 1 .. Len(queue[d])
  BY QueueTypes
<1>6. Len(queue'[d]) = Len(queue[d]) + 1 /\ DOMAIN queue'[d] = 1 .. Len(queue[d]) + 1
  BY <1>1, <1>2, <1>3, <1>5, LenProperties
<1>7. /\ queue'[d][Len(queue[d]) + 1] = t
      /\ \A i \in 1 .. Len(queue[d]) : queue'[d][i] = queue[d][i]
  BY <1>1, <1>3, <1>5
<1> QED BY <1>3, <1>4, <1>5, <1>6, <1>7 DEF Appended

\* The device after work w of job j is enqueued.
Enqueued(j, w) ==
    /\ DOMAIN device' = DOMAIN device \cup {j}
    /\ device'[j] = w
    /\ \A k \in DOMAIN device : device'[k] = device[k]

\* The device keeps the work it had.
LEMMA WorkEnqueued ==
    ASSUME Types, NEW j \in Job, j \notin DOMAIN device, NEW w \in WorkRec,
           device' = Put(device, j, w)
    PROVE  device' \in [DOMAIN device' -> WorkRec] /\ Enqueued(j, w)
<1>1. /\ DOMAIN device' = DOMAIN device \cup {j}
      /\ device' = [y \in DOMAIN device' |-> device'[y]]
      /\ device'[j] = w
      /\ \A y \in DOMAIN device \ {j} : device'[y] = device[y]
  BY DEF Put
<1>2. \A y \in DOMAIN device : device[y] \in WorkRec
  BY DEF Types
<1>3. \A y \in DOMAIN device' : device'[y] \in WorkRec
  BY <1>1, <1>2
<1> QED BY <1>1, <1>3 DEF Enqueued
\* A transfer waits for the last one of its queue.
LEMMA AfterTheLast ==
    ASSUME Types, EventsOwned, NEW d \in Direction
    PROVE  /\ Len(queue[d]) = 0 => After(d) = NoJob
           /\ Len(queue[d]) # 0 => /\ Len(queue[d]) \in DOMAIN queue[d]
                                  /\ After(d) = queue[d][Len(queue[d])].job
<1>1. /\ queue[d] \in Seq(TransferRec)
      /\ Len(queue[d]) \in Nat /\ DOMAIN queue[d] = 1 .. Len(queue[d])
  BY QueueTypes
<1>2. Len(queue[d]) = 0 <=> queue[d] = <<>>
  BY <1>1, EmptySeq
<1>3. Len(queue[d]) # 0 => Len(queue[d]) \in DOMAIN queue[d]
  BY <1>1
<1>4. Len(queue[d]) # 0 => events[queue[d][Len(queue[d])].end] = queue[d][Len(queue[d])].job
  BY <1>3 DEF EventsOwned
<1> QED BY <1>2, <1>3, <1>4 DEF After

\* Nothing but the queue of direction d, the pools, the device and the table
\* of events concerns a transfer that was submitted.
LEMMA SubmitTypes ==
    ASSUME WorkerAssumption, IInv, NEW d \in Direction, NEW j \in Job,
           NEW ops \in OpLists, Submit(d, j, ops)
    PROVE  \E s, ev, b :
              LET t == [job |-> j, stream |-> s, start |-> ev[1], end |-> ev[2], buf |-> b]
                  w == [dir |-> d, after |-> After(d), gated |-> compute, buf |-> b,
                        ops |-> DOMAIN ops, copies |-> DOMAIN ops]
              IN  /\ Took(d, j, Len(ops), s, ev, b)
                  /\ t \in TransferRec /\ Appended(d, t)
                  /\ w \in WorkRec /\ Enqueued(j, w)
                  /\ eventOf' = [eventOf EXCEPT ![d] = Put(@, j, ev[2])]
                  /\ Types'
<1>1. PICK s \in {Stream(d)}, ev \in {EventPair(d)}, b \in {Buffer(d, Len(ops))} :
          /\ Acquire(d, j, ops, s, ev, b)
          /\ events' = Put(Put(events, ev[1], j), ev[2], j)
          /\ eventOf' = [eventOf EXCEPT ![d] = Put(@, j, ev[2])]
          /\ queue' = [queue EXCEPT ![d] =
                Append(@, [job |-> j, stream |-> s, start |-> ev[1],
                           end |-> ev[2], buf |-> b])]
          /\ device' = Put(device, j,
                [dir |-> d, after |-> After(d), gated |-> compute, buf |-> b,
                 ops |-> DOMAIN ops, copies |-> Copied(ops)])
  BY DEF Submit
<1> DEFINE t == [job |-> j, stream |-> s, start |-> ev[1], end |-> ev[2], buf |-> b]
           w == [dir |-> d, after |-> After(d), gated |-> compute, buf |-> b,
                 ops |-> DOMAIN ops, copies |-> DOMAIN ops]
<1>2. Types /\ StreamsOwned /\ EventsOwned /\ BuffersOwned
  BY DEF IInv
<1>3. Len(ops) \in Nat /\ DOMAIN ops \in SUBSET Nat
  <2>1. ops \in Seq({"plain", "hidden", "seam", "poison"})
    BY DEF WorkerAssumption
  <2> QED BY <2>1, LenProperties
<1>4. Took(d, j, Len(ops), s, ev, b)
  <2>1. Drawn(d, Len(ops), s, ev, b)
    BY <1>2, <1>3, AllDrawn
  <2> QED BY <1>1, <1>2, <1>3, <2>1, Acquired
<1>5. t \in TransferRec
  BY <1>4 DEF Took, TookStream, TookEvents, TookBuffer, TransferRec
<1>6. queue' \in [Direction -> Seq(TransferRec)] /\ Appended(d, t)
  BY <1>1, <1>2, <1>5, QueueAppended
<1>7. Copied(ops) = DOMAIN ops
  BY <1>2, AllAreCopied DEF Submit, Types
<1>8. After(d) \in Job \cup {NoJob}
  BY <1>2, AfterTheLast, QueueTypes
<1>9. w \in WorkRec
  BY <1>2, <1>3, <1>4, <1>8 DEF WorkRec, Types, Took, TookBuffer
<1>10. device' \in [DOMAIN device' -> WorkRec] /\ Enqueued(j, w)
  <2>1. j \notin DOMAIN device
    BY DEF Submit
  <2> QED BY <1>1, <1>2, <1>7, <1>9, <2>1, WorkEnqueued
<1>11. Types'
  <2>1. /\ pool' \in [Direction -> PoolRec] /\ events' \in Seq(Job)
        /\ buffers' \in Seq([size : Nat, job : Job]) /\ numStreams' \in Nat
    BY <1>4 DEF Took, TookStream, TookEvents, TookBuffer, PoolsShrink
  <2>2. DOMAIN device' \cup done' \cup waiting' \subseteq Job
    BY <1>2, <1>10 DEF Enqueued, Types, Submit
  <2>3. DOMAIN eventOf' = Direction /\ DOMAIN state' = Direction
    BY <1>1, <1>2 DEF Types, Submit
  <2>4. compute' \in BOOLEAN /\ sticky' \in BOOLEAN /\ broken' \in Job \cup {NoJob}
    BY <1>2 DEF Types, Submit
  <2> QED BY <1>6, <1>10, <2>1, <2>2, <2>3, <2>4 DEF Types
<1> QED BY <1>1, <1>4, <1>5, <1>6, <1>9, <1>10, <1>11

\* A transfer uses a stream, events and a buffer that nobody else uses, and
\* waits for the last of its queue (transfer_async).
LEMMA SubmitKeeps ==
    ASSUME WorkerAssumption, IInv, NEW d \in Direction, NEW j \in Job,
           NEW ops \in OpLists, Submit(d, j, ops)
    PROVE  IInv'
<1>1. PICK s, ev, b :
          LET t == [job |-> j, stream |-> s, start |-> ev[1], end |-> ev[2], buf |-> b]
              w == [dir |-> d, after |-> After(d), gated |-> compute, buf |-> b,
                    ops |-> DOMAIN ops, copies |-> DOMAIN ops]
          IN  /\ Took(d, j, Len(ops), s, ev, b)
              /\ t \in TransferRec /\ Appended(d, t)
              /\ w \in WorkRec /\ Enqueued(j, w)
              /\ eventOf' = [eventOf EXCEPT ![d] = Put(@, j, ev[2])]
              /\ Types'
  BY SubmitTypes
<1> DEFINE t == [job |-> j, stream |-> s, start |-> ev[1], end |-> ev[2], buf |-> b]
           w == [dir |-> d, after |-> After(d), gated |-> compute, buf |-> b,
                 ops |-> DOMAIN ops, copies |-> DOMAIN ops]
           n == Len(queue[d]) + 1
<1>2. /\ TookStream(d, s) /\ TookEvents(ev, j) /\ TookBuffer(b, j, Len(ops))
      /\ PoolsShrink /\ Enqueued(j, w)
  BY <1>1 DEF Took
<1>3. /\ Types /\ InOrder /\ StreamsOwned /\ EventsOwned /\ BuffersOwned
      /\ EventsKnown /\ WorkAccounted /\ AllCopied /\ RegionOutlivesTransfers
  BY DEF IInv
<1>4. /\ Free /\ j \notin DOMAIN device \cup done
      /\ UNCHANGED <<done, compute, waiting, state, broken, region>>
  BY DEF Submit
<1>5. /\ \A e \in Direction \ {d} : queue'[e] = queue[e]
      /\ n \in Nat \ {0} /\ DOMAIN queue[d] = 1 .. n - 1
      /\ DOMAIN queue'[d] = DOMAIN queue[d] \cup {n}
      /\ queue'[d][n] = t
      /\ \A i \in DOMAIN queue[d] : queue'[d][i] = queue[d][i]
  BY <1>1 DEF Appended
<1>6. \A e \in Direction : \A i \in DOMAIN queue[e] :
          queue[e][i].job # j /\ queue[e][i].job \in DOMAIN device \cup done
  <2>1. \A e \in Direction : \A i \in DOMAIN queue[e] :
            queue[e][i].job \in DOMAIN device \cup done
    BY <1>3 DEF InOrder
  <2> QED BY <1>4, <2>1
<1>7. t.job = j /\ t.stream = s /\ t.start = ev[1] /\ t.end = ev[2] /\ t.buf = b
  OBVIOUS
<1>8. w.dir = d /\ w.after = After(d) /\ w.buf = b /\ w.ops = DOMAIN ops /\ w.copies = w.ops
  OBVIOUS
<1>9. w.after \in IF n = 1 THEN done \cup {NoJob} ELSE {queue'[d][n - 1].job}
  BY <1>3, <1>5, <1>8, AfterTheLast
<1> HIDE DEF t, w, n
\* An element of a queue is an old one, or the new one.
<1>10. \A e \in Direction : \A i \in DOMAIN queue'[e] :
          \/ i \in DOMAIN queue[e] /\ queue'[e][i] = queue[e][i]
          \/ e = d /\ i = n /\ queue'[e][i] = t
  BY <1>5
<1>11. \A e \in Direction : \A i \in DOMAIN queue[e] :
          i \in DOMAIN queue'[e] /\ queue'[e][i] = queue[e][i]
  BY <1>5
<1>12. /\ DOMAIN device' = DOMAIN device \cup {j} /\ device'[j] = w
       /\ \A k \in DOMAIN device : device'[k] = device[k] /\ k # j
  BY <1>2, <1>4 DEF Enqueued
<1>13. InOrder'
  <2>1. DOMAIN device' \cap done' = {}
    BY <1>3, <1>4, <1>12 DEF InOrder
  <2>2. ASSUME NEW e \in Direction, NEW i \in DOMAIN queue'[e]
        PROVE  /\ queue'[e][i].job \in DOMAIN device' \cup done'
               /\ queue'[e][i].job \in done' =>
                     \A k \in 1 .. i : queue'[e][k].job \in done'
               /\ queue'[e][i].job \in DOMAIN device' =>
                     device'[queue'[e][i].job].after
                        \in IF i = 1 THEN done' \cup {NoJob} ELSE {queue'[e][i - 1].job}
    <3>1. CASE i \in DOMAIN queue[e] /\ queue'[e][i] = queue[e][i]
      <4>1. \A k \in 1 .. i : k \in DOMAIN queue[e]
        BY <3>1, <1>3, QueueTypes
      <4>2. \A k \in 1 .. i : queue'[e][k] = queue[e][k]
        BY <4>1, <1>11
      <4>3. i \in Nat /\ (i # 1 => i - 1 \in 1 .. i)
        BY <3>1, <1>3, QueueTypes
      <4>4. queue[e][i].job \in DOMAIN device =>
               device'[queue[e][i].job] = device[queue[e][i].job]
        BY <1>12
      <4>5. /\ queue[e][i].job \in DOMAIN device \cup done
            /\ queue[e][i].job \in done =>
                  \A k \in 1 .. i : queue[e][k].job \in done
            /\ queue[e][i].job \in DOMAIN device =>
                  device[queue[e][i].job].after
                     \in IF i = 1 THEN done \cup {NoJob} ELSE {queue[e][i - 1].job}
        BY <3>1, <1>3 DEF InOrder
      <4>6. i # 1 => queue'[e][i - 1] = queue[e][i - 1]
        BY <4>2, <4>3
      <4>7. queue[e][i].job \in DOMAIN device' => queue[e][i].job \in DOMAIN device
        BY <3>1, <1>6, <1>12
      <4>8. queue[e][i].job \in done => \A k \in 1 .. i : queue'[e][k].job \in done
        BY <4>2, <4>5
      <4> QED BY <3>1, <1>4, <1>12, <4>4, <4>5, <4>6, <4>7, <4>8
    <3>2. CASE e = d /\ i = n /\ queue'[e][i] = t
      BY <3>2, <1>4, <1>7, <1>9, <1>12
    <3> QED BY <1>10, <3>1, <3>2
  <2>3. ASSUME NEW e \in Direction, NEW c \in Direction,
               NEW i \in DOMAIN queue'[e], NEW k \in DOMAIN queue'[c],
               queue'[e][i].job = queue'[c][k].job
        PROVE  e = c /\ i = k
    BY <2>3, <1>3, <1>6, <1>7, <1>10 DEF InOrder
  <2> QED BY <2>1, <2>2, <2>3 DEF InOrder
<1>14. StreamsOwned'
  <2>1. SUFFICES ASSUME NEW e \in Direction
                 PROVE  /\ \A x \in pool'[e].streams : x <= numStreams'
                        /\ \A i \in DOMAIN queue'[e] :
                              /\ queue'[e][i].stream <= numStreams'
                              /\ queue'[e][i].stream \notin pool'[e].streams
                              /\ \A k \in 1 .. i - 1 :
                                    queue'[e][k].stream # queue'[e][i].stream
    BY DEF StreamsOwned
  <2>2. /\ pool[e].streams \subseteq Nat /\ numStreams \in Nat /\ numStreams' \in Nat
        /\ numStreams <= numStreams' /\ pool'[e].streams \subseteq pool[e].streams
    BY <1>2, <1>3 DEF Types, PoolRec, PoolsShrink, TookStream
  <2>3. \A x \in pool'[e].streams : x <= numStreams'
    BY <1>3, <2>2 DEF StreamsOwned
  <2>4. ASSUME NEW i \in DOMAIN queue'[e]
        PROVE  /\ queue'[e][i].stream <= numStreams'
               /\ queue'[e][i].stream \notin pool'[e].streams
               /\ \A k \in 1 .. i - 1 : queue'[e][k].stream # queue'[e][i].stream
    <3>1. CASE i \in DOMAIN queue[e] /\ queue'[e][i] = queue[e][i]
      <4>1. \A k \in 1 .. i - 1 : k \in DOMAIN queue[e]
        BY <3>1, <1>3, QueueTypes
      <4>2. \A k \in 1 .. i - 1 : queue'[e][k] = queue[e][k]
        BY <4>1, <1>11
      <4>3. queue[e][i].stream \in Nat
        BY <3>1, <1>3, QueueTypes
      <4> QED BY <3>1, <1>3, <2>2, <4>2, <4>3 DEF StreamsOwned
    <3>2. CASE e = d /\ i = n /\ queue'[e][i] = t
      <4>1. \A k \in 1 .. i - 1 : k \in DOMAIN queue[e] /\ queue'[e][k] = queue[e][k]
        BY <3>2, <1>5, <1>11
      <4> QED BY <3>2, <1>2, <1>7, <4>1 DEF TookStream
    <3> QED BY <1>10, <3>1, <3>2
  <2> QED BY <2>3, <2>4
<1>15. EventsOwned'
  <2>1. pool'["store"].events \cap pool'["load"].events = {}
    BY <1>2, <1>3 DEF EventsOwned, PoolsShrink, Direction
  <2>2. \A e \in Direction : pool'[e].events \subseteq DOMAIN events'
    BY <1>2, <1>3 DEF EventsOwned, PoolsShrink, TookEvents
  <2>3. ASSUME NEW e \in Direction, NEW i \in DOMAIN queue'[e],
               NEW x \in {queue'[e][i].start, queue'[e][i].end}
        PROVE  /\ x \in DOMAIN events' /\ events'[x] = queue'[e][i].job
               /\ \A c \in Direction : x \notin pool'[c].events
    <3>1. CASE i \in DOMAIN queue[e] /\ queue'[e][i] = queue[e][i]
      <4>1. /\ x \in DOMAIN events /\ events[x] = queue[e][i].job
            /\ \A c \in Direction : x \notin pool[c].events
        BY <3>1, <1>3 DEF EventsOwned
      <4>2. x \in DOMAIN events' /\ events'[x] = events[x]
        BY <3>1, <4>1, <1>2 DEF TookEvents
      <4> QED BY <3>1, <4>1, <4>2, <1>2 DEF PoolsShrink
    <3>2. CASE e = d /\ i = n /\ queue'[e][i] = t
      BY <3>2, <1>2, <1>7 DEF TookEvents
    <3> QED BY <1>10, <3>1, <3>2
  <2> QED BY <2>1, <2>2, <2>3 DEF EventsOwned
<1>16. BuffersOwned'
  <2>1. pool'["store"].buffers \cap pool'["load"].buffers = {}
    BY <1>2, <1>3 DEF BuffersOwned, PoolsShrink, Direction
  <2>2. \A e \in Direction : pool'[e].buffers \subseteq DOMAIN buffers'
    BY <1>2, <1>3 DEF BuffersOwned, PoolsShrink, TookBuffer
  <2>3. ASSUME NEW e \in Direction, NEW i \in DOMAIN queue'[e]
        PROVE  /\ queue'[e][i].buf \in DOMAIN buffers'
               /\ buffers'[queue'[e][i].buf].job = queue'[e][i].job
               /\ \A c \in Direction : queue'[e][i].buf \notin pool'[c].buffers
    <3>1. CASE i \in DOMAIN queue[e] /\ queue'[e][i] = queue[e][i]
      <4>1. /\ queue[e][i].buf \in DOMAIN buffers
            /\ buffers[queue[e][i].buf].job = queue[e][i].job
            /\ \A c \in Direction : queue[e][i].buf \notin pool[c].buffers
        BY <3>1, <1>3 DEF BuffersOwned
      <4>2. /\ queue[e][i].buf \in DOMAIN buffers'
            /\ buffers'[queue[e][i].buf] = buffers[queue[e][i].buf]
        BY <3>1, <4>1, <1>2 DEF TookBuffer
      <4>3. \A c \in Direction : queue[e][i].buf \notin pool'[c].buffers
        BY <4>1, <1>2 DEF PoolsShrink
      <4> QED BY <3>1, <4>1, <4>2, <4>3
    <3>2. CASE e = d /\ i = n /\ queue'[e][i] = t
      BY <3>2, <1>2, <1>7 DEF TookBuffer
    <3> QED BY <1>10, <3>1, <3>2
  <2>4. ASSUME NEW k \in DOMAIN device'
        PROVE  /\ device'[k].buf \in DOMAIN buffers'
               /\ buffers'[device'[k].buf].job = k
               /\ device'[k].ops \subseteq 1 .. buffers'[device'[k].buf].size
               /\ \A c \in Direction : device'[k].buf \notin pool'[c].buffers
    <3>1. CASE k \in DOMAIN device
      <4>1. device'[k] = device[k] /\ buffers'[device[k].buf] = buffers[device[k].buf]
        BY <3>1, <1>2, <1>12 DEF TookBuffer
      <4>2. /\ device[k].buf \in DOMAIN buffers /\ buffers[device[k].buf].job = k
            /\ device[k].ops \subseteq 1 .. buffers[device[k].buf].size
            /\ \A c \in Direction : device[k].buf \notin pool[c].buffers
        BY <3>1, <1>3 DEF BuffersOwned
      <4> QED BY <4>1, <4>2, <1>2 DEF PoolsShrink, TookBuffer
    <3>2. CASE k = j
      <4>1. DOMAIN ops = 1 .. Len(ops)
        BY LenProperties DEF WorkerAssumption
      <4> QED BY <3>2, <4>1, <1>2, <1>8, <1>12 DEF TookBuffer
    <3> QED BY <3>1, <3>2, <1>12
  <2> QED BY <2>1, <2>2, <2>3, <2>4 DEF BuffersOwned
<1>17. EventsKnown'
  <2>1. SUFFICES ASSUME NEW e \in Direction
                 PROVE  /\ \A k \in DOMAIN eventOf'[e] :
                              \E i \in DOMAIN queue'[e] : queue'[e][i].job = k
                        /\ \A i \in DOMAIN queue'[e] :
                              /\ queue'[e][i].job \in DOMAIN eventOf'[e]
                              /\ eventOf'[e][queue'[e][i].job] = queue'[e][i].end
    BY DEF EventsKnown
  <2>2. CASE e # d
    <3>1. eventOf'[e] = eventOf[e] /\ queue'[e] = queue[e]
      BY <1>1, <1>3, <1>5, <2>2 DEF Types
    <3> QED BY <1>3, <3>1 DEF EventsKnown
  <2>3. CASE e = d
    <3>1. /\ DOMAIN eventOf'[d] = DOMAIN eventOf[d] \cup {j}
          /\ eventOf'[d][j] = ev[2]
          /\ \A k \in DOMAIN eventOf[d] : k # j => eventOf'[d][k] = eventOf[d][k]
      BY <1>1, <1>3 DEF Types, Put
    <3>2. \A i \in DOMAIN queue[d] : queue[d][i].job \in DOMAIN eventOf[d]
                                       /\ eventOf[d][queue[d][i].job] = queue[d][i].end
      BY <1>3 DEF EventsKnown
    <3>3. \A k \in DOMAIN eventOf[d] : \E i \in DOMAIN queue[d] : queue[d][i].job = k
      BY <1>3 DEF EventsKnown
    <3>4. ASSUME NEW k \in DOMAIN eventOf'[d]
          PROVE  \E i \in DOMAIN queue'[d] : queue'[d][i].job = k
      BY <3>1, <3>3, <1>5, <1>7
    <3>5. ASSUME NEW i \in DOMAIN queue'[d]
          PROVE  /\ queue'[d][i].job \in DOMAIN eventOf'[d]
                 /\ eventOf'[d][queue'[d][i].job] = queue'[d][i].end
      <4>1. CASE i \in DOMAIN queue[d] /\ queue'[d][i] = queue[d][i]
        BY <4>1, <3>1, <3>2, <1>6
      <4>2. CASE i = n /\ queue'[d][i] = t
        BY <4>2, <3>1, <1>7
      <4> QED BY <4>1, <4>2, <1>10
    <3> QED BY <2>3, <3>4, <3>5
  <2> QED BY <2>2, <2>3
<1>18. WorkAccounted'
  <2>1. state[d] = "up" /\ waiting = {} /\ broken = NoJob
    BY <1>4 DEF Free, Up
  <2>2. ASSUME NEW k \in DOMAIN device'
        PROVE  \/ k = broken \/ state[device'[k].dir] = "failed"
               \/ /\ state[device'[k].dir] = "up"
                  /\ \E i \in DOMAIN queue'[device'[k].dir] :
                         queue'[device'[k].dir][i].job = k
    <3>1. CASE k \in DOMAIN device
      <4>1. device[k].dir \in Direction /\ device'[k] = device[k]
        BY <3>1, <1>3, <1>12 DEF Types, WorkRec
      <4> QED BY <3>1, <4>1, <1>3, <1>11 DEF WorkAccounted
    <3>2. CASE k = j
      BY <3>2, <2>1, <1>5, <1>7, <1>8, <1>12
    <3> QED BY <3>1, <3>2, <1>12
  <2>3. region # "mapped" => \A e \in Direction : state[e] # "up"
    BY <1>3 DEF WorkAccounted
  <2> QED BY <2>1, <2>2, <2>3, <1>4 DEF WorkAccounted
<1>19. AllCopied'
  BY <1>3, <1>8, <1>12 DEF AllCopied
<1>20. RegionOutlivesTransfers'
  <2>1. region = "mapped"
    BY <1>3, <1>4 DEF WorkAccounted, Free, Up
  <2> QED BY <1>4, <2>1 DEF RegionOutlivesTransfers
<1> QED BY <1>1, <1>13, <1>14, <1>15, <1>16, <1>17, <1>18, <1>19, <1>20 DEF IInv
\* What a transfer that raises took is lost; the queues are as they were.
LEMMA SubmitRaisesKeeps ==
    ASSUME WorkerAssumption, IInv, NEW d \in Direction, NEW j \in Job,
           NEW ops \in OpLists, SubmitRaises(d, j, ops)
    PROVE  IInv'
<1>1. PICK s \in {Stream(d)}, ev \in {EventPair(d)}, b \in {Buffer(d, Len(ops))} :
          /\ Acquire(d, j, ops, s, ev, b)
          /\ events' = Put(Put(events, ev[1], j), ev[2], j)
          /\ device' = Put(device, j,
                [dir |-> d, after |-> After(d), gated |-> compute, buf |-> b,
                 ops |-> {}, copies |-> {}])
  BY DEF SubmitRaises
<1> DEFINE w == [dir |-> d, after |-> After(d), gated |-> compute, buf |-> b,
                 ops |-> {}, copies |-> {}]
<1>2. /\ Types /\ InOrder /\ StreamsOwned /\ EventsOwned /\ BuffersOwned
      /\ EventsKnown /\ WorkAccounted /\ AllCopied /\ RegionOutlivesTransfers
  BY DEF IInv
<1>3. /\ Free /\ j \notin DOMAIN device \cup done /\ broken' = j
      /\ sticky' \in BOOLEAN
      /\ UNCHANGED <<queue, eventOf, done, compute, waiting, state, region>>
  BY DEF SubmitRaises
<1>4. Len(ops) \in Nat
  BY LenProperties DEF WorkerAssumption
<1>5. /\ TookStream(d, s) /\ TookEvents(ev, j) /\ TookBuffer(b, j, Len(ops))
      /\ PoolsShrink
  <2>1. Drawn(d, Len(ops), s, ev, b)
    BY <1>2, <1>4, AllDrawn
  <2> QED BY <1>1, <1>2, <1>4, <2>1, Acquired DEF Took
<1>6. w \in WorkRec
  <2>1. After(d) \in Job \cup {NoJob}
    BY <1>2, AfterTheLast, QueueTypes
  <2> QED BY <2>1, <1>2, <1>5 DEF WorkRec, Types, TookBuffer
<1>7. device' \in [DOMAIN device' -> WorkRec] /\ Enqueued(j, w)
  BY <1>1, <1>2, <1>3, <1>6, WorkEnqueued
<1>8. /\ DOMAIN device' = DOMAIN device \cup {j} /\ device'[j] = w
      /\ \A k \in DOMAIN device : device'[k] = device[k] /\ k # j
  BY <1>3, <1>7 DEF Enqueued
<1>9. w.buf = b /\ w.ops = {} /\ w.copies = {}
  OBVIOUS
<1> HIDE DEF w
<1>10. Types'
  <2>1. /\ pool' \in [Direction -> PoolRec] /\ events' \in Seq(Job)
        /\ buffers' \in Seq([size : Nat, job : Job]) /\ numStreams' \in Nat
    BY <1>5 DEF TookStream, TookEvents, TookBuffer, PoolsShrink
  <2>2. DOMAIN device' \cup done' \cup waiting' \subseteq Job
    BY <1>2, <1>3, <1>8 DEF Types
  <2> QED BY <1>2, <1>3, <1>7, <2>1, <2>2 DEF Types
<1>11. InOrder'
  <2>1. DOMAIN device' \cap done' = {}
    BY <1>2, <1>3, <1>8 DEF InOrder
  <2>2. ASSUME NEW e \in Direction, NEW i \in DOMAIN queue[e]
        PROVE  /\ queue[e][i].job \in DOMAIN device' \cup done
               /\ queue[e][i].job \in done => \A k \in 1 .. i : queue[e][k].job \in done
               /\ queue[e][i].job \in DOMAIN device' =>
                     device'[queue[e][i].job].after
                        \in IF i = 1 THEN done \cup {NoJob} ELSE {queue[e][i - 1].job}
    <3>1. /\ queue[e][i].job \in DOMAIN device \cup done
          /\ queue[e][i].job \in done => \A k \in 1 .. i : queue[e][k].job \in done
          /\ queue[e][i].job \in DOMAIN device =>
                device[queue[e][i].job].after
                   \in IF i = 1 THEN done \cup {NoJob} ELSE {queue[e][i - 1].job}
      BY <1>2 DEF InOrder
    <3>2. queue[e][i].job # j
      BY <1>3, <3>1
    <3> QED BY <1>8, <3>1, <3>2
  <2>3. \A e, c \in Direction : \A i \in DOMAIN queue[e], k \in DOMAIN queue[c] :
            queue[e][i].job = queue[c][k].job => e = c /\ i = k
    BY <1>2 DEF InOrder
  <2>4. queue' = queue /\ done' = done
    BY <1>3
  <2>5. \A e \in Direction : \A i \in DOMAIN queue'[e] :
          /\ queue'[e][i].job \in DOMAIN device' \cup done'
          /\ queue'[e][i].job \in done' =>
                \A k \in 1 .. i : queue'[e][k].job \in done'
          /\ queue'[e][i].job \in DOMAIN device' =>
                device'[queue'[e][i].job].after
                    \in IF i = 1 THEN done' \cup {NoJob} ELSE {queue'[e][i - 1].job}
    BY <2>2, <2>4
  <2>6. \A e, c \in Direction : \A i \in DOMAIN queue'[e], k \in DOMAIN queue'[c] :
            queue'[e][i].job = queue'[c][k].job => e = c /\ i = k
    BY <2>3, <2>4
  <2> QED BY <2>1, <2>5, <2>6 DEF InOrder
<1>12. StreamsOwned'
  <2>1. SUFFICES ASSUME NEW e \in Direction
                 PROVE  /\ \A x \in pool'[e].streams : x <= numStreams'
                        /\ \A i \in DOMAIN queue[e] :
                              /\ queue[e][i].stream <= numStreams'
                              /\ queue[e][i].stream \notin pool'[e].streams
                              /\ \A k \in 1 .. i - 1 :
                                    queue[e][k].stream # queue[e][i].stream
    BY <1>3 DEF StreamsOwned
  <2>2. /\ pool[e].streams \subseteq Nat /\ numStreams \in Nat /\ numStreams' \in Nat
        /\ numStreams <= numStreams' /\ pool'[e].streams \subseteq pool[e].streams
    BY <1>2, <1>5 DEF Types, PoolRec, PoolsShrink, TookStream
  <2>3. \A i \in DOMAIN queue[e] : queue[e][i].stream \in Nat
    BY <1>2, QueueTypes
  <2> QED BY <1>2, <2>2, <2>3 DEF StreamsOwned
<1>13. EventsOwned'
  <2>1. pool'["store"].events \cap pool'["load"].events = {}
    BY <1>2, <1>5 DEF EventsOwned, PoolsShrink, Direction
  <2>2. \A e \in Direction : pool'[e].events \subseteq DOMAIN events'
    BY <1>2, <1>5 DEF EventsOwned, PoolsShrink, TookEvents
  <2>3. ASSUME NEW e \in Direction, NEW i \in DOMAIN queue[e],
               NEW x \in {queue[e][i].start, queue[e][i].end}
        PROVE  /\ x \in DOMAIN events' /\ events'[x] = queue[e][i].job
               /\ \A c \in Direction : x \notin pool'[c].events
    <3>1. /\ x \in DOMAIN events /\ events[x] = queue[e][i].job
          /\ \A c \in Direction : x \notin pool[c].events
      BY <1>2 DEF EventsOwned
    <3>2. x \in DOMAIN events' /\ events'[x] = events[x]
      BY <3>1, <1>5 DEF TookEvents
    <3> QED BY <3>1, <3>2, <1>5 DEF PoolsShrink
  <2> QED BY <1>3, <2>1, <2>2, <2>3 DEF EventsOwned
<1>14. BuffersOwned'
  <2>1. pool'["store"].buffers \cap pool'["load"].buffers = {}
    BY <1>2, <1>5 DEF BuffersOwned, PoolsShrink, Direction
  <2>2. \A e \in Direction : pool'[e].buffers \subseteq DOMAIN buffers'
    BY <1>2, <1>5 DEF BuffersOwned, PoolsShrink, TookBuffer
  <2>3. ASSUME NEW e \in Direction, NEW i \in DOMAIN queue[e]
        PROVE  /\ queue[e][i].buf \in DOMAIN buffers'
               /\ buffers'[queue[e][i].buf].job = queue[e][i].job
               /\ \A c \in Direction : queue[e][i].buf \notin pool'[c].buffers
    BY <1>2, <1>5 DEF BuffersOwned, PoolsShrink, TookBuffer
  <2>4. ASSUME NEW k \in DOMAIN device'
        PROVE  /\ device'[k].buf \in DOMAIN buffers'
               /\ buffers'[device'[k].buf].job = k
               /\ device'[k].ops \subseteq 1 .. buffers'[device'[k].buf].size
               /\ \A c \in Direction : device'[k].buf \notin pool'[c].buffers
    <3>1. CASE k \in DOMAIN device
      <4>1. device'[k] = device[k] /\ buffers'[device[k].buf] = buffers[device[k].buf]
        BY <3>1, <1>5, <1>8 DEF TookBuffer
      <4>2. /\ device[k].buf \in DOMAIN buffers /\ buffers[device[k].buf].job = k
            /\ device[k].ops \subseteq 1 .. buffers[device[k].buf].size
            /\ \A c \in Direction : device[k].buf \notin pool[c].buffers
        BY <3>1, <1>2 DEF BuffersOwned
      <4> QED BY <4>1, <4>2, <1>5 DEF PoolsShrink, TookBuffer
    <3>2. CASE k = j
      BY <3>2, <1>5, <1>8, <1>9 DEF TookBuffer
    <3> QED BY <3>1, <3>2, <1>8
  <2> QED BY <1>3, <2>1, <2>2, <2>3, <2>4 DEF BuffersOwned
<1>15. EventsKnown'
  BY <1>2, <1>3 DEF EventsKnown
<1>16. WorkAccounted'
  <2>1. waiting = {} /\ broken = NoJob
    BY <1>3 DEF Free, Up
  <2>2. \A k \in DOMAIN device : k # broken
    BY <1>2, <2>1 DEF WorkerAssumption, Types
  <2>3. ASSUME NEW k \in DOMAIN device'
        PROVE  \/ k = broken' \/ state[device'[k].dir] = "failed"
               \/ /\ state[device'[k].dir] = "up"
                  /\ \E i \in DOMAIN queue[device'[k].dir] :
                         queue[device'[k].dir][i].job = k
    BY <2>2, <1>2, <1>3, <1>8 DEF WorkAccounted
  <2>4. region # "mapped" => \A e \in Direction : state[e] # "up"
    BY <1>2 DEF WorkAccounted
  <2> QED BY <2>1, <2>3, <2>4, <1>3 DEF WorkAccounted
<1>17. AllCopied'
  BY <1>2, <1>8, <1>9 DEF AllCopied
<1>18. RegionOutlivesTransfers'
  <2>1. region = "mapped"
    BY <1>2, <1>3 DEF WorkAccounted, Free, Up, Direction
  <2> QED BY <1>3, <2>1 DEF RegionOutlivesTransfers
<1> QED BY <1>10, <1>11, <1>12, <1>13, <1>14, <1>15, <1>16, <1>17, <1>18 DEF IInv
\* get_finished pops the transfers that ran, all of them and no other.
LEMMA FinishedAreDone ==
    ASSUME Types, InOrder, EventsOwned, NEW d \in Direction
    PROVE  /\ NumFinished(d) \in 0 .. Len(queue[d])
           /\ \A i \in DOMAIN queue[d] : queue[d][i].job \in done <=> i <= NumFinished(d)
<1> DEFINE L == Len(queue[d])
           S == {n \in DOMAIN queue[d] : \A i \in 1 .. n : Query(queue[d][i].end)}
<1>1. L \in Nat /\ DOMAIN queue[d] = 1 .. L
  BY QueueTypes
<1>2. \A i \in DOMAIN queue[d] : Query(queue[d][i].end) <=> queue[d][i].job \in done
  BY DEF EventsOwned, Query
<1>3. \A i \in DOMAIN queue[d] :
          queue[d][i].job \in done => \A k \in 1 .. i : queue[d][k].job \in done
  BY DEF InOrder
<1>4. \A i \in DOMAIN queue[d] : i \in S <=> queue[d][i].job \in done
  <2>1. SUFFICES ASSUME NEW i \in DOMAIN queue[d]
                 PROVE  i \in S <=> queue[d][i].job \in done
    OBVIOUS
  <2>2. i \in 1 .. i /\ \A k \in 1 .. i : k \in DOMAIN queue[d]
    BY <1>1
  <2> QED BY <1>2, <1>3, <2>2
<1>5. NumFinished(d) = Cardinality(S)
  BY DEF NumFinished
<1>6. S \in SUBSET (1 .. L) /\ \A n \in S : \A i \in 1 .. n : i \in S
  <2>1. SUFFICES ASSUME NEW n \in S, NEW i \in 1 .. n PROVE i \in S
    BY <1>1
  <2>2. i \in DOMAIN queue[d] /\ n \in DOMAIN queue[d] /\ queue[d][n].job \in done
    BY <1>1, <1>4
  <2> QED BY <1>3, <1>4, <2>2
<1> HIDE DEF S
<1>7. NumFinished(d) \in 0 .. L /\ S = 1 .. NumFinished(d)
  BY <1>1, <1>5, <1>6, Segment
<1> QED BY <1>1, <1>4, <1>7

\* The queue, and the pools, of direction d after its first n are popped.
Popped(d, n) ==
    /\ n \in 0 .. Len(queue[d])
    /\ queue'[d] \in Seq(TransferRec)
    /\ DOMAIN queue'[d] = 1 .. Len(queue[d]) - n
    /\ \A i \in DOMAIN queue'[d] :
          n + i \in DOMAIN queue[d] /\ queue'[d][i] = queue[d][n + i]

Returned(d, n) ==
    LET Old == 1 .. n
    IN  pool'[d] = [streams |-> pool[d].streams \cup {queue[d][i].stream : i \in Old},
                    events |-> pool[d].events \cup {queue[d][i].start : i \in Old}
                                              \cup {queue[d][i].end : i \in Old},
                    buffers |-> pool[d].buffers \cup {queue[d][i].buf : i \in Old}]

\* get_finished pops the transfers that ran, and gives their stream, events
\* and buffer back.
LEMMA GetFinishedPops ==
    ASSUME Types, InOrder, EventsOwned, GetFinished, NEW d \in Direction
    PROVE  /\ Popped(d, NumFinished(d)) /\ Returned(d, NumFinished(d))
           /\ pool'[d] \in PoolRec
           /\ DOMAIN eventOf'[d] =
                 DOMAIN eventOf[d] \ {queue[d][i].job : i \in 1 .. NumFinished(d)}
           /\ \A j \in DOMAIN eventOf'[d] : eventOf'[d][j] = eventOf[d][j]
<1> DEFINE n == NumFinished(d)
           L == Len(queue[d])
<1>1. n \in 0 .. L
  BY FinishedAreDone
<1>2. /\ queue[d] \in Seq(TransferRec) /\ L \in Nat /\ DOMAIN queue[d] = 1 .. L
      /\ \A i \in 1 .. L : queue[d][i] \in TransferRec
  BY QueueTypes
<1>3. /\ Finished(d) = SubSeq(queue[d], 1, n)
      /\ queue'[d] = SubSeq(queue[d], n + 1, L)
      /\ pool'[d] = Released(pool[d], Finished(d))
      /\ eventOf'[d] = Restrict(eventOf[d], DOMAIN eventOf[d]
                                  \ {Finished(d)[i].job : i \in 1 .. NumFinished(d)})
  BY DEF GetFinished, Finished
<1> HIDE DEF n, L
<1>4. Popped(d, n)
  <2>1. n + 1 \in Int /\ L \in Int /\ \A i \in n + 1 .. L : queue[d][i] \in TransferRec
    BY <1>1, <1>2
  <2>2. /\ queue'[d] \in Seq(TransferRec)
        /\ Len(queue'[d]) = IF n + 1 <= L THEN L - (n + 1) + 1 ELSE 0
        /\ \A i \in 1 .. L - (n + 1) + 1 : queue'[d][i] = queue[d][(n + 1) + i - 1]
    BY <1>3, <2>1, SubSeqProperties
  <2>3. DOMAIN queue'[d] = 1 .. Len(queue'[d])
    BY <2>2, LenProperties
  <2>4. DOMAIN queue'[d] = 1 .. L - n
    BY <1>1, <1>2, <2>2, <2>3
  <2>5. \A i \in 1 .. L - n : n + i \in 1 .. L /\ queue'[d][i] = queue[d][n + i]
    <3>1. SUFFICES ASSUME NEW i \in 1 .. L - n
                   PROVE  n + i \in 1 .. L /\ queue'[d][i] = queue[d][n + i]
      OBVIOUS
    <3>2. i \in 1 .. L - (n + 1) + 1 /\ (n + 1) + i - 1 = n + i /\ n + i \in 1 .. L
      BY <1>1, <1>2
    <3> QED BY <2>2, <3>2
  <2> QED BY <1>1, <1>2, <2>2, <2>4, <2>5 DEF Popped, L
<1>5. DOMAIN Finished(d) = 1 .. n /\ \A i \in 1 .. n : Finished(d)[i] = queue[d][i]
  <2>1. 1 \in Int /\ n \in Int /\ \A i \in 1 .. n : queue[d][i] \in TransferRec
    BY <1>1, <1>2
  <2>2. /\ Finished(d) \in Seq(TransferRec)
        /\ Len(Finished(d)) = IF 1 <= n THEN n - 1 + 1 ELSE 0
        /\ \A i \in 1 .. n - 1 + 1 : Finished(d)[i] = queue[d][1 + i - 1]
    BY <1>3, <2>1, SubSeqProperties
  <2>3. DOMAIN Finished(d) = 1 .. Len(Finished(d))
    BY <2>2, LenProperties
  <2>4. Len(Finished(d)) = n
    BY <1>1, <1>2, <2>2
  <2>5. \A i \in 1 .. n : Finished(d)[i] = queue[d][i]
    <3>1. SUFFICES ASSUME NEW i \in 1 .. n PROVE Finished(d)[i] = queue[d][i]
      OBVIOUS
    <3>2. i \in 1 .. n - 1 + 1 /\ 1 + i - 1 = i
      BY <1>1, <1>2
    <3> QED BY <2>2, <3>2
  <2> QED BY <2>3, <2>4, <2>5
<1>6. Returned(d, n)
  <2> DEFINE F == Finished(d)
             q == queue[d]
  <2>1. DOMAIN F = 1 .. n /\ \A i \in 1 .. n : F[i] = q[i]
    BY <1>5
  <2>2. pool'[d] = Released(pool[d], F)
    BY <1>3
  <2> HIDE DEF F
  <2>3. /\ {F[i].stream : i \in DOMAIN F} = {q[i].stream : i \in 1 .. n}
        /\ {F[i].start : i \in DOMAIN F} = {q[i].start : i \in 1 .. n}
    BY ONLY <2>1
  <2>4. /\ {F[i].end : i \in DOMAIN F} = {q[i].end : i \in 1 .. n}
        /\ {F[i].buf : i \in DOMAIN F} = {q[i].buf : i \in 1 .. n}
    BY ONLY <2>1
  <2> QED BY ONLY <2>2, <2>3, <2>4 DEF Returned, Released
<1>7. pool'[d] \in PoolRec
  <2>1. pool[d] \in PoolRec
    BY DEF Types
  <2>2. \A i \in 1 .. n : /\ queue[d][i].stream \in Nat /\ queue[d][i].start \in Nat
                          /\ queue[d][i].end \in Nat /\ queue[d][i].buf \in Nat
    <3>1. \A i \in 1 .. n : i \in 1 .. L
      BY <1>1, <1>2
    <3>2. \A i \in 1 .. L : queue[d][i] \in TransferRec
      BY <1>1, <1>2
    <3> QED BY ONLY <3>1, <3>2 DEF TransferRec
  <2> QED BY <1>6, <2>1, <2>2 DEF PoolRec, Returned
<1>8. /\ DOMAIN eventOf'[d] = DOMAIN eventOf[d] \ {queue[d][i].job : i \in 1 .. n}
      /\ \A j \in DOMAIN eventOf'[d] : eventOf'[d][j] = eventOf[d][j]
  <2> DEFINE gone == {queue[d][i].job : i \in 1 .. n}
             e == eventOf[d]
  <2>1. {Finished(d)[i].job : i \in 1 .. NumFinished(d)} = gone
    BY <1>5 DEF n
  <2>2. eventOf'[d] = Restrict(e, DOMAIN e \ gone)
    BY <1>3, <2>1
  <2> HIDE DEF gone, e
  <2>3. DOMAIN eventOf'[d] = DOMAIN e \ gone
    BY ONLY <2>2 DEF Restrict
  <2>4. \A j \in DOMAIN eventOf'[d] : eventOf'[d][j] = e[j]
    BY ONLY <2>2, <2>3 DEF Restrict
  <2> QED BY <2>3, <2>4 DEF gone, e
<1> QED BY <1>4, <1>6, <1>7, <1>8 DEF n

\* What get_finished gives back was used by transfers that ran, and by no
\* other.
LEMMA GetFinishedKeeps ==
    ASSUME WorkerAssumption, IInv, GetFinished
    PROVE  IInv'
<1>1. /\ Types /\ InOrder /\ StreamsOwned /\ EventsOwned /\ BuffersOwned
      /\ EventsKnown /\ WorkAccounted /\ AllCopied /\ RegionOutlivesTransfers
  BY DEF IInv
<1>2. UNCHANGED <<events, buffers, numStreams, sticky, deviceVars, waiting,
                  state, broken, region>>
  BY DEF GetFinished
<1>2a. device' = device /\ done' = done /\ compute' = compute
  BY <1>2 DEF deviceVars
<1> DEFINE n(d) == NumFinished(d)
<1>3. \A d \in Direction :
         /\ n(d) \in 0 .. Len(queue[d])
         /\ \A i \in DOMAIN queue[d] : queue[d][i].job \in done <=> i <= n(d)
         /\ Len(queue[d]) \in Nat /\ DOMAIN queue[d] = 1 .. Len(queue[d])
  BY <1>1, FinishedAreDone, QueueTypes
<1>4. \A d \in Direction :
         /\ Popped(d, n(d)) /\ Returned(d, n(d)) /\ pool'[d] \in PoolRec
         /\ DOMAIN eventOf'[d] = DOMAIN eventOf[d] \ {queue[d][i].job : i \in 1 .. n(d)}
         /\ \A j \in DOMAIN eventOf'[d] : eventOf'[d][j] = eventOf[d][j]
  BY <1>1, GetFinishedPops
<1> HIDE DEF n
\* What is left of a queue is its end, and none of it ran.
<1>5. \A d \in Direction : \A i \in DOMAIN queue'[d] :
         /\ i \in Nat \ {0} /\ n(d) \in Nat /\ n(d) + i \in DOMAIN queue[d]
         /\ queue'[d][i] = queue[d][n(d) + i]
         /\ queue'[d][i].job \notin done
  <2>1. SUFFICES ASSUME NEW d \in Direction, NEW i \in DOMAIN queue'[d]
                 PROVE  /\ i \in Nat \ {0} /\ n(d) \in Nat /\ n(d) + i \in DOMAIN queue[d]
                        /\ queue'[d][i] = queue[d][n(d) + i]
                        /\ queue'[d][i].job \notin done
    OBVIOUS
  <2>2. n(d) + i \in DOMAIN queue[d] /\ queue'[d][i] = queue[d][n(d) + i]
    BY <1>4 DEF Popped
  <2>3. i \in Nat \ {0} /\ n(d) \in Nat
    BY <1>3, <1>4 DEF Popped
  <2>4. ~(n(d) + i <= n(d))
    BY <2>3
  <2> QED BY <1>3, <2>2, <2>3, <2>4
<1>6. \A d \in Direction : \A i \in DOMAIN queue[d] :
         ~(i <= n(d)) => i - n(d) \in DOMAIN queue'[d] /\ queue'[d][i - n(d)] = queue[d][i]
  <2>1. ASSUME NEW d \in Direction, NEW i \in DOMAIN queue[d], ~(i <= n(d))
        PROVE  i - n(d) \in DOMAIN queue'[d] /\ queue'[d][i - n(d)] = queue[d][i]
    <3> DEFINE l == i - n(d)
    <3>1. l \in 1 .. Len(queue[d]) - n(d) /\ n(d) + l = i
      BY <1>3, <2>1
    <3> HIDE DEF l
    <3>2. /\ DOMAIN queue'[d] = 1 .. Len(queue[d]) - n(d)
          /\ \A m \in DOMAIN queue'[d] : queue'[d][m] = queue[d][n(d) + m]
      BY <1>4 DEF Popped
    <3>3. l \in DOMAIN queue'[d] /\ queue'[d][l] = queue[d][i]
      BY <3>1, <3>2
    <3> QED BY <3>3 DEF l
  <2> QED BY <2>1
<1>7. Types'
  <2>1. pool' \in [Direction -> PoolRec] /\ DOMAIN eventOf' = Direction
    BY <1>4 DEF GetFinished
  <2>2. queue' \in [Direction -> Seq(TransferRec)]
    BY <1>4 DEF GetFinished, Popped
  <2> QED BY <1>1, <1>2, <1>2a, <2>1, <2>2 DEF Types
<1>8. InOrder'
  <2>1. ASSUME NEW d \in Direction, NEW i \in DOMAIN queue'[d]
        PROVE  /\ queue'[d][i].job \in DOMAIN device
               /\ device[queue'[d][i].job].after
                    \in IF i = 1 THEN done \cup {NoJob} ELSE {queue'[d][i - 1].job}
    <3> DEFINE k == n(d) + i
    <3>1. k \in DOMAIN queue[d] /\ queue'[d][i] = queue[d][k] /\ queue[d][k].job \notin done
      BY <1>5
    <3>2. /\ queue[d][k].job \in DOMAIN device
          /\ device[queue[d][k].job].after
                \in IF k = 1 THEN done \cup {NoJob} ELSE {queue[d][k - 1].job}
      BY <1>1, <3>1 DEF InOrder
    <3>3. CASE i = 1 /\ n(d) = 0
      BY <3>1, <3>2, <3>3
    <3>4. CASE i = 1 /\ n(d) # 0
      <4>1. k # 1 /\ k - 1 = n(d) /\ n(d) \in DOMAIN queue[d] /\ n(d) <= n(d)
        BY <1>3, <1>5, <3>4
      <4>2. queue[d][k - 1].job \in done
        BY <1>3, <4>1
      <4> QED BY <3>1, <3>2, <3>4, <4>1, <4>2
    <3>5. CASE i # 1
      <4>1. k # 1 /\ k - 1 = n(d) + (i - 1) /\ i - 1 \in DOMAIN queue'[d]
        BY <1>3, <1>4, <1>5, <3>5 DEF Popped
      <4>2. queue'[d][i - 1] = queue[d][n(d) + (i - 1)]
        BY <1>5, <4>1
      <4> QED BY <3>1, <3>2, <3>5, <4>1, <4>2
    <3> QED BY <3>3, <3>4, <3>5
  <2>2. ASSUME NEW d \in Direction, NEW e \in Direction,
               NEW i \in DOMAIN queue'[d], NEW k \in DOMAIN queue'[e],
               queue'[d][i].job = queue'[e][k].job
        PROVE  d = e /\ i = k
    <3>1. d = e /\ n(d) + i = n(e) + k
      BY <1>1, <1>5, <2>2 DEF InOrder
    <3> QED BY <1>5, <3>1
  <2>3. DOMAIN device' \cap done' = {}
    BY <1>1, <1>2a DEF InOrder
  <2> QED BY <1>2a, <1>5, <2>1, <2>2, <2>3 DEF InOrder
\* What is returned to a pool was in use by a transfer that ran.
<1>9. \A d \in Direction :
         /\ pool'[d].streams = pool[d].streams \cup {queue[d][i].stream : i \in 1 .. n(d)}
         /\ pool'[d].events = pool[d].events \cup {queue[d][i].start : i \in 1 .. n(d)}
                                             \cup {queue[d][i].end : i \in 1 .. n(d)}
         /\ pool'[d].buffers = pool[d].buffers \cup {queue[d][i].buf : i \in 1 .. n(d)}
         /\ \A i \in 1 .. n(d) : i \in DOMAIN queue[d] /\ queue[d][i].job \in done
  <2>1. \A d \in Direction : \A i \in 1 .. n(d) :
            i \in DOMAIN queue[d] /\ queue[d][i].job \in done
    BY <1>3
  <2>2. ASSUME NEW d \in Direction
        PROVE  /\ pool'[d].streams =
                     pool[d].streams \cup {queue[d][i].stream : i \in 1 .. n(d)}
               /\ pool'[d].events =
                     pool[d].events \cup {queue[d][i].start : i \in 1 .. n(d)}
                                    \cup {queue[d][i].end : i \in 1 .. n(d)}
               /\ pool'[d].buffers =
                     pool[d].buffers \cup {queue[d][i].buf : i \in 1 .. n(d)}
    <3>1. Returned(d, n(d))
      BY <1>4
    <3> QED BY <3>1 DEF Returned
  <2> QED BY <2>1, <2>2
<1>10. StreamsOwned'
  <2>1. SUFFICES ASSUME NEW d \in Direction
                 PROVE  /\ \A x \in pool'[d].streams : x <= numStreams
                        /\ \A i \in DOMAIN queue'[d] :
                              /\ queue'[d][i].stream <= numStreams
                              /\ queue'[d][i].stream \notin pool'[d].streams
                              /\ \A k \in 1 .. i - 1 :
                                    queue'[d][k].stream # queue'[d][i].stream
    BY <1>2 DEF StreamsOwned
  <2>2. /\ \A x \in pool[d].streams : x <= numStreams
        /\ \A i \in DOMAIN queue[d] :
              /\ queue[d][i].stream <= numStreams
              /\ queue[d][i].stream \notin pool[d].streams
              /\ \A k \in 1 .. i - 1 : queue[d][k].stream # queue[d][i].stream
    BY <1>1 DEF StreamsOwned
  <2>3. \A x \in pool'[d].streams : x <= numStreams
    BY <2>2, <1>9
  <2>4. ASSUME NEW i \in DOMAIN queue'[d]
        PROVE  /\ queue'[d][i].stream <= numStreams
               /\ queue'[d][i].stream \notin pool'[d].streams
               /\ \A k \in 1 .. i - 1 : queue'[d][k].stream # queue'[d][i].stream
    <3>1. /\ n(d) + i \in DOMAIN queue[d] /\ queue'[d][i] = queue[d][n(d) + i]
          /\ i \in Nat \ {0} /\ n(d) \in Nat
      BY <1>5
    <3>2. \A k \in 1 .. n(d) : queue[d][k].stream # queue[d][n(d) + i].stream
      <4>1. \A k \in 1 .. n(d) : k \in 1 .. (n(d) + i) - 1
        BY <3>1
      <4> QED BY <4>1, <3>1, <2>2
    <3>3. \A k \in 1 .. i - 1 : queue'[d][k].stream # queue'[d][i].stream
      <4>1. SUFFICES ASSUME NEW k \in 1 .. i - 1
                     PROVE  queue'[d][k].stream # queue'[d][i].stream
        OBVIOUS
      <4>2. k \in DOMAIN queue'[d] /\ n(d) + k \in 1 .. (n(d) + i) - 1
        BY <1>3, <1>4, <3>1 DEF Popped
      <4>3. queue'[d][k] = queue[d][n(d) + k]
        BY <1>5, <4>2
      <4> QED BY <4>2, <4>3, <3>1, <2>2
    <3> QED BY <2>2, <1>9, <3>1, <3>2, <3>3
  <2> QED BY <2>3, <2>4
<1>11. EventsOwned'
  <2>1. \A d, e \in Direction : d # e =>
           \A i \in DOMAIN queue[d], k \in DOMAIN queue[e] :
              \A x \in {queue[d][i].start, queue[d][i].end} :
                 x \notin {queue[e][k].start, queue[e][k].end}
    <3>1. SUFFICES ASSUME NEW d \in Direction, NEW e \in Direction, d # e,
                          NEW i \in DOMAIN queue[d], NEW k \in DOMAIN queue[e],
                          NEW x \in {queue[d][i].start, queue[d][i].end},
                          x \in {queue[e][k].start, queue[e][k].end}
                   PROVE  FALSE
      OBVIOUS
    <3>2. events[x] = queue[d][i].job /\ events[x] = queue[e][k].job
      BY <1>1, <3>1 DEF EventsOwned
    <3>3. \A c, f \in Direction : \A l \in DOMAIN queue[c], m \in DOMAIN queue[f] :
              queue[c][l].job = queue[f][m].job => c = f /\ l = m
      BY <1>1 DEF InOrder
    <3>4. queue[d][i].job = queue[e][k].job
      BY <3>2
    <3>5. d = e
      BY <3>3, <3>4
    <3> QED BY <3>1, <3>5
  <2>2. pool'["store"].events \cap pool'["load"].events = {}
    <3>1. "store" \in Direction /\ "load" \in Direction
      BY DEF Direction
    <3>2. \A d, e \in Direction : \A i \in 1 .. n(d) :
              queue[d][i].start \notin pool[e].events /\ queue[d][i].end \notin pool[e].events
      BY <1>1, <1>9 DEF EventsOwned
    <3>3. pool["store"].events \cap pool["load"].events = {}
      BY <1>1 DEF EventsOwned
    <3>4. SUFFICES ASSUME NEW x, x \in pool'["store"].events, x \in pool'["load"].events
                   PROVE  FALSE
      OBVIOUS
    <3>5. x \in pool["store"].events
             \/ \E i \in 1 .. n("store") : x \in {queue["store"][i].start, queue["store"][i].end}
      BY <1>9, <3>1, <3>4
    <3>6. x \in pool["load"].events
             \/ \E i \in 1 .. n("load") : x \in {queue["load"][i].start, queue["load"][i].end}
      BY <1>9, <3>1, <3>4
    <3> QED BY <1>9, <2>1, <3>1, <3>2, <3>3, <3>5, <3>6
  <2>3. \A d \in Direction : pool'[d].events \subseteq DOMAIN events
    BY <1>1, <1>9 DEF EventsOwned
  <2>4. ASSUME NEW d \in Direction, NEW i \in DOMAIN queue'[d],
               NEW x \in {queue'[d][i].start, queue'[d][i].end}
        PROVE  /\ x \in DOMAIN events /\ events[x] = queue'[d][i].job
               /\ \A c \in Direction : x \notin pool'[c].events
    <3>1. /\ x \in DOMAIN events /\ events[x] = queue'[d][i].job
          /\ \A c \in Direction : x \notin pool[c].events
      BY <1>1, <1>5 DEF EventsOwned
    <3>2. events[x] \notin done
      BY <1>5, <3>1
    <3>3. ASSUME NEW c \in Direction, NEW k \in 1 .. n(c),
                 x \in {queue[c][k].start, queue[c][k].end}
          PROVE  FALSE
      <4>1. events[x] = queue[c][k].job /\ queue[c][k].job \in done
        BY <1>1, <1>9, <3>3 DEF EventsOwned
      <4> QED BY <3>2, <4>1
    <3> QED BY <1>9, <3>1, <3>3
  <2> QED BY <1>2, <2>2, <2>3, <2>4 DEF EventsOwned
<1>12. BuffersOwned'
  <2>1. ASSUME NEW d \in Direction, NEW i \in 1 .. n(d)
        PROVE  /\ queue[d][i].buf \in DOMAIN buffers
               /\ buffers[queue[d][i].buf].job = queue[d][i].job
               /\ queue[d][i].job \in done
               /\ \A c \in Direction : queue[d][i].buf \notin pool[c].buffers
    BY <1>1, <1>9 DEF BuffersOwned
  <2>2. \A d, e \in Direction : \A i \in 1 .. n(d), k \in 1 .. n(e) :
            queue[d][i].buf = queue[e][k].buf => d = e
    <3>1. \A c, f \in Direction : \A l \in DOMAIN queue[c], m \in DOMAIN queue[f] :
              queue[c][l].job = queue[f][m].job => c = f
      BY <1>1 DEF InOrder
    <3> QED BY <1>9, <2>1, <3>1
  <2>3. pool'["store"].buffers \cap pool'["load"].buffers = {}
    <3>1. "store" \in Direction /\ "load" \in Direction
      BY DEF Direction
    <3>2. pool["store"].buffers \cap pool["load"].buffers = {}
      BY <1>1 DEF BuffersOwned
    <3>3. SUFFICES ASSUME NEW x, x \in pool'["store"].buffers, x \in pool'["load"].buffers
                   PROVE  FALSE
      OBVIOUS
    <3>4. x \in pool["store"].buffers \/ \E i \in 1 .. n("store") : x = queue["store"][i].buf
      BY <1>9, <3>1, <3>3
    <3>5. x \in pool["load"].buffers \/ \E i \in 1 .. n("load") : x = queue["load"][i].buf
      BY <1>9, <3>1, <3>3
    <3> QED BY <2>1, <2>2, <3>1, <3>2, <3>4, <3>5
  <2>4. \A d \in Direction : pool'[d].buffers \subseteq DOMAIN buffers
    BY <1>1, <1>9, <2>1 DEF BuffersOwned
  \* A buffer whose writer did not run is not among those returned.
  <2>5. ASSUME NEW x, buffers[x].job \notin done,
               \A c \in Direction : x \notin pool[c].buffers
        PROVE  \A c \in Direction : x \notin pool'[c].buffers
    BY <1>9, <2>1, <2>5
  <2>6. ASSUME NEW d \in Direction, NEW i \in DOMAIN queue'[d]
        PROVE  /\ queue'[d][i].buf \in DOMAIN buffers
               /\ buffers[queue'[d][i].buf].job = queue'[d][i].job
               /\ \A c \in Direction : queue'[d][i].buf \notin pool'[c].buffers
    <3>1. /\ queue'[d][i].buf \in DOMAIN buffers
          /\ buffers[queue'[d][i].buf].job = queue'[d][i].job
          /\ \A c \in Direction : queue'[d][i].buf \notin pool[c].buffers
      BY <1>1, <1>5 DEF BuffersOwned
    <3> QED BY <1>5, <2>5, <3>1
  <2>7. ASSUME NEW j \in DOMAIN device
        PROVE  /\ device[j].buf \in DOMAIN buffers
               /\ buffers[device[j].buf].job = j
               /\ device[j].ops \subseteq 1 .. buffers[device[j].buf].size
               /\ \A c \in Direction : device[j].buf \notin pool'[c].buffers
    <3>1. /\ device[j].buf \in DOMAIN buffers
          /\ buffers[device[j].buf].job = j
          /\ device[j].ops \subseteq 1 .. buffers[device[j].buf].size
          /\ \A c \in Direction : device[j].buf \notin pool[c].buffers
      BY <1>1 DEF BuffersOwned
    <3>2. j \notin done
      BY <1>1 DEF InOrder
    <3> QED BY <2>5, <3>1, <3>2
  <2> QED BY <1>2, <1>2a, <2>3, <2>4, <2>6, <2>7 DEF BuffersOwned
<1>13. EventsKnown'
  <2>1. SUFFICES ASSUME NEW d \in Direction
                 PROVE  /\ \A j \in DOMAIN eventOf'[d] :
                              \E i \in DOMAIN queue'[d] : queue'[d][i].job = j
                        /\ \A i \in DOMAIN queue'[d] :
                              /\ queue'[d][i].job \in DOMAIN eventOf'[d]
                              /\ eventOf'[d][queue'[d][i].job] = queue'[d][i].end
    BY DEF EventsKnown
  <2>2. ASSUME NEW j \in DOMAIN eventOf'[d]
        PROVE  \E i \in DOMAIN queue'[d] : queue'[d][i].job = j
    <3>1. PICK i \in DOMAIN queue[d] : queue[d][i].job = j
      BY <1>1, <1>4 DEF EventsKnown
    <3>2. ~(i <= n(d))
      <4>1. j \notin {queue[d][k].job : k \in 1 .. n(d)}
        BY <1>4
      <4>2. i \in Nat \ {0} /\ n(d) \in Nat
        BY <1>3
      <4> QED BY <3>1, <4>1, <4>2
    <3> QED BY <1>6, <3>1, <3>2
  <2>3. ASSUME NEW i \in DOMAIN queue'[d]
        PROVE  /\ queue'[d][i].job \in DOMAIN eventOf'[d]
               /\ eventOf'[d][queue'[d][i].job] = queue'[d][i].end
    <3>1. /\ queue'[d][i].job \in DOMAIN eventOf[d]
          /\ eventOf[d][queue'[d][i].job] = queue'[d][i].end
      BY <1>1, <1>5 DEF EventsKnown
    <3>2. queue'[d][i].job \notin {queue[d][k].job : k \in 1 .. n(d)}
      BY <1>5, <1>9
    <3> QED BY <1>4, <3>1, <3>2
  <2> QED BY <2>2, <2>3
<1>14. WorkAccounted'
  <2>1. ASSUME NEW j \in DOMAIN device
        PROVE  \/ j = broken \/ state[device[j].dir] = "failed"
               \/ /\ state[device[j].dir] = "up"
                  /\ \E i \in DOMAIN queue'[device[j].dir] :
                         queue'[device[j].dir][i].job = j
    <3> DEFINE d == device[j].dir
    <3>1. CASE state[d] = "up" /\ \E i \in DOMAIN queue[d] : queue[d][i].job = j
      <4>1. d \in Direction
        BY <1>1 DEF Types, WorkRec
      <4>2. PICK i \in DOMAIN queue[d] : queue[d][i].job = j
        BY <3>1
      <4>3. j \notin done
        BY <1>1 DEF InOrder
      <4> HIDE DEF d
      <4>4. ~(i <= n(d))
        BY <1>3, <4>1, <4>2, <4>3
      <4>5. i - n(d) \in DOMAIN queue'[d] /\ queue'[d][i - n(d)].job = j
        BY <1>6, <4>1, <4>2, <4>4
      <4> QED BY <3>1, <4>5 DEF d
    <3> QED BY <1>1, <3>1 DEF WorkAccounted
  <2>2. (waiting # {} => Up) /\ (region # "mapped" => \A d \in Direction : state[d] # "up")
    BY <1>1 DEF WorkAccounted
  <2> QED BY <1>2, <1>2a, <2>1, <2>2 DEF WorkAccounted, Up
<1>15. AllCopied' /\ RegionOutlivesTransfers'
  BY <1>1, <1>2, <1>2a DEF AllCopied, RegionOutlivesTransfers
<1> QED BY <1>7, <1>8, <1>10, <1>11, <1>12, <1>13, <1>14, <1>15 DEF IInv

-----------------------------------------------------------------------------
(***************************************************************************)
(* The other steps.                                                        *)
(***************************************************************************)
\* Most of the invariant is about the queues, the pools and the device.
LEMMA LeftAlone ==
    ASSUME IInv, UNCHANGED handlerVars, device' = device, done' = done
    PROVE  /\ InOrder' /\ StreamsOwned' /\ EventsOwned' /\ BuffersOwned'
           /\ EventsKnown' /\ AllCopied'
<1>1. /\ queue' = queue /\ eventOf' = eventOf /\ pool' = pool
      /\ events' = events /\ buffers' = buffers /\ numStreams' = numStreams
  BY DEF handlerVars
<1>2. InOrder'
  <2>1. InOrder
    BY DEF IInv
  <2>2. \A d, e \in Direction : \A i \in DOMAIN queue'[d], k \in DOMAIN queue'[e] :
            queue'[d][i].job = queue'[e][k].job => d = e /\ i = k
    BY <1>1, <2>1 DEF InOrder
  <2>3. ASSUME NEW d \in Direction, NEW i \in DOMAIN queue[d]
        PROVE  /\ queue[d][i].job \in DOMAIN device \cup done
               /\ queue[d][i].job \in done =>
                     \A k \in 1 .. i : queue[d][k].job \in done
               /\ queue[d][i].job \in DOMAIN device =>
                     device[queue[d][i].job].after
                        \in IF i = 1 THEN done \cup {NoJob} ELSE {queue[d][i - 1].job}
    BY <2>1 DEF InOrder
  <2>4. DOMAIN device' \cap done' = {}
    BY <2>1 DEF InOrder
  <2> QED BY <1>1, <2>2, <2>3, <2>4 DEF InOrder
<1>3. StreamsOwned'
  BY <1>1 DEF IInv, StreamsOwned
<1>4. EventsOwned'
  BY <1>1 DEF IInv, EventsOwned
<1>5. BuffersOwned'
  BY <1>1 DEF IInv, BuffersOwned
<1>6. EventsKnown' /\ AllCopied'
  BY <1>1 DEF IInv, EventsKnown, AllCopied
<1> QED BY <1>2, <1>3, <1>4, <1>5, <1>6

\* Polling, waiting, the model's work and unmapping leave the transfers alone
\* (wait, CPUOffloadingWorker.shutdown).
LEMMA WaitingKeeps ==
    ASSUME IInv,
           \/ \E J \in (SUBSET Job) \ {{}} : Wait(J)
           \/ WaitReturns \/ Enqueue
           \/ \E outcome \in {"clean", "forced"} : Unmap(outcome)
           \/ UNCHANGED vars
    PROVE  IInv'
<1>1. /\ UNCHANGED handlerVars /\ UNCHANGED <<sticky, device, done, state, broken>>
      /\ waiting' \subseteq Job /\ compute' \in BOOLEAN
      /\ waiting' # {} => Up
  BY DEF IInv, Types, WorkAccounted, Wait, WaitReturns, Enqueue, Unmap, vars,
         deviceVars, Free
<1>2. /\ InOrder' /\ StreamsOwned' /\ EventsOwned' /\ BuffersOwned'
      /\ EventsKnown' /\ AllCopied'
  BY <1>1, LeftAlone
<1>3. Types'
  BY <1>1 DEF IInv, Types, handlerVars
<1>4. /\ region' # "mapped" => \A d \in Direction : state[d] # "up"
      /\ region' = "clean" => DOMAIN device \subseteq {broken}
  <2>1. CASE \E outcome \in {"clean", "forced"} : Unmap(outcome)
    <3>1. \A d \in Direction : state[d] # "up"
      BY <2>1 DEF Unmap
    <3>2. CASE region' = "clean" /\ ~(\E d \in Direction : state[d] = "failed")
      <4>1. \A j \in DOMAIN device : j = broken
        <5>1. \A j \in DOMAIN device : device[j].dir \in Direction
          BY DEF IInv, Types, WorkRec
        <5> QED BY <3>1, <3>2, <5>1 DEF IInv, WorkAccounted
      <4> QED BY <3>1, <4>1
    <3>3. CASE region' = "clean" /\ \E d \in Direction : state[d] = "failed"
      BY <2>1, <3>1, <3>3 DEF Unmap, Quiet
    <3>4. CASE region' # "clean"
      BY <3>1, <3>4
    <3> QED BY <3>2, <3>3, <3>4
  <2>2. CASE region' = region
    BY <2>2 DEF IInv, WorkAccounted, RegionOutlivesTransfers
  <2> QED BY <2>1, <2>2 DEF Wait, WaitReturns, Enqueue, vars
<1>5. WorkAccounted' /\ RegionOutlivesTransfers'
  <2>1. queue' = queue /\ device' = device /\ state' = state /\ broken' = broken
    BY <1>1 DEF handlerVars
  <2>2. \A j \in DOMAIN device :
           LET d == device[j].dir
           IN  \/ j = broken
               \/ state[d] = "failed"
               \/ state[d] = "up" /\ \E i \in DOMAIN queue[d] : queue[d][i].job = j
    BY DEF IInv, WorkAccounted
  <2> QED BY <1>1, <1>4, <2>1, <2>2 DEF WorkAccounted, RegionOutlivesTransfers, Up
<1> QED BY <1>2, <1>3, <1>5 DEF IInv

\* A direction that was drained leaves nothing on the device; one whose drain
\* failed is marked as such (shutdown).
LEMMA ShutdownKeeps ==
    ASSUME IInv, NEW d \in Direction, NEW outcome \in {"down", "failed"},
           ShutdownDirection(d, outcome)
    PROVE  IInv'
<1>1. /\ waiting = {} /\ state[d] = "up"
      /\ IF outcome = "down" THEN Drained(d) ELSE ~Drained(d)
      /\ state' = [state EXCEPT ![d] = outcome]
      /\ UNCHANGED <<events, buffers, numStreams, sticky, device, done, compute,
                     waiting, broken, region>>
  BY DEF ShutdownDirection, Turn, deviceVars
<1>2. /\ Types /\ InOrder /\ StreamsOwned /\ EventsOwned /\ BuffersOwned
      /\ EventsKnown /\ WorkAccounted /\ AllCopied /\ RegionOutlivesTransfers
  BY DEF IInv
<1>3. /\ \A e \in Direction : e # d =>
            queue'[e] = queue[e] /\ pool'[e] = pool[e] /\ eventOf'[e] = eventOf[e]
      /\ queue'[d] = <<>> /\ DOMAIN queue'[d] = {} /\ DOMAIN eventOf'[d] = {}
      /\ pool'[d] = [streams |-> {}, events |-> {}, buffers |-> {}]
      /\ \A e \in Direction : state'[e] = IF e = d THEN outcome ELSE state[e]
  <2>1. /\ queue' = [queue EXCEPT ![d] = <<>>]
        /\ eventOf' = [eventOf EXCEPT ![d] = [j \in {} |-> 0]]
        /\ pool' = [pool EXCEPT ![d] = [streams |-> {}, events |-> {}, buffers |-> {}]]
    BY DEF ShutdownDirection
  <2>2. DOMAIN (<<>>) = {}
    OBVIOUS
  <2> QED BY <1>1, <1>2, <2>1, <2>2 DEF Types
<1>4. Types'
  <2>1. [streams |-> {}, events |-> {}, buffers |-> {}] \in PoolRec
    BY DEF PoolRec
  <2>2. pool' \in [Direction -> PoolRec]
    BY <1>2, <2>1 DEF Types, ShutdownDirection
  <2>3. queue' \in [Direction -> Seq(TransferRec)]
    <3>1. <<>> \in Seq(TransferRec)
      OBVIOUS
    <3> QED BY <1>2, <3>1 DEF Types, ShutdownDirection
  <2>4. DOMAIN eventOf' = Direction /\ DOMAIN state' = Direction
    BY <1>2 DEF Types, ShutdownDirection
  <2> QED BY <1>1, <1>2, <2>2, <2>3, <2>4 DEF Types
<1>5. InOrder'
  <2>1. ASSUME NEW e \in Direction, NEW i \in DOMAIN queue'[e]
        PROVE  /\ queue'[e][i].job \in DOMAIN device \cup done
               /\ queue'[e][i].job \in done =>
                     \A k \in 1 .. i : queue'[e][k].job \in done
               /\ queue'[e][i].job \in DOMAIN device =>
                     device[queue'[e][i].job].after
                        \in IF i = 1 THEN done \cup {NoJob} ELSE {queue'[e][i - 1].job}
    BY <1>2, <1>3 DEF InOrder
  <2>2. \A e, c \in Direction : \A i \in DOMAIN queue'[e], k \in DOMAIN queue'[c] :
            queue'[e][i].job = queue'[c][k].job => e = c /\ i = k
    BY <1>2, <1>3 DEF InOrder
  <2>3. DOMAIN device \cap done = {}
    BY <1>2 DEF InOrder
  <2> QED BY <1>1, <2>1, <2>2, <2>3 DEF InOrder
<1>6. StreamsOwned'
  BY <1>1, <1>2, <1>3 DEF StreamsOwned
<1>7. \A e \in Direction : /\ pool'[e].events \subseteq pool[e].events
                           /\ pool'[e].buffers \subseteq pool[e].buffers
  BY <1>3
<1>8. EventsOwned'
  <2>1. pool'["store"].events \cap pool'["load"].events = {}
    BY <1>2, <1>7 DEF EventsOwned, Direction
  <2>2. \A e \in Direction : pool'[e].events \subseteq DOMAIN events
    BY <1>2, <1>7 DEF EventsOwned
  <2>3. ASSUME NEW e \in Direction, NEW i \in DOMAIN queue'[e],
               NEW x \in {queue'[e][i].start, queue'[e][i].end}
        PROVE  /\ x \in DOMAIN events /\ events[x] = queue'[e][i].job
               /\ \A c \in Direction : x \notin pool'[c].events
    BY <1>2, <1>3, <1>7 DEF EventsOwned
  <2> QED BY <1>1, <2>1, <2>2, <2>3 DEF EventsOwned
<1>9. BuffersOwned'
  <2>1. pool'["store"].buffers \cap pool'["load"].buffers = {}
    BY <1>2, <1>7 DEF BuffersOwned, Direction
  <2>2. \A e \in Direction : pool'[e].buffers \subseteq DOMAIN buffers
    BY <1>2, <1>7 DEF BuffersOwned
  <2>3. ASSUME NEW e \in Direction, NEW i \in DOMAIN queue'[e]
        PROVE  /\ queue'[e][i].buf \in DOMAIN buffers
               /\ buffers[queue'[e][i].buf].job = queue'[e][i].job
               /\ \A c \in Direction : queue'[e][i].buf \notin pool'[c].buffers
    BY <1>2, <1>3, <1>7 DEF BuffersOwned
  <2>4. \A j \in DOMAIN device :
          /\ device[j].buf \in DOMAIN buffers
          /\ buffers[device[j].buf].job = j
          /\ device[j].ops \subseteq 1 .. buffers[device[j].buf].size
          /\ \A c \in Direction : device[j].buf \notin pool'[c].buffers
    BY <1>2, <1>7 DEF BuffersOwned
  <2> QED BY <1>1, <2>1, <2>2, <2>3, <2>4 DEF BuffersOwned
<1>10. EventsKnown'
  <2>1. ASSUME NEW e \in Direction
        PROVE  /\ \A j \in DOMAIN eventOf'[e] :
                     \E i \in DOMAIN queue'[e] : queue'[e][i].job = j
               /\ \A i \in DOMAIN queue'[e] :
                     /\ queue'[e][i].job \in DOMAIN eventOf'[e]
                     /\ eventOf'[e][queue'[e][i].job] = queue'[e][i].end
    <3>1. CASE e = d
      BY <1>3, <3>1
    <3>2. CASE e # d
      <4>1. queue'[e] = queue[e] /\ eventOf'[e] = eventOf[e]
        BY <1>3, <3>2
      <4> QED BY <1>2, <4>1 DEF EventsKnown
    <3> QED BY <3>1, <3>2
  <2> QED BY <2>1 DEF EventsKnown
<1>11. WorkAccounted'
  <2>1. ASSUME NEW j \in DOMAIN device
        PROVE  \/ j = broken \/ state'[device[j].dir] = "failed"
               \/ /\ state'[device[j].dir] = "up"
                  /\ \E i \in DOMAIN queue'[device[j].dir] :
                         queue'[device[j].dir][i].job = j
    <3>1. device[j].dir \in Direction
      BY <1>2 DEF Types, WorkRec
    <3>2. CASE device[j].dir # d
      BY <1>2, <1>3, <3>1, <3>2 DEF WorkAccounted
    <3>3. CASE device[j].dir = d /\ outcome = "down" /\ j # broken
      <4>1. PICK i \in DOMAIN queue[d] : queue[d][i].job = j
        BY <1>1, <1>2, <3>3 DEF WorkAccounted
      <4>2. events[queue[d][i].end] \in done
        BY <1>1, <3>3 DEF Drained, Query
      <4>3. j \in done
        BY <1>2, <4>1, <4>2 DEF EventsOwned
      <4> QED BY <1>2, <4>3 DEF InOrder
    <3>4. CASE device[j].dir = d /\ outcome = "failed"
      BY <1>3, <3>4
    <3> QED BY <3>2, <3>3, <3>4
  <2>2. region = "mapped"
    BY <1>1, <1>2 DEF WorkAccounted
  <2> QED BY <1>1, <2>1, <2>2 DEF WorkAccounted
<1>12. AllCopied' /\ RegionOutlivesTransfers'
  BY <1>1, <1>2 DEF AllCopied, RegionOutlivesTransfers
<1> QED BY <1>4, <1>5, <1>6, <1>8, <1>9, <1>10, <1>11, <1>12 DEF IInv

\* The compute stream holds transfers back, and nothing else (ComputeRuns).
LEMMA ComputeKeeps ==
    ASSUME IInv, ComputeRuns
    PROVE  IInv'
<1>1. /\ UNCHANGED handlerVars
      /\ UNCHANGED <<sticky, done, waiting, state, broken, region>>
      /\ compute' = FALSE
      /\ device' = [j \in DOMAIN device |-> [device[j] EXCEPT !.gated = FALSE]]
  BY DEF ComputeRuns
<1>2. /\ Types /\ InOrder /\ StreamsOwned /\ EventsOwned /\ BuffersOwned
      /\ EventsKnown /\ WorkAccounted /\ AllCopied /\ RegionOutlivesTransfers
  BY DEF IInv
<1>3. /\ queue' = queue /\ eventOf' = eventOf /\ pool' = pool
      /\ events' = events /\ buffers' = buffers /\ numStreams' = numStreams
  BY <1>1 DEF handlerVars
<1>4. /\ DOMAIN device' = DOMAIN device
      /\ \A j \in DOMAIN device :
            /\ device'[j] \in WorkRec
            /\ device'[j].dir = device[j].dir /\ device'[j].after = device[j].after
            /\ device'[j].buf = device[j].buf /\ device'[j].ops = device[j].ops
            /\ device'[j].copies = device[j].copies
  <2>1. \A j \in DOMAIN device : device[j] \in WorkRec
    BY <1>2 DEF Types
  <2> QED BY <1>1, <2>1 DEF WorkRec
<1>5. Types'
  <2>1. device' \in [DOMAIN device' -> WorkRec]
    BY <1>1, <1>4
  <2> QED BY <1>1, <1>2, <1>3, <1>4, <2>1 DEF Types
<1>6. InOrder'
  <2>1. \A d, e \in Direction : \A i \in DOMAIN queue'[d], k \in DOMAIN queue'[e] :
            queue'[d][i].job = queue'[e][k].job => d = e /\ i = k
    BY <1>2, <1>3 DEF InOrder
  <2>2. ASSUME NEW d \in Direction, NEW i \in DOMAIN queue'[d]
        PROVE  /\ queue'[d][i].job \in DOMAIN device' \cup done'
               /\ queue'[d][i].job \in done' =>
                     \A k \in 1 .. i : queue'[d][k].job \in done'
               /\ queue'[d][i].job \in DOMAIN device' =>
                     device'[queue'[d][i].job].after
                        \in IF i = 1 THEN done' \cup {NoJob} ELSE {queue'[d][i - 1].job}
    <3>1. /\ queue[d][i].job \in DOMAIN device \cup done
          /\ queue[d][i].job \in done =>
                \A k \in 1 .. i : queue[d][k].job \in done
          /\ queue[d][i].job \in DOMAIN device =>
                device[queue[d][i].job].after
                   \in IF i = 1 THEN done \cup {NoJob} ELSE {queue[d][i - 1].job}
      BY <1>2, <1>3 DEF InOrder
    <3>2. queue'[d] = queue[d] /\ done' = done /\ DOMAIN device' = DOMAIN device
      BY <1>1, <1>3, <1>4
    <3> QED BY <1>4, <3>1, <3>2
  <2>3. DOMAIN device' \cap done' = {}
    BY <1>1, <1>2, <1>4 DEF InOrder
  <2> QED BY <2>1, <2>2, <2>3 DEF InOrder
<1>7. StreamsOwned' /\ EventsOwned' /\ EventsKnown'
  BY <1>2, <1>3 DEF StreamsOwned, EventsOwned, EventsKnown
<1>8. BuffersOwned'
  BY <1>2, <1>3, <1>4 DEF BuffersOwned
<1>9. WorkAccounted'
  <2>1. \A j \in DOMAIN device :
           \/ j = broken
           \/ state[device[j].dir] = "failed"
           \/ /\ state[device[j].dir] = "up"
              /\ \E i \in DOMAIN queue[device[j].dir] : queue[device[j].dir][i].job = j
    BY <1>2 DEF WorkAccounted
  <2>2. /\ waiting # {} => Up
        /\ region # "mapped" => \A d \in Direction : state[d] # "up"
    BY <1>2 DEF WorkAccounted
  <2>3. \A j \in DOMAIN device' :
           LET d == device'[j].dir
           IN  \/ j = broken'
               \/ state'[d] = "failed"
               \/ state'[d] = "up" /\ \E i \in DOMAIN queue'[d] : queue'[d][i].job = j
    <3>1. SUFFICES ASSUME NEW j \in DOMAIN device
                   PROVE  LET d == device[j].dir
                          IN  \/ j = broken
                              \/ state[d] = "failed"
                              \/ state[d] = "up" /\ \E i \in DOMAIN queue[d] : queue[d][i].job = j
      BY <1>1, <1>3, <1>4
    <3> QED BY <2>1
  <2> QED BY <1>1, <2>2, <2>3 DEF WorkAccounted, Up
<1>10. AllCopied' /\ RegionOutlivesTransfers'
  BY <1>1, <1>2, <1>4 DEF AllCopied, RegionOutlivesTransfers
<1> QED BY <1>5, <1>6, <1>7, <1>8, <1>9, <1>10 DEF IInv

\* A transfer runs after the one before it in its queue (wait_event on the
\* end event of the last transfer).
LEMMA TransferRunsKeeps ==
    ASSUME WorkerAssumption, IInv, NEW j \in DOMAIN device, TransferRuns(j)
    PROVE  IInv'
<1>1. /\ UNCHANGED handlerVars
      /\ UNCHANGED <<sticky, compute, waiting, state, broken, region>>
      /\ done' = done \cup {j} /\ device[j].after \in done \cup {NoJob}
      /\ device' = Restrict(device, DOMAIN device \ {j})
  BY DEF TransferRuns, Runnable
<1>2. /\ Types /\ InOrder /\ StreamsOwned /\ EventsOwned /\ BuffersOwned
      /\ EventsKnown /\ WorkAccounted /\ AllCopied /\ RegionOutlivesTransfers
  BY DEF IInv
<1>3. /\ queue' = queue /\ eventOf' = eventOf /\ pool' = pool
      /\ events' = events /\ buffers' = buffers /\ numStreams' = numStreams
  BY <1>1 DEF handlerVars
<1>4. /\ DOMAIN device' = DOMAIN device \ {j}
      /\ \A k \in DOMAIN device' : device'[k] = device[k]
      /\ device' = [k \in DOMAIN device \ {j} |-> device[k]]
  BY <1>1 DEF Restrict
<1>5. Types'
  <2>1. device' \in [DOMAIN device' -> WorkRec]
    BY <1>2, <1>4 DEF Types
  <2>2. DOMAIN device' \cup done' \cup waiting' \subseteq Job
    BY <1>1, <1>2, <1>4 DEF Types
  <2> QED BY <1>1, <1>2, <1>3, <2>1, <2>2 DEF Types
<1>6. InOrder'
  <2>1. DOMAIN device' \cap done' = {}
    BY <1>1, <1>2, <1>4 DEF InOrder
  <2>2. ASSUME NEW d \in Direction, NEW i \in DOMAIN queue[d]
        PROVE  /\ queue[d][i].job \in DOMAIN device' \cup done'
               /\ queue[d][i].job \in done' =>
                     \A k \in 1 .. i : queue[d][k].job \in done'
               /\ queue[d][i].job \in DOMAIN device' =>
                     device'[queue[d][i].job].after
                        \in IF i = 1 THEN done' \cup {NoJob} ELSE {queue[d][i - 1].job}
    <3>1. /\ queue[d][i].job \in DOMAIN device \cup done
          /\ queue[d][i].job \in done =>
                \A k \in 1 .. i : queue[d][k].job \in done
          /\ queue[d][i].job \in DOMAIN device =>
                device[queue[d][i].job].after
                   \in IF i = 1 THEN done \cup {NoJob} ELSE {queue[d][i - 1].job}
      BY <1>2 DEF InOrder
    <3>2. i \in Nat \ {0} /\ (i # 1 => i - 1 \in DOMAIN queue[d])
      BY <1>2, QueueTypes
    <3>3. CASE queue[d][i].job = j /\ i = 1
      <4>1. \A k \in 1 .. i : k = i
        BY <3>3
      <4> QED BY <1>1, <1>4, <3>3, <4>1
    <3>4. CASE queue[d][i].job = j /\ i # 1
      <4>1. queue[d][i - 1].job \in done
        <5>1. queue[d][i - 1].job \in Job
          BY <1>2, <3>2, <3>4, QueueTypes DEF TransferRec
        <5>2. queue[d][i - 1].job = device[j].after
          BY <3>1, <3>4
        <5> QED BY <1>1, <5>1, <5>2 DEF WorkerAssumption
      <4>2. \A k \in 1 .. i - 1 : queue[d][k].job \in done
        BY <1>2, <3>2, <3>4, <4>1 DEF InOrder
      <4>3. \A k \in 1 .. i : k = i \/ k \in 1 .. i - 1
        BY <3>2
      <4>4. \A k \in 1 .. i : queue[d][k].job \in done'
        BY <1>1, <3>4, <4>2, <4>3
      <4> QED BY <1>1, <1>4, <3>4, <4>4
    <3>5. CASE queue[d][i].job # j
      BY <1>1, <1>4, <3>1, <3>5
    <3> QED BY <3>3, <3>4, <3>5
  <2>3. \A d, e \in Direction : \A i \in DOMAIN queue[d], k \in DOMAIN queue[e] :
            queue[d][i].job = queue[e][k].job => d = e /\ i = k
    BY <1>2 DEF InOrder
  <2>4. \A d, e \in Direction : \A i \in DOMAIN queue'[d], k \in DOMAIN queue'[e] :
            queue'[d][i].job = queue'[e][k].job => d = e /\ i = k
    BY <1>3, <2>3
  <2>5. \A d \in Direction : \A i \in DOMAIN queue'[d] :
          /\ queue'[d][i].job \in DOMAIN device' \cup done'
          /\ queue'[d][i].job \in done' =>
                \A k \in 1 .. i : queue'[d][k].job \in done'
          /\ queue'[d][i].job \in DOMAIN device' =>
                device'[queue'[d][i].job].after
                    \in IF i = 1 THEN done' \cup {NoJob} ELSE {queue'[d][i - 1].job}
    BY <1>3, <2>2
  <2> QED BY <2>1, <2>4, <2>5 DEF InOrder
<1>7. StreamsOwned' /\ EventsOwned' /\ EventsKnown'
  BY <1>2, <1>3 DEF StreamsOwned, EventsOwned, EventsKnown
<1>8. BuffersOwned'
  BY <1>2, <1>3, <1>4 DEF BuffersOwned
<1>9. WorkAccounted'
  <2>1. \A k \in DOMAIN device :
           \/ k = broken
           \/ state[device[k].dir] = "failed"
           \/ /\ state[device[k].dir] = "up"
              /\ \E i \in DOMAIN queue[device[k].dir] : queue[device[k].dir][i].job = k
    BY <1>2 DEF WorkAccounted
  <2>2. /\ waiting # {} => Up
        /\ region # "mapped" => \A d \in Direction : state[d] # "up"
    BY <1>2 DEF WorkAccounted
  <2>3. \A k \in DOMAIN device' :
           LET d == device'[k].dir
           IN  \/ k = broken'
               \/ state'[d] = "failed"
               \/ state'[d] = "up" /\ \E i \in DOMAIN queue'[d] : queue'[d][i].job = k
    <3>1. SUFFICES ASSUME NEW k \in DOMAIN device'
                   PROVE  LET d == device'[k].dir
                          IN  \/ k = broken'
                              \/ state'[d] = "failed"
                              \/ state'[d] = "up" /\ \E i \in DOMAIN queue'[d] : queue'[d][i].job = k
      OBVIOUS
    <3>2. k \in DOMAIN device /\ device'[k] = device[k]
      BY <1>4
    <3>3. broken' = broken /\ state' = state /\ queue' = queue
      BY <1>1, <1>3
    <3> QED BY <2>1, <3>2, <3>3
  <2> QED BY <1>1, <2>2, <2>3 DEF WorkAccounted, Up
<1>10. AllCopied' /\ RegionOutlivesTransfers'
  BY <1>1, <1>2, <1>4 DEF AllCopied, RegionOutlivesTransfers
<1> QED BY <1>5, <1>6, <1>7, <1>8, <1>9, <1>10 DEF IInv

-----------------------------------------------------------------------------
(***************************************************************************)
(* The theorems.                                                           *)
(***************************************************************************)

\* A worker that was just made.
LEMMA InitHolds ==
    ASSUME Init
    PROVE  IInv
<1>1. Types
  <2>1. /\ <<>> \in Seq(TransferRec) /\ <<>> \in Seq(Job)
        /\ <<>> \in Seq([size : Nat, job : Job])
    OBVIOUS
  <2>2. [streams |-> {}, events |-> {}, buffers |-> {}] \in PoolRec
    BY DEF PoolRec
  <2>3. device \in [DOMAIN device -> WorkRec] /\ DOMAIN device = {}
    BY DEF Init
  <2> QED BY <2>1, <2>2, <2>3 DEF Types, Init
<1>2. \A d \in Direction : /\ queue[d] = <<>> /\ DOMAIN queue[d] = {}
                           /\ DOMAIN eventOf[d] = {}
                           /\ pool[d].streams = {} /\ pool[d].events = {}
                           /\ pool[d].buffers = {}
  <2>1. DOMAIN (<<>>) = {}
    OBVIOUS
  <2> QED BY <2>1 DEF Init
<1>3. DOMAIN device = {} /\ done = {} /\ waiting = {} /\ region = "mapped"
  BY DEF Init
<1>4. InOrder /\ StreamsOwned
  BY <1>2, <1>3 DEF InOrder, StreamsOwned
<1>5. EventsOwned /\ BuffersOwned /\ EventsKnown
  BY <1>2, <1>3 DEF EventsOwned, BuffersOwned, EventsKnown, Direction
<1>6. WorkAccounted /\ AllCopied /\ RegionOutlivesTransfers
  BY <1>3 DEF WorkAccounted, AllCopied, RegionOutlivesTransfers
<1> QED BY <1>1, <1>4, <1>5, <1>6 DEF IInv

\* Every step of the worker and of the device keeps the invariant.
LEMMA StepKeeps ==
    ASSUME IInv, [Next]_vars
    PROVE  IInv'
<1> USE WorkerAssumption
<1>1. CASE \E d \in Direction, j \in Job, ops \in OpLists : Submit(d, j, ops)
  BY <1>1, SubmitKeeps
<1>2. CASE \E d \in Direction, j \in Job, ops \in OpLists : SubmitRaises(d, j, ops)
  BY <1>2, SubmitRaisesKeeps
<1>3. CASE GetFinished
  BY <1>3, GetFinishedKeeps
<1>4. CASE \/ \E J \in (SUBSET Job) \ {{}} : Wait(J)
           \/ WaitReturns \/ Enqueue
           \/ \E outcome \in {"clean", "forced"} : Unmap(outcome)
           \/ UNCHANGED vars
  BY <1>4, WaitingKeeps
<1>5. CASE \E d \in Direction, outcome \in {"down", "failed"} :
              ShutdownDirection(d, outcome)
  BY <1>5, ShutdownKeeps
<1>6. CASE ComputeRuns
  BY <1>6, ComputeKeeps
<1>7. CASE \E j \in DOMAIN device : TransferRuns(j)
  BY <1>7, TransferRunsKeeps
<1> QED BY <1>1, <1>2, <1>3, <1>4, <1>5, <1>6, <1>7 DEF Next

\* The worker's state is consistent in every state it reaches.
THEOREM WorkerInvariant == Spec => []IInv
<1>1. Init => IInv
  BY InitHolds
<1>2. IInv /\ [Next]_vars => IInv'
  BY StepKeeps
<1> QED BY <1>1, <1>2, PTL DEF Spec

\* The shared region stays mapped while a transfer may use it
\* (CPUOffloadingWorker.shutdown).
THEOREM RegionOutlives == Spec => []RegionOutlivesTransfers
<1>1. IInv => RegionOutlivesTransfers
  BY DEF IInv
<1> QED BY <1>1, WorkerInvariant, PTL

\* What a transfer uses is its own, and all its descriptors are copied
\* (transfer_async, get_finished, _SwapDiag).
THEOREM TransfersStayIntact == Spec => []TransfersIntact
<1>1. IInv => TransfersIntact
  <2>1. SUFFICES ASSUME IInv PROVE TransfersIntact
    OBVIOUS
  <2>2. ASSUME NEW d \in Direction
        PROVE  /\ (UNION {{queue[d][i].stream} : i \in DOMAIN queue[d]})
                     \cap pool[d].streams = {}
               /\ (UNION {{queue[d][i].start, queue[d][i].end} : i \in DOMAIN queue[d]})
                     \cap pool[d].events = {}
               /\ (UNION {{queue[d][i].buf} : i \in DOMAIN queue[d]})
                     \cap pool[d].buffers = {}
    <3>1. \A i \in DOMAIN queue[d] : queue[d][i].stream \notin pool[d].streams
      BY <2>1 DEF IInv, StreamsOwned
    <3>2. \A i \in DOMAIN queue[d] : /\ queue[d][i].start \notin pool[d].events
                                     /\ queue[d][i].end \notin pool[d].events
      BY <2>1 DEF IInv, EventsOwned
    <3>3. \A i \in DOMAIN queue[d] : queue[d][i].buf \notin pool[d].buffers
      BY <2>1 DEF IInv, BuffersOwned
    <3> QED BY <3>1, <3>2, <3>3
  <2>3. ASSUME NEW d \in Direction, NEW i \in DOMAIN queue[d]
        PROVE  /\ events[queue[d][i].start] = queue[d][i].job
               /\ events[queue[d][i].end] = queue[d][i].job
               /\ buffers[queue[d][i].buf].job = queue[d][i].job
               /\ \A k \in 1 .. i - 1 : queue[d][k].stream # queue[d][i].stream
    <3>1. /\ events[queue[d][i].start] = queue[d][i].job
          /\ events[queue[d][i].end] = queue[d][i].job
      BY <2>1 DEF IInv, EventsOwned
    <3>2. buffers[queue[d][i].buf].job = queue[d][i].job
      BY <2>1 DEF IInv, BuffersOwned
    <3>3. \A k \in 1 .. i - 1 : queue[d][k].stream # queue[d][i].stream
      BY <2>1 DEF IInv, StreamsOwned
    <3> QED BY <3>1, <3>2, <3>3
  <2>4. \A j \in DOMAIN device :
          /\ device[j].copies = device[j].ops
          /\ buffers[device[j].buf].job = j
          /\ device[j].ops \subseteq 1 .. buffers[device[j].buf].size
    BY <2>1 DEF IInv, AllCopied, BuffersOwned
  <2> QED BY <2>2, <2>3, <2>4 DEF TransfersIntact
<1> QED BY <1>1, WorkerInvariant, PTL

\* When wait returns, no transfer of the jobs it was given is under way
\* (jobs_to_flush).
THEOREM FlushIsComplete == Spec => FlushedJobsAreDone
<1>1. IInv /\ [Next]_vars =>
         [waiting # {} /\ waiting' = {} => waiting \cap DOMAIN device = {}]_vars
  <2>1. SUFFICES ASSUME IInv, Next, waiting # {}, waiting' = {}, NEW j \in waiting,
                        j \in DOMAIN device
                 PROVE  FALSE
    OBVIOUS
  <2>2. WaitReturns
    <3>1. ~Free
      BY <2>1 DEF Free
    <3>2. /\ \A e \in Direction, k \in Job, ops \in OpLists :
                ~Submit(e, k, ops) /\ ~SubmitRaises(e, k, ops)
          /\ ~GetFinished /\ ~Enqueue /\ \A J \in SUBSET Job : ~Wait(J)
      BY <3>1 DEF Submit, SubmitRaises, GetFinished, Wait, Enqueue
    <3>3. /\ \A e \in Direction, outcome \in {"down", "failed"} : ~ShutdownDirection(e, outcome)
          /\ \A outcome \in {"clean", "forced"} : ~Unmap(outcome)
          /\ ~ComputeRuns /\ \A k \in DOMAIN device : ~TransferRuns(k)
      BY <2>1 DEF ShutdownDirection, Unmap, ComputeRuns, TransferRuns
    <3> QED BY <2>1, <3>2, <3>3 DEF Next
  <2>3. PICK d \in Direction : \E i \in DOMAIN queue[d] : queue[d][i].job = j
    <3>1. Up
      BY <2>1 DEF IInv, WorkAccounted
    <3>2. device[j].dir \in Direction /\ j \in Job
      BY <2>1 DEF IInv, Types, WorkRec
    <3>3. j # broken /\ state[device[j].dir] = "up"
      BY <3>1, <3>2, WorkerAssumption DEF Up, WorkerAssumption
    <3> QED BY <2>1, <3>2, <3>3 DEF IInv, WorkAccounted
  <2>4. PICK i \in DOMAIN queue[d] : queue[d][i].job = j
    BY <2>3
  <2>5. j \in DOMAIN eventOf[d] /\ eventOf[d][j] = queue[d][i].end
    BY <2>1, <2>4 DEF IInv, EventsKnown
  <2>6. events[queue[d][i].end] \in done
    BY <2>1, <2>2, <2>5 DEF WaitReturns, Known, Query
  <2>7. j \in done
    BY <2>1, <2>4, <2>6 DEF IInv, EventsOwned
  <2> QED BY <2>1, <2>7 DEF IInv, InOrder
<1> QED BY <1>1, WorkerInvariant, PTL DEF Spec, FlushedJobsAreDone

-----------------------------------------------------------------------------
(***************************************************************************)
(* The two queues implement TransferQueue.                                 *)
(***************************************************************************)
\* A queue as TransferQueue sees it, and how many of its transfers ran.
Jobs(q) == [i \in DOMAIN q |-> q[i].job]
RanOf(q, D) == Max({0} \cup {i \in DOMAIN q : q[i].job \in D})

\* How TransferQueue sees the worker.
Pending == [d \in Direction |-> Jobs(queue[d])]
Ran == [d \in Direction |-> RanOf(queue[d], done)]

\* The jobs of a queue, in its order.
LEMMA JobsSeq ==
    ASSUME NEW q \in Seq(TransferRec)
    PROVE  /\ Jobs(q) \in Seq(Job) /\ Len(Jobs(q)) = Len(q)
           /\ \A i \in 1 .. Len(q) : Jobs(q)[i] = q[i].job
<1>1. /\ Len(q) \in Nat /\ DOMAIN q = 1 .. Len(q)
      /\ \A i \in 1 .. Len(q) : q[i] \in TransferRec
  BY LenProperties, ElementOfSeq
<1>2. Jobs(q) = [i \in 1 .. Len(q) |-> q[i].job]
  BY <1>1 DEF Jobs
<1>3. \A i \in 1 .. Len(q) : q[i].job \in Job
  BY <1>1 DEF TransferRec
<1>4. Jobs(q) \in [1 .. Len(q) -> Job]
  BY <1>2, <1>3
<1>5. Jobs(q) \in Seq(Job) /\ Len(Jobs(q)) = Len(q)
  BY <1>1, <1>4, SeqDef, LenProperties
<1> QED BY <1>2, <1>5

\* The jobs of a queue with a transfer more.
LEMMA JobsAppend ==
    ASSUME NEW q \in Seq(TransferRec), NEW t \in TransferRec
    PROVE  Jobs(Append(q, t)) = Append(Jobs(q), t.job)
<1>1. /\ Append(q, t) \in Seq(TransferRec) /\ Len(Append(q, t)) = Len(q) + 1
      /\ \A i \in 1 .. Len(q) : Append(q, t)[i] = q[i]
      /\ Append(q, t)[Len(q) + 1] = t
      /\ Len(q) \in Nat
  BY AppendProperties, LenProperties
<1>2. /\ Jobs(q) \in Seq(Job) /\ Len(Jobs(q)) = Len(q)
      /\ \A i \in 1 .. Len(q) : Jobs(q)[i] = q[i].job
  BY JobsSeq
<1>3. /\ Jobs(Append(q, t)) \in Seq(Job) /\ Len(Jobs(Append(q, t))) = Len(q) + 1
      /\ \A i \in 1 .. Len(q) + 1 : Jobs(Append(q, t))[i] = Append(q, t)[i].job
  BY <1>1, JobsSeq
<1>4. t.job \in Job
  BY DEF TransferRec
<1>5. /\ Append(Jobs(q), t.job) \in Seq(Job)
      /\ Len(Append(Jobs(q), t.job)) = Len(q) + 1
      /\ \A i \in 1 .. Len(q) : Append(Jobs(q), t.job)[i] = Jobs(q)[i]
      /\ Append(Jobs(q), t.job)[Len(q) + 1] = t.job
  BY <1>2, <1>4, AppendProperties
<1>6. \A i \in 1 .. Len(q) + 1 : Jobs(Append(q, t))[i] = Append(Jobs(q), t.job)[i]
  <2>1. \A i \in 1 .. Len(q) + 1 : i \in 1 .. Len(q) \/ i = Len(q) + 1
    BY <1>1
  <2> QED BY <1>1, <1>2, <1>3, <1>5, <2>1
<1> QED BY <1>3, <1>5, <1>6, SeqEqual

\* The jobs of what is left of a queue when its oldest are popped.
LEMMA JobsTail ==
    ASSUME NEW q \in Seq(TransferRec), NEW n \in 0 .. Len(q)
    PROVE  Jobs(SubSeq(q, n + 1, Len(q))) = SubSeq(Jobs(q), n + 1, Len(Jobs(q)))
<1> DEFINE u == SubSeq(q, n + 1, Len(q))
           v == SubSeq(Jobs(q), n + 1, Len(q))
<1>1. /\ Len(q) \in Nat /\ n \in Nat /\ n <= Len(q)
      /\ \A i \in 1 .. Len(q) : q[i] \in TransferRec
  BY LenProperties, ElementOfSeq
<1>2. /\ Jobs(q) \in Seq(Job) /\ Len(Jobs(q)) = Len(q)
      /\ \A i \in 1 .. Len(q) : Jobs(q)[i] = q[i].job /\ Jobs(q)[i] \in Job
  BY <1>1, JobsSeq DEF TransferRec
<1>3. n + 1 \in Int /\ Len(q) \in Int /\ \A i \in n + 1 .. Len(q) : i \in 1 .. Len(q)
  BY <1>1
<1>4. /\ u \in Seq(TransferRec)
      /\ Len(u) = IF n + 1 <= Len(q) THEN Len(q) - (n + 1) + 1 ELSE 0
      /\ \A i \in 1 .. Len(q) - (n + 1) + 1 : u[i] = q[n + 1 + i - 1]
  BY <1>1, <1>3, SubSeqProperties
<1>5. /\ v \in Seq(Job)
      /\ Len(v) = IF n + 1 <= Len(q) THEN Len(q) - (n + 1) + 1 ELSE 0
      /\ \A i \in 1 .. Len(q) - (n + 1) + 1 : v[i] = Jobs(q)[n + 1 + i - 1]
  BY <1>2, <1>3, SubSeqProperties
<1> HIDE DEF u, v
<1>6. /\ Jobs(u) \in Seq(Job) /\ Len(Jobs(u)) = Len(v)
      /\ \A i \in 1 .. Len(u) : Jobs(u)[i] = u[i].job
  BY <1>4, <1>5, JobsSeq
<1>7. ASSUME NEW i \in 1 .. Len(Jobs(u)) PROVE Jobs(u)[i] = v[i]
  <2>1. /\ i \in 1 .. Len(q) - (n + 1) + 1 /\ i \in 1 .. Len(u)
        /\ n + 1 + i - 1 \in 1 .. Len(q)
    BY <1>1, <1>4, <1>5, <1>6
  <2> QED BY <1>2, <1>4, <1>5, <1>6, <2>1
<1>8. Jobs(u) = v
  BY <1>5, <1>6, <1>7, SeqEqual
<1> QED BY <1>2, <1>8 DEF u, v

\* When the oldest n transfers of a queue ran, and no other, n of it ran.
LEMMA RanIsCount ==
    ASSUME NEW q, NEW D, NEW L \in Nat, DOMAIN q = 1 .. L, NEW n \in 0 .. L,
           \A i \in DOMAIN q : q[i].job \in D <=> i <= n
    PROVE  RanOf(q, D) = n
<1>1. {i \in DOMAIN q : q[i].job \in D} = 1 .. n
  OBVIOUS
<1> QED BY <1>1, MaxSegment DEF RanOf

\* What ran of a queue is what get_finished would pop.
LEMMA RanNow ==
    ASSUME IInv, NEW d \in Direction
    PROVE  /\ Ran[d] = NumFinished(d) /\ NumFinished(d) \in 0 .. Len(queue[d])
           /\ Pending[d] = Jobs(queue[d]) /\ Len(Pending[d]) = Len(queue[d])
           /\ queue[d] \in Seq(TransferRec)
           /\ Len(queue[d]) \in Nat /\ DOMAIN queue[d] = 1 .. Len(queue[d])
           /\ \A i \in DOMAIN queue[d] :
                 queue[d][i].job \in done <=> i <= NumFinished(d)
<1>1. Types /\ InOrder /\ EventsOwned
  BY DEF IInv
<1>2. /\ NumFinished(d) \in 0 .. Len(queue[d])
      /\ \A i \in DOMAIN queue[d] : queue[d][i].job \in done <=> i <= NumFinished(d)
  BY <1>1, FinishedAreDone
<1>3. /\ queue[d] \in Seq(TransferRec)
      /\ Len(queue[d]) \in Nat /\ DOMAIN queue[d] = 1 .. Len(queue[d])
  BY <1>1, QueueTypes
<1>4. RanOf(queue[d], done) = NumFinished(d)
  BY <1>2, <1>3, RanIsCount
<1>5. Len(Jobs(queue[d])) = Len(queue[d])
  BY <1>3, JobsSeq
<1> QED BY <1>2, <1>3, <1>4, <1>5 DEF Ran, Pending

\* A transfer submitted is appended, and did not run (transfer_async).
LEMMA SubmitRefines ==
    ASSUME IInv, NEW d \in Direction, NEW j \in Job, NEW ops \in OpLists,
           Submit(d, j, ops), IInv'
    PROVE  /\ \A i \in DOMAIN Pending[d] : Pending[d][i] # j
           /\ Pending' = [Pending EXCEPT ![d] = Append(@, j)]
           /\ Ran' = Ran
<1>1. PICK t : /\ t.job = j
               /\ queue' = [queue EXCEPT ![d] = Append(@, t)]
  BY DEF Submit
<1>2. j \notin DOMAIN device \cup done /\ done' = done
  BY DEF Submit
<1>3. \A e \in Direction : queue'[e] = IF e = d THEN Append(queue[d], t) ELSE queue[e]
  BY <1>1 DEF IInv, Types
<1>4. t \in TransferRec
  <2>1. /\ queue'[d] \in Seq(TransferRec) /\ queue[d] \in Seq(TransferRec)
        /\ Len(queue[d]) \in Nat
    BY RanNow DEF IInv, Types
  <2> DEFINE L == Len(queue[d])
  <2>2. queue'[d] = Append(queue[d], t)
    BY <1>3
  <2>3. Len(Append(queue[d], t)) = L + 1 /\ Append(queue[d], t)[L + 1] = t
    BY <2>1
  <2>4. Len(queue'[d]) = L + 1 /\ queue'[d][L + 1] = t
    BY <2>2, <2>3
  <2>5. L \in Nat
    BY <2>1
  <2> HIDE DEF L
  <2>6. L + 1 \in 1 .. Len(queue'[d])
    BY <2>4, <2>5
  <2>7. queue'[d][L + 1] \in TransferRec
    BY <2>1, <2>6, ElementOfSeq
  <2> QED BY <2>4, <2>7
<1>5. \A i \in DOMAIN Pending[d] : Pending[d][i] # j
  <2>1. \A i \in DOMAIN queue[d] : queue[d][i].job \in DOMAIN device \cup done
    BY DEF IInv, InOrder
  <2> QED BY <1>2, <2>1 DEF Pending, Jobs
<1>6. Pending' = [Pending EXCEPT ![d] = Append(@, j)]
  <2>1. Jobs(queue'[d]) = Append(Jobs(queue[d]), j)
    BY <1>1, <1>3, <1>4, RanNow, JobsAppend
  <2> QED BY <1>3, <2>1 DEF Pending
<1>7. Ran' = Ran
  <2>1. \A e \in Direction : RanOf(queue'[e], done) = RanOf(queue[e], done)
    <3>1. RanOf(queue'[d], done) = NumFinished(d)
      <4> DEFINE L == Len(queue[d])
                 q == queue'[d]
      <4>1. /\ L \in Nat /\ DOMAIN queue[d] = 1 .. L /\ NumFinished(d) \in 0 .. L
            /\ \A i \in 1 .. L : queue[d][i].job \in done <=> i <= NumFinished(d)
            /\ queue[d] \in Seq(TransferRec)
        BY RanNow
      <4>2a. /\ Append(queue[d], t) \in Seq(TransferRec)
             /\ Len(Append(queue[d], t)) = L + 1
             /\ \A i \in 1 .. L : Append(queue[d], t)[i] = queue[d][i]
             /\ Append(queue[d], t)[L + 1] = t
        BY <1>4, <4>1, AppendProperties
      <4>2b. q = Append(queue[d], t)
        BY <1>3
      <4>2. /\ q \in Seq(TransferRec) /\ Len(q) = L + 1
            /\ \A i \in 1 .. L : q[i] = queue[d][i]
            /\ q[L + 1] = t
        BY <4>2a, <4>2b
      <4>3. DOMAIN q = 1 .. L + 1
        BY <4>2, LenProperties
      <4> HIDE DEF L, q
      <4>4. \A i \in 1 .. L + 1 : i \in 1 .. L \/ i = L + 1
        BY <4>1
      <4>5. \A i \in DOMAIN q : q[i].job \in done <=> i <= NumFinished(d)
        BY <1>1, <1>2, <4>1, <4>2, <4>3, <4>4
      <4>6. L + 1 \in Nat /\ NumFinished(d) \in 0 .. L + 1
        BY <4>1
      <4> QED BY <4>3, <4>5, <4>6, RanIsCount DEF q
    <3>2. RanOf(queue[d], done) = NumFinished(d)
      BY RanNow DEF Ran
    <3> QED BY <1>3, <3>1, <3>2
  <2> QED BY <1>2, <2>1 DEF Ran
<1> QED BY <1>5, <1>6, <1>7

\* What get_finished pops are the transfers that ran; none of the others did.
LEMMA GetFinishedRefines ==
    ASSUME IInv, GetFinished
    PROVE  /\ Pending' = [d \in Direction |->
                 SubSeq(Pending[d], Ran[d] + 1, Len(Pending[d]))]
           /\ Ran' = [d \in Direction |-> Ran[d] - Ran[d]]
<1>1. \A d \in Direction : queue'[d] = SubSeq(queue[d], NumFinished(d) + 1, Len(queue[d]))
  BY DEF GetFinished
<1>2. done' = done
  BY DEF GetFinished, deviceVars
<1>3. ASSUME NEW d \in Direction
      PROVE  /\ Jobs(queue'[d]) = SubSeq(Pending[d], Ran[d] + 1, Len(Pending[d]))
             /\ RanOf(queue'[d], done) = Ran[d] - Ran[d]
  <2> DEFINE n == NumFinished(d)
             L == Len(queue[d])
  <2>1. /\ n \in 0 .. L /\ L \in Nat /\ queue[d] \in Seq(TransferRec)
        /\ DOMAIN queue[d] = 1 .. L
        /\ \A i \in 1 .. L : queue[d][i].job \in done <=> i <= n
        /\ Ran[d] = n /\ Pending[d] = Jobs(queue[d])
    BY RanNow
  <2>2. Jobs(queue'[d]) = SubSeq(Jobs(queue[d]), n + 1, Len(Jobs(queue[d])))
    BY <1>1, <2>1, JobsTail
  <2>3. Popped(d, n)
    BY GetFinishedPops DEF IInv
  <2> HIDE DEF n, L
  <2>4. \A i \in DOMAIN queue'[d] : ~(queue'[d][i].job \in done)
    <3>1. SUFFICES ASSUME NEW i \in DOMAIN queue'[d] PROVE queue'[d][i].job \notin done
      OBVIOUS
    <3>2. /\ i \in 1 .. L - n /\ n + i \in DOMAIN queue[d]
          /\ queue'[d][i] = queue[d][n + i]
      BY <2>3 DEF Popped, L
    <3>3. ~(n + i <= n)
      BY <2>1, <3>2
    <3> QED BY <2>1, <3>2, <3>3
  <2>5. L - n \in Nat /\ DOMAIN queue'[d] = 1 .. L - n
    BY <2>1, <2>3 DEF Popped, L
  <2>6. \A i \in DOMAIN queue'[d] : queue'[d][i].job \in done <=> i <= 0
    BY <2>4, <2>5
  <2>7. RanOf(queue'[d], done) = 0
    BY <2>5, <2>6, RanIsCount
  <2> QED BY <2>1, <2>2, <2>7
<1> QED BY <1>2, <1>3 DEF Pending, Ran

\* Shutting a direction down forgets its transfers (shutdown).
LEMMA ShutdownRefines ==
    ASSUME IInv, NEW d \in Direction, NEW outcome \in {"down", "failed"},
           ShutdownDirection(d, outcome)
    PROVE  /\ Pending' = [Pending EXCEPT ![d] = <<>>]
           /\ Ran' = [Ran EXCEPT ![d] = 0]
<1>1. queue' = [queue EXCEPT ![d] = <<>>] /\ done' = done
  BY DEF ShutdownDirection, deviceVars
<1>2. \A e \in Direction : queue'[e] = IF e = d THEN <<>> ELSE queue[e]
  BY <1>1 DEF IInv, Types
<1>3. <<>> \in Seq(TransferRec) /\ Len(<<>>) = 0 /\ DOMAIN (<<>>) = {}
  OBVIOUS
<1>4. Jobs(<<>>) = <<>>
  BY <1>3, JobsSeq, EmptySeq
<1>5. RanOf(<<>>, done) = 0
  <2>1. DOMAIN (<<>>) = 1 .. 0
    OBVIOUS
  <2> QED BY <1>3, <2>1, RanIsCount
<1>6. \A e \in Direction : /\ Jobs(queue'[e]) = IF e = d THEN <<>> ELSE Jobs(queue[e])
                           /\ RanOf(queue'[e], done) = IF e = d THEN 0 ELSE RanOf(queue[e], done)
  BY <1>2, <1>4, <1>5
<1>7. Pending' = [e \in Direction |-> IF e = d THEN <<>> ELSE Jobs(queue[e])]
  BY <1>6 DEF Pending
<1>8. Ran' = [e \in Direction |-> IF e = d THEN 0 ELSE RanOf(queue[e], done)]
  BY <1>1, <1>6 DEF Ran
<1>9. Pending' = [Pending EXCEPT ![d] = <<>>]
  BY <1>7 DEF Pending
<1>10. Ran' = [Ran EXCEPT ![d] = 0]
  BY <1>8 DEF Ran
<1> QED BY <1>9, <1>10

\* A transfer that runs is the oldest of its queue that did not, if it is in
\* one: the one that raised is not, nor are those of a direction that is down.
LEMMA TransferRunsRefines ==
    ASSUME IInv, NEW j \in DOMAIN device, TransferRuns(j), IInv'
    PROVE  \/ Pending' = Pending /\ Ran' = Ran
           \/ \E d \in Direction :
                 /\ Ran[d] < Len(Pending[d])
                 /\ Ran' = [Ran EXCEPT ![d] = @ + 1]
                 /\ Pending' = Pending
<1>1. queue' = queue /\ done' = done \cup {j}
  BY DEF TransferRuns, handlerVars
<1>2. Pending' = Pending
  BY <1>1 DEF Pending
<1>3. \A d, e \in Direction : \A i \in DOMAIN queue[d], k \in DOMAIN queue[e] :
          queue[d][i].job = queue[e][k].job => d = e /\ i = k
  BY DEF IInv, InOrder
<1>4. CASE \E d \in Direction : \E i \in DOMAIN queue[d] : queue[d][i].job = j
  <2>0. PICK d \in Direction : \E i \in DOMAIN queue[d] : queue[d][i].job = j
    BY <1>4
  <2>1. PICK i \in DOMAIN queue[d] : queue[d][i].job = j
    BY <2>0
  <2>2. \A e \in Direction \ {d} : RanOf(queue[e], done \cup {j}) = RanOf(queue[e], done)
    <3>1. SUFFICES ASSUME NEW e \in Direction, e # d
                   PROVE  RanOf(queue[e], done \cup {j}) = RanOf(queue[e], done)
      OBVIOUS
    <3>2. \A k \in DOMAIN queue[e] : queue[e][k].job # j
      BY <1>3, <2>1, <3>1
    <3>3. {k \in DOMAIN queue[e] : queue[e][k].job \in done \cup {j}}
             = {k \in DOMAIN queue[e] : queue[e][k].job \in done}
      BY <3>2
    <3> QED BY <3>3 DEF RanOf
  <2> DEFINE n == NumFinished(d)
             L == Len(queue[d])
  <2>3. /\ n \in 0 .. L /\ L \in Nat /\ DOMAIN queue[d] = 1 .. L
        /\ \A k \in 1 .. L : queue[d][k].job \in done <=> k <= n
        /\ Ran[d] = n /\ Len(Pending[d]) = L
    BY RanNow
  <2> HIDE DEF n, L
  <2>4. j \notin done
    BY DEF IInv, InOrder
  <2>5. \A k \in 1 .. i : queue[d][k].job \in done \cup {j}
    <3>1. queue'[d][i].job \in done'
      BY <1>1, <2>1
    <3>2. \A k \in 1 .. i : queue'[d][k].job \in done'
      BY <1>1, <2>1, <3>1 DEF IInv, InOrder
    <3> QED BY <1>1, <3>2
  <2>6. i = n + 1
    <3>1. ~(i <= n) /\ i \in 1 .. L
      BY <2>1, <2>3, <2>4
    <3>2. CASE i > n + 1
      <4>1. n + 1 \in 1 .. i /\ n + 1 \in DOMAIN queue[d] /\ n + 1 # i
               /\ ~(n + 1 <= n)
        BY <2>3, <3>1, <3>2
      <4>2. queue[d][n + 1].job = j
        BY <2>3, <2>5, <4>1
      <4> QED BY <1>3, <2>1, <4>1, <4>2
    <3> QED BY <2>3, <3>1, <3>2
  <2>7. \A k \in DOMAIN queue[d] : queue[d][k].job \in done \cup {j} <=> k <= n + 1
    <3>1. SUFFICES ASSUME NEW k \in DOMAIN queue[d]
                   PROVE  queue[d][k].job \in done \cup {j} <=> k <= n + 1
      OBVIOUS
    <3>2. queue[d][k].job = j <=> k = n + 1
      BY <1>3, <2>1, <2>6
    <3>3. queue[d][k].job \in done <=> k <= n
      BY <2>3
    <3>4. k <= n + 1 <=> (k <= n \/ k = n + 1)
      BY <2>3
    <3> QED BY <3>2, <3>3, <3>4
  <2>8. n + 1 \in 0 .. L /\ n < L
    BY <2>1, <2>3, <2>6
  <2>9. RanOf(queue[d], done \cup {j}) = n + 1
    BY <2>3, <2>7, <2>8, RanIsCount
  <2>10. Ran' = [Ran EXCEPT ![d] = @ + 1]
    BY <1>1, <2>2, <2>3, <2>9 DEF Ran
  <2> QED BY <1>2, <2>3, <2>8, <2>10
<1>5. CASE ~(\E d \in Direction : \E i \in DOMAIN queue[d] : queue[d][i].job = j)
  <2>1. \A d \in Direction :
          {k \in DOMAIN queue[d] : queue[d][k].job \in done \cup {j}}
             = {k \in DOMAIN queue[d] : queue[d][k].job \in done}
    BY <1>5
  <2>2. \A d \in Direction : RanOf(queue[d], done \cup {j}) = RanOf(queue[d], done)
    BY <2>1 DEF RanOf
  <2> QED BY <1>1, <1>2, <2>2 DEF Ran
<1> QED BY <1>4, <1>5

\* In each direction transfers run one at a time, in order, and each is
\* reported once, after it ran (transfer_async, get_finished).
THEOREM QueuesRefined == Spec => TransferQueues
<1>1. Init => Queues!Init
  <2>1. SUFFICES ASSUME Init
                 PROVE  /\ Pending = [d \in Direction |-> <<>>]
                        /\ Ran = [d \in Direction |-> 0]
    BY DEF Queues!Init, Pending, Ran, Jobs, RanOf
  <2>2. \A d \in Direction : queue[d] = <<>>
    BY <2>1 DEF Init
  <2>3. Len(<<>>) = 0 /\ DOMAIN (<<>>) = {} /\ DOMAIN (<<>>) = 1 .. 0
        /\ <<>> \in Seq(TransferRec)
    OBVIOUS
  <2>4. Jobs(<<>>) = <<>>
    BY <2>3, JobsSeq, EmptySeq
  <2>5. RanOf(<<>>, done) = 0
    BY <2>3, RanIsCount
  <2> QED BY <2>2, <2>4, <2>5 DEF Pending, Ran
<1>2. IInv /\ IInv' /\ [Next]_vars => [Queues!Next]_<<Pending, Ran>>
  <2>1. SUFFICES ASSUME IInv, IInv', [Next]_vars
                 PROVE  Queues!Next \/ (Pending' = Pending /\ Ran' = Ran)
    OBVIOUS
  <2>2. CASE \E d \in Direction, j \in Job, ops \in OpLists : Submit(d, j, ops)
    <3>1. PICK d \in Direction, j \in Job, ops \in OpLists : Submit(d, j, ops)
      BY <2>2
    <3>2. Queues!Submit(d, j)
      BY <2>1, <3>1, SubmitRefines DEF Queues!Submit, Pending, Ran, Jobs, RanOf
    <3> QED BY <3>2 DEF Queues!Next
  <2>3. CASE GetFinished
    <3> DEFINE n == [d \in Direction |-> Ran[d]]
    <3>1. n \in [Direction -> UNION {0 .. Ran[d] : d \in Direction}]
             /\ \A d \in Direction : n[d] <= Ran[d]
      <4>1. \A d \in Direction : Ran[d] \in Nat
        BY <2>1, RanNow
      <4> QED BY <4>1
    <3>2. /\ Pending' = [d \in Direction |-> SubSeq(Pending[d], n[d] + 1, Len(Pending[d]))]
          /\ Ran' = [d \in Direction |-> Ran[d] - n[d]]
      BY <2>1, <2>3, GetFinishedRefines
    <3>3. \E m \in [Direction -> UNION {0 .. Ran[d] : d \in Direction}] :
             /\ \A d \in Direction : m[d] <= Ran[d]
             /\ Pending' = [d \in Direction |-> SubSeq(Pending[d], m[d] + 1, Len(Pending[d]))]
             /\ Ran' = [d \in Direction |-> Ran[d] - m[d]]
      <4> HIDE DEF n
      <4> QED BY <3>1, <3>2
    <3>4. (\E m \in [Direction -> UNION {0 .. Ran[d] : d \in Direction}] :
              /\ \A d \in Direction : m[d] <= Ran[d]
              /\ Pending' = [d \in Direction |-> SubSeq(Pending[d], m[d] + 1, Len(Pending[d]))]
              /\ Ran' = [d \in Direction |-> Ran[d] - m[d]])
          => Queues!Next
      BY DEF Queues!Next, Queues!Report, Pending, Ran, Jobs, RanOf
    <3> QED BY <3>3, <3>4
  <2>4. CASE \E d \in Direction, outcome \in {"down", "failed"} :
                ShutdownDirection(d, outcome)
    <3>1. PICK d \in Direction, outcome \in {"down", "failed"} :
              ShutdownDirection(d, outcome)
      BY <2>4
    <3>2. Queues!Shutdown(d)
      BY <2>1, <3>1, ShutdownRefines DEF Queues!Shutdown, Pending, Ran, Jobs, RanOf
    <3> QED BY <3>2 DEF Queues!Next
  <2>5. CASE \E j \in DOMAIN device : TransferRuns(j)
    <3>1. PICK j \in DOMAIN device : TransferRuns(j)
      BY <2>5
    <3>2. CASE Pending' = Pending /\ Ran' = Ran
      BY <3>2
    <3>3. CASE \E d \in Direction : /\ Ran[d] < Len(Pending[d])
                                    /\ Ran' = [Ran EXCEPT ![d] = @ + 1]
                                    /\ Pending' = Pending
      <4>1. PICK d \in Direction : /\ Ran[d] < Len(Pending[d])
                                   /\ Ran' = [Ran EXCEPT ![d] = @ + 1]
                                   /\ Pending' = Pending
        BY <3>3
      <4>2. Queues!Run(d)
        BY <4>1 DEF Queues!Run, Pending, Ran, Jobs, RanOf
      <4> QED BY <4>2 DEF Queues!Next
    <3> QED BY <2>1, <3>1, <3>2, <3>3, TransferRunsRefines
  <2>6. CASE /\ ~(\E d \in Direction, j \in Job, ops \in OpLists : Submit(d, j, ops))
             /\ ~GetFinished
             /\ ~(\E d \in Direction, outcome \in {"down", "failed"} :
                     ShutdownDirection(d, outcome))
             /\ ~(\E j \in DOMAIN device : TransferRuns(j))
    <3>1. queue' = queue /\ done' = done
      BY <2>1, <2>6 DEF Next, SubmitRaises, Wait, WaitReturns, Enqueue, ComputeRuns,
                        Unmap, vars, handlerVars, deviceVars
    <3> QED BY <3>1 DEF Pending, Ran
  <2> QED BY <2>2, <2>3, <2>4, <2>5, <2>6
<1> QED BY <1>1, <1>2, WorkerInvariant, PTL
        DEF Spec, TransferQueues, Queues!Spec, Pending, Ran, Jobs, RanOf
=============================================================================
