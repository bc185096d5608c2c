--------------------------- MODULE CopyDescriptors ----------------------------
(***************************************************************************)
(* Which bytes a transfer copies (v1/kv_offload/cpu/gpu_worker.py): the    *)
(* descriptors transfer_async fills in, for the direct and the canonical   *)
(* layout of the tier; where the views of the region and the registered    *)
(* ranges of it lie (shared_offload_region.py, pin_mmap_region).           *)
(*                                                                         *)
(* A byte is named by its block and its place in it, not by an address.    *)
(* Sizes are in units the caller chooses.                                  *)
(***************************************************************************)
EXTENDS Integers, Sequences, FiniteSets, FiniteSetsExt

Cdiv(a, b) == (a + b - 1) \div b

(***************************************************************************)
(* A transfer t, as the connector describes it (GPULoadStoreSpec):         *)
(*   store   GPU to CPU, or back                                           *)
(*   bpc     blocks_per_chunk                                              *)
(*   groups  per group: size (GPU blocks), index (of the first of them in  *)
(*           the request)                                                  *)
(*   gpu     GPU blocks of all groups, one group after another             *)
(*   cpu     chunks of all groups                                          *)
(***************************************************************************)
BlocksPerChunk(t, side) == IF side = "cpu" THEN t.bpc ELSE 1
Ids(t, side) == IF side = "cpu" THEN t.cpu ELSE t.gpu

\* What group g takes of a side: sub-blocks skipped, and blocks from the list.
Skip(t, g, side) == t.groups[g].index % BlocksPerChunk(t, side)
\* Mutant: the skipped ones forgotten.
TakenBySize(t, g, side) == Cdiv(t.groups[g].size, BlocksPerChunk(t, side))

Taken(t, g, side) ==
    IF t.groups[g].size = 0 THEN 0
    ELSE Cdiv(t.groups[g].size + Skip(t, g, side), BlocksPerChunk(t, side))
Offset(t, g, side) ==
    MapThenSumSet(LAMBDA h : Taken(t, h, side), {h \in DOMAIN t.groups : h < g})

\* transfer_async: the lists hold what the groups take, neither more nor less.
ListsAddUp(t) ==
    \A side \in {"cpu", "gpu"} : Offset(t, Len(t.groups) + 1, side) = Len(Ids(t, side))

\* compute_sub_block_ptrs: the n places from the skipped ones on, as pairs of
\* a block and the number of a sub-block of it.
SubBlocks(ids, bpc, skip, n) ==
    [i \in 1 .. n |->
        IF bpc = 1 THEN <<ids[i], 0>>
        ELSE <<ids[(skip + i - 1) \div bpc + 1], (skip + i - 1) % bpc>>]

Places(t, g, side) ==
    SubBlocks(SubSeq(Ids(t, side), Offset(t, g, side) + 1,
                     Offset(t, g, side) + Taken(t, g, side)),
              BlocksPerChunk(t, side), Skip(t, g, side), t.groups[g].size)

\* _fill_direct_ops, for one tensor of the group: what goes where.
DirectOps(t, g) ==
    {[gpu |-> Places(t, g, "gpu")[i], cpu |-> Places(t, g, "cpu")[i]] :
        i \in 1 .. t.groups[g].size}

(***************************************************************************)
(* The canonical layout: a page of the tier is shared by all ranks, and a  *)
(* rank's page is scattered into it.  A mapping m holds                    *)
(*   runs     of fragments: num, size, and on each side offset and stride  *)
(*   writers, writer   ranks that could write, and which this one is       *)
(***************************************************************************)
\* _build_copy_plan: the fragments, as offsets on both sides and a size.
Fragments(m) ==
    UNION {{[local |-> r.local + i * r.localStride,
             canonical |-> r.canonical + i * r.canonicalStride,
             size |-> r.size] : i \in 0 .. r.num - 1} : r \in m.runs}

\* _canonical_page_ids: the number of a page among all pages of the tier.
PageId(t, place) == place[1] * t.bpc + place[2]

\* _filter_writer_blocks: on store the ranks take turns, page by page.
Active(t, m, ops) ==
    {op \in ops : t.store /\ m.writers > 1 => PageId(t, op.cpu) % m.writers = m.writer}

\* _fill_canonical_ops, byte by byte: [page, byte] of the tier, [block, byte]
\* of the rank's cache.
CopiesOf(t, g, m) ==
    UNION {{[cpu |-> <<op.cpu, f.canonical + k>>, gpu |-> <<op.gpu, f.local + k>>] :
               k \in 0 .. f.size - 1} :
           op \in Active(t, m, DirectOps(t, g)), f \in Fragments(m)}

\* _estimate_max_copy_ops
EstimatedOps(t, m) ==
    MapThenSumSet(LAMBDA g : t.groups[g].size * Cardinality(Fragments(m)),
                  DOMAIN t.groups)
NumOps(t, g, m) ==
    Cardinality(Active(t, m, DirectOps(t, g))) * Cardinality(Fragments(m))

(***************************************************************************)
(* The region: rows of `stride` bytes, one for each chunk.                 *)
(***************************************************************************)
\* create_next_worker_view: the tensors of a rank, one after another in the
\* rank's cell of the row; create_next_canonical_view: from the row's start.
ViewStart(pages, i) == MapThenSumSet(LAMBDA j : pages[j], 1 .. i - 1)
WorkerView(cell, rank, pages, i) ==
    rank * cell + ViewStart(pages, i) .. rank * cell + ViewStart(pages, i) + pages[i] - 1
WorkerViewFits(cell, pages, i) == ViewStart(pages, i) + pages[i] <= cell

\* pin_mmap_region: the size of the ranges it registers, for a requested one.
\* Huge is the size of a huge page, Least and Most the bounds of a range.
RegisteredSize(requested, stride, Huge, Least, Most) ==
    LET clamped == Max({Least, Min({requested, Most})})
        chunk == (clamped \div Huge) * Huge
        aligned == (chunk \div stride) * stride
    IN  IF stride > 0 /\ chunk > stride /\ stride % Huge = 0 /\ aligned >= Least
        THEN aligned ELSE chunk

\* The ranges, each with the result of registering it; all or none stay.
Pieces(total, chunk) == 1 .. Cdiv(total, chunk)
Piece(total, chunk, i) == (i - 1) * chunk .. Min({i * chunk, total}) - 1
Registered(total, chunk, ok) == IF ok = Pieces(total, chunk) THEN ok ELSE {}

-----------------------------------------------------------------------------
(***************************************************************************)
(* What the above should be.                                               *)
(***************************************************************************)
\* Each of the group's blocks goes to where its place in the request says, and
\* the blocks and chunks of the groups follow each other.
DirectOpsAreRight(t) ==
    /\ ListsAddUp(t)
    /\ \A g \in DOMAIN t.groups :
          LET first == t.groups[g].index
              size == t.groups[g].size
          IN  DirectOps(t, g) =
                {[gpu |-> <<t.gpu[Offset(t, g, "gpu") + i + 1], 0>>,
                  cpu |-> <<t.cpu[Offset(t, g, "cpu") + 1
                                    + (first + i) \div t.bpc - first \div t.bpc],
                            (first + i) % t.bpc>>] : i \in 0 .. size - 1}

\* Between them the ranks, with mappings ms, write each byte of a page once,
\* and each rank reads back every byte it holds, from where it was written.
CanonicalCopiesAreRight(t, ms) ==
    LET Store == [t EXCEPT !.store = TRUE]
        Load == [t EXCEPT !.store = FALSE]
        Writes(r, g) == CopiesOf(Store, g, ms[r])
        Reads(r, g) == CopiesOf(Load, g, ms[r])
    IN  \A g \in DOMAIN t.groups :
          /\ \A r, s \in DOMAIN ms : r # s =>
                {c.cpu : c \in Writes(r, g)} \cap {c.cpu : c \in Writes(s, g)} = {}
          /\ \A r \in DOMAIN ms :
                /\ Writes(r, g) \subseteq Reads(r, g)
                /\ \A c \in Reads(r, g) :
                      \E s \in DOMAIN ms : c.cpu \in {w.cpu : w \in Writes(s, g)}
                /\ {c.gpu[1] : c \in Reads(r, g)} = {op.gpu : op \in DirectOps(t, g)}
                /\ NumOps(Store, g, ms[r]) <= NumOps(Load, g, ms[r])
                /\ EstimatedOps(t, ms[r]) >= NumOps(Load, g, ms[r])

\* No two ranks share a byte of a row, and nobody leaves the row.
ViewsAreDisjoint(cell, ranks, stride, pages) ==
    (\A i \in DOMAIN pages : WorkerViewFits(cell, pages, i)) /\ ranks * cell <= stride =>
        \A r, s \in 0 .. ranks - 1, i, j \in DOMAIN pages :
            /\ WorkerView(cell, r, pages, i) \subseteq 0 .. stride - 1
            /\ <<r, i>> # <<s, j>> =>
                  WorkerView(cell, r, pages, i) \cap WorkerView(cell, s, pages, j) = {}

\* The ranges cover the region, and with rows of whole huge pages that leave a
\* range of a sane size, no row lies in two of them: no descriptor crosses a seam.
NoRowCrossesASeam(rows, requested, stride, Huge, Least, Most) ==
    LET total == rows * stride
        chunk == RegisteredSize(requested, stride, Huge, Least, Most)
        bound == Max({Least, Min({requested, Most})})
    IN  /\ chunk % Huge = 0
        /\ UNION {Piece(total, chunk, i) : i \in Pieces(total, chunk)} = 0 .. total - 1
        /\ stride % Huge = 0 /\ stride <= bound /\ bound - stride >= Least =>
              \A row \in 0 .. rows - 1 :
                \E i \in Pieces(total, chunk) :
                    row * stride .. (row + 1) * stride - 1 \subseteq Piece(total, chunk, i)
=============================================================================
