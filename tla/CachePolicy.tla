----------------------------- MODULE CachePolicy ------------------------------
(***************************************************************************)
(* CachePolicy (v1/kv_offload/cpu/policies/base.py): what LruTier and      *)
(* ArcTier share.  A policy keeps ordered dicts of keys beside CpuTier's   *)
(* table of blocks, chooses the victims of an eviction, and is told which  *)
(* keys are used by touch(), which CpuTier does not see.                   *)
(***************************************************************************)
EXTENDS CpuTier

CONSTANT MaxTouch       \* bound: keys in one touch()

\* move_to_end of an ordered dict.
MoveToEnd(seq, k) == Append(Without(seq, {k}), k)

TouchInputs ==
    {ks \in SetToAllKPermutations(Key) : Len(ks) \in 1 .. MaxTouch}
=============================================================================
