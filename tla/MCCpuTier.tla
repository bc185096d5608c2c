----------------------------- MODULE MCCpuTier ------------------------------
(***************************************************************************)
(* CpuTier on three slots and four keys, two of which share a block hash   *)
(* (the same block in two KV-cache groups).                                *)
(***************************************************************************)
EXTENDS CpuTier

CONSTANTS a1, a2, b, c, ha, hb, hc

MCKey == {a1, a2, b, c}
MCHashOf == [k \in MCKey |-> CASE k \in {a1, a2} -> ha
                               [] k = b -> hb
                               [] k = c -> hc]
MCSymmetry == Permutations(JobId)
=============================================================================
