--------------------------- MODULE MCCpuPolicies ----------------------------
(* The CPU tier with either policy on a small instance: every key a hash.  *)
EXTENDS CpuPolicies

MCHashOf == [k \in Key |-> k]
MCSymmetry == Permutations(JobId) \cup Permutations(Key)
=============================================================================
