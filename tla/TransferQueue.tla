---------------------------- MODULE TransferQueue -----------------------------
(***************************************************************************)
(* What the GPU worker promises (v1/kv_offload/cpu/gpu_worker.py): in each *)
(* direction transfers run one at a time, in the order they were           *)
(* submitted, and each is reported once, in that order, after it ran.      *)
(***************************************************************************)
EXTENDS Naturals, Sequences

CONSTANTS Job, Direction

VARIABLES
    pending,    \* direction -> jobs submitted and not reported, oldest first
    ran         \* direction -> how many of them ran

TypeOK ==
    /\ pending \in [Direction -> Seq(Job)]
    /\ ran \in [Direction -> Nat]
    /\ \A d \in Direction : ran[d] <= Len(pending[d])

Init ==
    /\ pending = [d \in Direction |-> <<>>]
    /\ ran = [d \in Direction |-> 0]

Submit(d, j) ==
    /\ \A i \in DOMAIN pending[d] : pending[d][i] # j
    /\ pending' = [pending EXCEPT ![d] = Append(@, j)]
    /\ UNCHANGED ran

Run(d) ==
    /\ ran[d] < Len(pending[d])
    /\ ran' = [ran EXCEPT ![d] = @ + 1]
    /\ UNCHANGED pending

\* The n[d] oldest transfers of each direction, all of which ran, are reported.
Report(n) ==
    /\ pending' = [d \in Direction |-> SubSeq(pending[d], n[d] + 1, Len(pending[d]))]
    /\ ran' = [d \in Direction |-> ran[d] - n[d]]

\* Shutting a direction down forgets what is left, run or not.
Shutdown(d) ==
    /\ pending' = [pending EXCEPT ![d] = <<>>]
    /\ ran' = [ran EXCEPT ![d] = 0]

Next ==
    \/ \E d \in Direction, j \in Job : Submit(d, j)
    \/ \E d \in Direction : Run(d) \/ Shutdown(d)
    \/ \E n \in [Direction -> UNION {0 .. ran[d] : d \in Direction}] :
          (\A d \in Direction : n[d] <= ran[d]) /\ Report(n)

Spec == Init /\ [][Next]_<<pending, ran>>
=============================================================================
