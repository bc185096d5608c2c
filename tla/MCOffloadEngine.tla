--------------------------- MODULE MCOffloadEngine ----------------------------
(* Values of the constants of OffloadEngine for TLC. *)
EXTENDS OffloadEngine

CONSTANTS r1, r2, ka, kb, kc, kd, ke, kz, w1, w2

MCHashOf == [k \in Key |-> k]

\* Two requests that share their first chunk.  Chunk kz is never computed.
MCKeysOf == (r1 :> <<ka, kb, kd, kz>>) @@ (r2 :> <<ka, kc, ke, kz>>)
MCPromptTokens == (r1 :> 2) @@ (r2 :> 1)

\* A conversation of two turns: the prompt of r2 is all that r1 ends with, and
\* one token more.
MCTurnsKeysOf == (r1 :> <<ka, kb, kc, kd, kz>>) @@ (r2 :> <<ka, kb, kc, kd, ke>>)
MCTurnsPromptTokens == (r1 :> 1) @@ (r2 :> 9)
=============================================================================
