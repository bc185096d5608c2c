----------------------------- MODULE MCGpuWorker ------------------------------
(* Values of the constants of GpuWorker for TLC. *)
EXTENDS GpuWorker

CONSTANTS j1, j2, j3

MCOpLists == {<<"plain">>, <<"plain", "plain", "seam">>, <<"hidden", "plain", "poison">>}
=============================================================================
