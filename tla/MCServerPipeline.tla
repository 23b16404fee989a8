-------------------------- MODULE MCServerPipeline --------------------------
(* Two workers behind queues of two slots, three frames: every queue fills, *)
(* a worker can be late while the other has left, and the sentinels compete *)
(* with frames for the slots.                                               *)
EXTENDS ServerPipeline
=============================================================================
