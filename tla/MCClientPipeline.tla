-------------------------- MODULE MCClientPipeline --------------------------
(* MCClientPipeline.cfg: every fault, and three frames, so that the reply of *)
(* the first may be unreadable, two be held back, and their flush fail       *)
(* between them.  One worker; one slot in every queue and in the window.     *)
(* MCClientClean.cfg: two workers and two frames, with an adaptive window: a *)
(* frame overtakes another in the encoders, or a sentinel a frame.  Of the   *)
(* faults those after which the tasks must still end by themselves.          *)
EXTENDS ClientPipeline
=============================================================================
