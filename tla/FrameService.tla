---------------------------- MODULE FrameService ----------------------------
(***************************************************************************)
(* What the stream server promises its client, without tasks or queues.    *)
(*                                                                         *)
(* A frame is accepted (its ACK is on the wire) and later answered (its    *)
(* decoded DATA, or an ERROR, is on the wire), once each and in that       *)
(* order.  A session that is not broken closes only when nothing accepted  *)
(* is unanswered, and then accepts nothing more.  A broken session makes   *)
(* no promise about the frames it has not answered yet.                    *)
(***************************************************************************)
CONSTANT Frames

VARIABLES accepted, answered, mode

vars == <<accepted, answered, mode>>

Init == accepted = {} /\ answered = {} /\ mode = "serving"

Accept(f) ==
  /\ mode # "closed"
  /\ f \notin accepted
  /\ accepted' = accepted \union {f}
  /\ UNCHANGED <<answered, mode>>

Answer(f) ==
  /\ mode # "closed"
  /\ f \in accepted \ answered
  /\ answered' = answered \union {f}
  /\ UNCHANGED accepted
  /\ mode' \in {mode, "broken"}

Break == mode = "serving" /\ mode' = "broken" /\ UNCHANGED <<accepted, answered>>

Close ==
  /\ mode = "serving"
  /\ answered = accepted
  /\ mode' = "closed"
  /\ UNCHANGED <<accepted, answered>>

Next == (\E f \in Frames : Accept(f) \/ Answer(f)) \/ Break \/ Close

Spec == Init /\ [][Next]_vars
=============================================================================
