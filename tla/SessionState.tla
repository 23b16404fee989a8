---------------------------- MODULE SessionState ----------------------------
(***************************************************************************)
(* The two state machines a session carries, as operators on their state:  *)
(*                                                                         *)
(*   - ControlPlane (utils/stream_protocol.py): the state of the session   *)
(*     on the wire and the sequences still waiting for an ACK.  It is the  *)
(*     record [state, pending]; the deadlines that go with pending are in  *)
(*     module ControlPlane, which owns the time.                           *)
(*   - StreamStateMachine (common/state_machine.py), called lifecycle in   *)
(*     both nodes: what the process believes about its own progress.       *)
(*                                                                         *)
(* A Python method that may raise is a pair: XRaises says when it raises   *)
(* (and then changes nothing but what its caller sees), X is the state     *)
(* after a call that returns.                                              *)
(***************************************************************************)
States == {"INIT", "HANDSHAKING", "STREAMING", "DRAINING", "TERMINATED",
           "FAILED"}

Terminal == {"TERMINATED", "FAILED"}

-----------------------------------------------------------------------------
(* ControlPlane *)

ValidTransitions ==
  {<<"INIT", "HANDSHAKING">>,
   <<"HANDSHAKING", "STREAMING">>, <<"HANDSHAKING", "FAILED">>,
   <<"STREAMING", "DRAINING">>,    <<"STREAMING", "FAILED">>,
   <<"DRAINING", "TERMINATED">>,   <<"DRAINING", "FAILED">>}

NewPlane == [state |-> "INIT", pending |-> {}]

(* _transition: staying in the same state is always allowed. *)
Illegal(cp, target) ==
  target # cp.state /\ <<cp.state, target>> \notin ValidTransitions

Goto(cp, target) == [cp EXCEPT !.state = target]

OnConnected(cp) == Goto(cp, "HANDSHAKING")

OnFirstDataRaises(cp) == cp.state \notin {"HANDSHAKING", "STREAMING"}
OnFirstData(cp) == Goto(cp, "STREAMING")

(* A frame may still be sent while DRAINING; otherwise sending implies      *)
(* on_first_data, which refuses INIT, TERMINATED and FAILED.                *)
OnFrameSentRaises(cp) ==
  cp.state # "DRAINING" /\ OnFirstDataRaises(cp)
OnFrameSent(cp, sequence) ==
  [state   |-> IF cp.state = "DRAINING" THEN "DRAINING" ELSE "STREAMING",
   pending |-> cp.pending \union {sequence}]

(* DRAINING turns into TERMINATED as soon as nothing is pending.  Mutants: *)
(* it does so with ACKs outstanding; or it waits for another call.         *)
DrainedEarly(cp) ==
  IF cp.state = "DRAINING" THEN Goto(cp, "TERMINATED") ELSE cp

NeverDrained(cp) == cp

Drained(cp) ==
  IF cp.state = "DRAINING" /\ cp.pending = {}
  THEN Goto(cp, "TERMINATED")
  ELSE cp

OnAckRaises(cp, sequence) == sequence \notin cp.pending
OnAck(cp, sequence) ==
  Drained([cp EXCEPT !.pending = @ \ {sequence}])

OnEofSentRaises(cp) == cp.state \notin {"STREAMING", "DRAINING"}
OnEofSent(cp) == Goto(cp, "DRAINING")

OnEofReceivedRaises(cp) == cp.state \in {"INIT", "HANDSHAKING"}
OnEofReceived(cp) ==
  Drained(IF cp.state = "STREAMING" THEN Goto(cp, "DRAINING") ELSE cp)

OnErrorRaises(cp) == Illegal(cp, "FAILED")
OnError(cp) == Goto(cp, "FAILED")

(* on_shutdown fails whatever has not ended; it raises only in INIT. *)
OnShutdownRaises(cp) == cp.state \notin Terminal /\ Illegal(cp, "FAILED")
OnShutdown(cp) ==
  IF cp.state \in Terminal THEN cp ELSE Goto(cp, "FAILED")

OnHeartbeat(cp) ==
  IF cp.state = "HANDSHAKING" THEN Goto(cp, "STREAMING") ELSE cp

-----------------------------------------------------------------------------
(* StreamStateMachine *)

LifecycleTransitions ==
  {<<"INIT", "HANDSHAKING">>,
   <<"HANDSHAKING", "STREAMING">>, <<"HANDSHAKING", "DRAINING">>,
   <<"STREAMING", "DRAINING">>, <<"DRAINING", "TERMINATED">>}

(* transition raises on an edge outside the table, except that FAILED       *)
(* swallows every later request and FAILED itself is always reachable.      *)
TransitionRaises(lifecycle, target) ==
  /\ target # "FAILED"
  /\ lifecycle \notin {"FAILED", target}
  /\ <<lifecycle, target>> \notin LifecycleTransitions

Transition(lifecycle, target) ==
  IF lifecycle = "FAILED" THEN "FAILED" ELSE target
=============================================================================
