---------------------------- MODULE ControlPlane ----------------------------
(***************************************************************************)
(* One ControlPlane object (utils/stream_protocol.py) driven by the calls  *)
(* its owner may make, in any order the state machine lets through, with   *)
(* the ACK deadlines it keeps.                                             *)
(*                                                                         *)
(* Time is a counter.  A call that raises ControlPlaneError is not an      *)
(* action: it changes nothing (on_error does record its code and message   *)
(* before it is refused; they are not modelled).                           *)
(***************************************************************************)
EXTENDS Naturals, SessionState

CONSTANTS
  Sequences,   \* sequence numbers the owner may send
  Timeouts,    \* ACK timeouts the owner's policy may choose
  MaxTime      \* bound on the clock

ASSUME TimeAssumption == Timeouts \subseteq Nat \ {0} /\ MaxTime \in Nat

VARIABLES
  cp,          \* [state, pending]
  deadline,    \* _pending_deadlines: when each pending sequence is overdue
  timeout,     \*    and the timeout it was armed with
  now,         \* time.monotonic_ns()
  sent,        \* history: sequences handed to on_frame_sent
  acked,       \* history: sequences on_ack accepted
  eofReceived, \* history: on_eof_received has returned
  reported     \* history: when expired_sequences last returned a sequence

plane == <<cp, deadline, timeout>>
history == <<sent, acked, eofReceived, reported>>
vars == <<plane, now, history>>

Never == MaxTime + 1

Init ==
  /\ cp = NewPlane
  /\ deadline = [s \in Sequences |-> 0]
  /\ timeout = [s \in Sequences |-> 0]
  /\ now = 0
  /\ sent = {} /\ acked = {} /\ eofReceived = FALSE
  /\ reported = [s \in Sequences |-> Never]

-----------------------------------------------------------------------------
Connected ==
  /\ ~Illegal(cp, "HANDSHAKING")
  /\ cp' = OnConnected(cp)
  /\ UNCHANGED <<deadline, timeout, now, history>>

FirstData ==
  /\ ~OnFirstDataRaises(cp)
  /\ cp' = OnFirstData(cp)
  /\ UNCHANGED <<deadline, timeout, now, history>>

(* The owner numbers its frames, so a sequence is sent once. *)
FrameSent(s, t) ==
  /\ s \notin sent
  /\ ~OnFrameSentRaises(cp)
  /\ cp' = OnFrameSent(cp, s)
  /\ deadline' = [deadline EXCEPT ![s] = now + t]
  /\ timeout' = [timeout EXCEPT ![s] = t]
  /\ sent' = sent \union {s}
  /\ UNCHANGED <<now, acked, eofReceived, reported>>

AckReceived(s) ==
  /\ ~OnAckRaises(cp, s)
  /\ cp' = OnAck(cp, s)
  /\ acked' = acked \union {s}
  /\ UNCHANGED <<deadline, timeout, now, sent, eofReceived, reported>>

EofSent ==
  /\ ~OnEofSentRaises(cp)
  /\ cp' = OnEofSent(cp)
  /\ UNCHANGED <<deadline, timeout, now, history>>

EofReceived ==
  /\ ~OnEofReceivedRaises(cp)
  /\ cp' = OnEofReceived(cp)
  /\ eofReceived' = TRUE
  /\ UNCHANGED <<deadline, timeout, now, sent, acked, reported>>

ErrorSeen ==
  /\ ~OnErrorRaises(cp)
  /\ cp' = OnError(cp)
  /\ UNCHANGED <<deadline, timeout, now, history>>

Shutdown ==
  /\ ~OnShutdownRaises(cp)
  /\ cp' = OnShutdown(cp)
  /\ UNCHANGED <<deadline, timeout, now, history>>

Heartbeat ==
  /\ cp' = OnHeartbeat(cp)
  /\ UNCHANGED <<deadline, timeout, now, history>>

(* expired_sequences: what it returns stays pending, re-armed from now. *)
Overdue == {s \in cp.pending : now >= deadline[s]}

(* Mutants: a reported sequence is forgotten; it keeps its old deadline.   *)
ExpiredSequencesForgets ==
  /\ Overdue # {}
  /\ cp' = [cp EXCEPT !.pending = @ \ Overdue]
  /\ reported' = [s \in Sequences |-> IF s \in Overdue THEN now
                                                       ELSE reported[s]]
  /\ UNCHANGED <<deadline, timeout, now, sent, acked, eofReceived>>

ExpiredSequencesRearmsFromDeadline ==
  /\ Overdue # {}
  /\ deadline' = [s \in Sequences |-> IF s \in Overdue
                                      THEN deadline[s] + timeout[s]
                                      ELSE deadline[s]]
  /\ reported' = [s \in Sequences |-> IF s \in Overdue THEN now
                                                       ELSE reported[s]]
  /\ UNCHANGED <<cp, timeout, now, sent, acked, eofReceived>>

ExpiredSequences ==
  /\ Overdue # {}
  /\ deadline' = [s \in Sequences |-> IF s \in Overdue THEN now + timeout[s]
                                                       ELSE deadline[s]]
  /\ reported' = [s \in Sequences |-> IF s \in Overdue THEN now
                                                       ELSE reported[s]]
  /\ UNCHANGED <<cp, timeout, now, sent, acked, eofReceived>>

Tick ==
  /\ now < MaxTime
  /\ now' = now + 1
  /\ UNCHANGED <<plane, history>>

Next ==
  \/ Connected \/ FirstData \/ EofSent \/ EofReceived
  \/ ErrorSeen \/ Shutdown \/ Heartbeat
  \/ \E s \in Sequences : AckReceived(s) \/ \E t \in Timeouts : FrameSent(s, t)
  \/ ExpiredSequences \/ Tick

Spec == Init /\ [][Next]_vars

-----------------------------------------------------------------------------
(* Every variable keeps its type. *)
TypeOK ==
  /\ cp \in [state : States, pending : SUBSET Sequences]
  /\ deadline \in [Sequences -> Nat]
  /\ timeout \in [Sequences -> Nat]
  /\ now \in 0..MaxTime
  /\ sent \subseteq Sequences
  /\ acked \subseteq Sequences
  /\ eofReceived \in BOOLEAN
  /\ reported \in [Sequences -> 0..Never]

(* A frame is owed an ACK from on_frame_sent until on_ack, however often   *)
(* expired_sequences has reported it in between: a late ACK never finds    *)
(* its sequence missing (the comment on re-arming in expired_sequences).   *)
LateAckAccepted == cp.pending = sent \ acked

(* TERMINATED is a promise: every frame handed to on_frame_sent has been   *)
(* acknowledged, whatever mix of EOFs, ACKs and late sends led there.      *)
TerminatedMeansAllAcked == cp.state = "TERMINATED" => sent \subseteq acked

(* Once the peer's EOF is in, the session ends as soon as nothing is       *)
(* pending: no order of EOF, ACK and late send leaves it DRAINING.         *)
DrainCompletes ==
  eofReceived /\ cp.pending = {} => cp.state \in Terminal

(* A session that has ended stays ended, in the state it ended in. *)
TerminalIsFinal ==
  [][cp.state \in Terminal => cp'.state = cp.state]_vars

(* Two reports of one sequence by expired_sequences are at least its       *)
(* timeout apart: re-arming counts from the report, so one overdue ACK     *)
(* costs one strike per timeout and not one per poll.                      *)
StrikesArePaced ==
  [][\A s \in Sequences :
       (reported[s] # Never /\ reported'[s] # reported[s])
         => reported'[s] >= reported[s] + timeout[s]]_vars
=============================================================================
