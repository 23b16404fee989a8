------------------------ MODULE ControlPlane_proofs ------------------------
(***************************************************************************)
(* What a ControlPlane keeps true for any set of sequence numbers, any     *)
(* timeouts and any clock, in whatever order its methods are called.       *)
(***************************************************************************)
EXTENDS ControlPlane, TLAPS

(* An ACK that counts is for a frame that was sent; a session that has seen *)
(* the peer's EOF never streams again; TERMINATED leaves nothing pending.   *)
SessionInv ==
  /\ acked \subseteq sent
  /\ eofReceived => cp.state \in {"DRAINING"} \union Terminal
  /\ cp.state = "TERMINATED" => cp.pending = {}

(* A sequence that was ever reported counts its timeout from the report. *)
StrikeInv ==
  \A s \in Sequences :
    reported[s] # Never =>
      s \in sent /\ deadline[s] = reported[s] + timeout[s]

IInv ==
  /\ TypeOK /\ LateAckAccepted /\ DrainCompletes
  /\ SessionInv /\ StrikeInv

Planes == [state : States, pending : SUBSET Sequences]

-----------------------------------------------------------------------------
LEMMA InitInv == Init => IInv
<1> SUFFICES ASSUME Init PROVE IInv
  OBVIOUS
<1>1. TypeOK
  <2>1. cp \in [state : States, pending : SUBSET Sequences]
    BY DEF Init, NewPlane, States
  <2>2. reported \in [Sequences -> 0..Never] /\ now \in 0..MaxTime
    BY TimeAssumption DEF Init, Never
  <2>3. deadline \in [Sequences -> Nat] /\ timeout \in [Sequences -> Nat]
    BY DEF Init
  <2> QED BY <2>1, <2>2, <2>3 DEF Init, TypeOK
<1>2. LateAckAccepted /\ DrainCompletes /\ SessionInv
  BY DEF Init, LateAckAccepted, DrainCompletes, SessionInv, NewPlane
<1>3. StrikeInv
  BY DEF Init, StrikeInv
<1> QED BY <1>1, <1>2, <1>3 DEF IInv

(* Drained only moves DRAINING to TERMINATED, and only with nothing pending. *)
LEMMA DrainedFacts ==
  ASSUME NEW p \in Planes
  PROVE  /\ Drained(p) \in Planes
         /\ Drained(p).pending = p.pending
         /\ IF p.state = "DRAINING" /\ p.pending = {}
            THEN Drained(p).state = "TERMINATED"
            ELSE Drained(p).state = p.state
BY DEF Planes, Drained, Goto, States

(* What is true of the session, without the clocks of its frames. *)
SessionOK ==
  /\ cp \in Planes
  /\ sent \subseteq Sequences /\ acked \subseteq Sequences
  /\ eofReceived \in BOOLEAN
  /\ LateAckAccepted /\ DrainCompletes /\ SessionInv

LEMMA SessionStep == SessionOK /\ [Next]_vars => SessionOK'
<1> SUFFICES ASSUME SessionOK, [Next]_vars PROVE SessionOK'
  OBVIOUS
<1> USE DEF SessionOK, LateAckAccepted, DrainCompletes, SessionInv, Planes
<1>1. CASE Connected
  BY <1>1 DEF Connected, plane, history, OnConnected, Illegal, Goto,
              ValidTransitions, States, Terminal
<1>2. CASE FirstData
  BY <1>2 DEF FirstData, history, OnFirstDataRaises, OnFirstData, Goto, States,
              Terminal
<1>3. CASE EofSent
  BY <1>3 DEF EofSent, history, OnEofSentRaises, OnEofSent, Goto, States, Terminal
<1>4. CASE EofReceived
  <2> DEFINE p == IF cp.state = "STREAMING" THEN Goto(cp, "DRAINING") ELSE cp
  <2>1. p \in Planes /\ p.pending = cp.pending
    BY DEF Goto, States
  <2>2. cp.state \notin {"INIT", "HANDSHAKING", "STREAMING"} => p = cp
    OBVIOUS
  <2>3. p.state \in {"DRAINING"} \union Terminal
    BY <1>4 DEF EofReceived, OnEofReceivedRaises, Goto, States, Terminal
  <2>4. p.state = "TERMINATED" => p.pending = {}
    BY DEF Goto
  <2>5. cp' = Drained(p) /\ eofReceived' = TRUE /\ UNCHANGED <<sent, acked>>
    BY <1>4 DEF EofReceived, OnEofReceived
  <2> HIDE DEF p
  <2> QED BY <2>1, <2>3, <2>4, <2>5, DrainedFacts DEF Terminal
<1>5. CASE ErrorSeen
  BY <1>5 DEF ErrorSeen, history, OnErrorRaises, OnError, Goto, States, Terminal
<1>6. CASE Shutdown
  BY <1>6 DEF Shutdown, history, OnShutdown, Goto, States, Terminal
<1>7. CASE Heartbeat
  BY <1>7 DEF Heartbeat, history, OnHeartbeat, Goto, States, Terminal
<1>8. ASSUME NEW s \in Sequences, AckReceived(s)
      PROVE  SessionOK'
  <2> DEFINE p == [cp EXCEPT !.pending = @ \ {s}]
  <2>1. p \in Planes /\ p.pending = cp.pending \ {s} /\ p.state = cp.state
    OBVIOUS
  <2>2. s \in cp.pending
    BY <1>8 DEF AckReceived, OnAckRaises
  <2>3. /\ cp' = Drained(p) /\ acked' = acked \union {s}
        /\ UNCHANGED <<sent, eofReceived>>
    BY <1>8 DEF AckReceived, OnAck
  <2> HIDE DEF p
  <2> QED BY <2>1, <2>2, <2>3, DrainedFacts DEF Terminal
<1>9. ASSUME NEW s \in Sequences, NEW t \in Timeouts, FrameSent(s, t)
      PROVE  SessionOK'
  BY <1>9 DEF FrameSent, OnFrameSentRaises, OnFirstDataRaises, OnFrameSent,
              States, Terminal
<1>10. CASE ExpiredSequences
  BY <1>10 DEF ExpiredSequences
<1>11. CASE Tick
  BY <1>11 DEF Tick, plane, history
<1>12. CASE UNCHANGED vars
  BY <1>12 DEF vars, plane, history
<1> QED
  BY <1>1, <1>2, <1>3, <1>4, <1>5, <1>6, <1>7, <1>8, <1>9, <1>10, <1>11, <1>12
     DEF Next

-----------------------------------------------------------------------------
(* The clocks: a report at now re-arms its sequence from now. *)
ClocksOK ==
  /\ deadline \in [Sequences -> Nat] /\ timeout \in [Sequences -> Nat]
  /\ now \in 0..MaxTime
  /\ reported \in [Sequences -> 0..Never]
  /\ StrikeInv

(* Only the sequences that expired_sequences returns are re-armed. *)
LEMMA ReportedStep ==
  ASSUME ClocksOK, SessionOK, ExpiredSequences
  PROVE  ClocksOK'
<1> USE TimeAssumption DEF ClocksOK
<1>1. Overdue \subseteq sent
  BY DEF Overdue, SessionOK, LateAckAccepted
<1>2. \A s \in Sequences : s \in Overdue =>
        deadline'[s] = now + timeout[s] /\ reported'[s] = now
  BY DEF ExpiredSequences
<1>3. \A s \in Sequences : s \notin Overdue =>
        deadline'[s] = deadline[s] /\ reported'[s] = reported[s]
  BY DEF ExpiredSequences
<1>4. UNCHANGED <<timeout, now, sent>>
  BY DEF ExpiredSequences
<1>5. deadline' \in [Sequences -> Nat]
  BY DEF ExpiredSequences
<1>6. reported' \in [Sequences -> 0..Never]
  BY DEF ExpiredSequences, Never
<1>7. StrikeInv'
  BY <1>1, <1>2, <1>3, <1>4 DEF StrikeInv, Never
<1> QED BY <1>4, <1>5, <1>6, <1>7 DEF Never

LEMMA ClockStep == ClocksOK /\ SessionOK /\ [Next]_vars => ClocksOK'
<1> SUFFICES ASSUME ClocksOK, SessionOK, [Next]_vars PROVE ClocksOK'
  OBVIOUS
<1> USE DEF ClocksOK, StrikeInv, Never
<1>1. CASE \/ Connected \/ FirstData \/ EofSent \/ EofReceived
           \/ ErrorSeen \/ Shutdown \/ Heartbeat
  BY <1>1 DEF Connected, FirstData, EofSent, EofReceived, ErrorSeen, Shutdown,
              Heartbeat, history
<1>2. ASSUME NEW s \in Sequences, AckReceived(s) PROVE ClocksOK'
  BY <1>2 DEF AckReceived
<1>3. ASSUME NEW s \in Sequences, NEW t \in Timeouts, FrameSent(s, t)
      PROVE  ClocksOK'
  <2>1. now + t \in Nat /\ t \in Nat
    BY TimeAssumption
  <2>2. reported[s] = Never
    BY <1>3 DEF FrameSent
  <2> QED BY <1>3, <2>1, <2>2 DEF FrameSent
<1>4. CASE ExpiredSequences
  BY <1>4, ReportedStep
<1>5. CASE Tick
  BY <1>5, TimeAssumption DEF Tick, plane, history
<1>6. CASE UNCHANGED vars
  BY <1>6 DEF vars, plane, history
<1> QED BY <1>1, <1>2, <1>3, <1>4, <1>5, <1>6 DEF Next

LEMMA Invariance == Spec => []IInv
<1>1. Init => IInv
  BY InitInv
<1>2. IInv <=> SessionOK /\ ClocksOK
  BY DEF IInv, SessionOK, ClocksOK, TypeOK, Planes
<1>3. IInv /\ [Next]_vars => IInv'
  <2> SUFFICES ASSUME IInv, [Next]_vars PROVE IInv'
    OBVIOUS
  <2>1. SessionOK' /\ ClocksOK'
    BY <1>2, SessionStep, ClockStep
  <2> QED BY <2>1 DEF IInv, SessionOK, ClocksOK, TypeOK, Planes
<1> QED BY <1>1, <1>3, PTL DEF Spec

-----------------------------------------------------------------------------
(* Every variable keeps its type. *)
THEOREM TypeCorrect == Spec => []TypeOK
BY Invariance, PTL DEF IInv

(* pending is what was sent and not acknowledged: a late ACK is accepted,   *)
(* however many times expired_sequences has reported its frame.             *)
THEOREM LateAcks == Spec => []LateAckAccepted
BY Invariance, PTL DEF IInv

(* A TERMINATED session has seen the ACK of everything it sent. *)
THEOREM Termination == Spec => []TerminatedMeansAllAcked
<1>1. IInv => TerminatedMeansAllAcked
  BY DEF IInv, LateAckAccepted, SessionInv, TerminatedMeansAllAcked
<1> QED BY <1>1, Invariance, PTL

(* After the peer's EOF nothing but a missing ACK keeps a session open. *)
THEOREM Draining == Spec => []DrainCompletes
BY Invariance, PTL DEF IInv

(* No method moves a session out of TERMINATED or FAILED. *)
THEOREM Finality == Spec => TerminalIsFinal
<1>1. IInv /\ [Next]_vars => [cp.state \in Terminal => cp'.state = cp.state]_vars
  <2> SUFFICES ASSUME IInv, [Next]_vars, cp.state \in Terminal
               PROVE  cp'.state = cp.state
    OBVIOUS
  <2> USE DEF IInv, TypeOK, Terminal
  <2>1. ASSUME NEW s \in Sequences, AckReceived(s) PROVE cp'.state = cp.state
    BY <2>1 DEF AckReceived, OnAck, Drained
  <2>2. ASSUME NEW s \in Sequences, NEW t \in Timeouts
        PROVE  ~FrameSent(s, t)
    BY DEF FrameSent, OnFrameSentRaises, OnFirstDataRaises
  <2>3. CASE EofReceived
    BY <2>3 DEF EofReceived, OnEofReceived, Drained
  <2>4. CASE Connected \/ ErrorSeen
    BY <2>4 DEF Connected, ErrorSeen, Illegal, OnConnected, OnErrorRaises,
                OnError, Goto, ValidTransitions
  <2>5. CASE FirstData \/ EofSent
    BY <2>5 DEF FirstData, EofSent, OnFirstDataRaises, OnEofSentRaises
  <2>6. CASE Shutdown \/ Heartbeat
    BY <2>6 DEF Shutdown, Heartbeat, OnShutdown, OnHeartbeat
  <2>7. CASE ExpiredSequences \/ Tick \/ UNCHANGED vars
    BY <2>7 DEF ExpiredSequences, Tick, vars, plane
  <2> QED BY <2>1, <2>2, <2>3, <2>4, <2>5, <2>6, <2>7 DEF Next
<1> QED BY <1>1, Invariance, PTL DEF Spec, TerminalIsFinal

(* An overdue ACK is reported once per timeout, however often the owner     *)
(* polls.                                                                   *)
THEOREM Pacing == Spec => StrikesArePaced
<1> DEFINE A == \A s \in Sequences :
                  (reported[s] # Never /\ reported'[s] # reported[s])
                    => reported'[s] >= reported[s] + timeout[s]
<1>1. IInv /\ [Next]_vars => [A]_vars
  <2> SUFFICES ASSUME IInv, [Next]_vars, NEW s \in Sequences,
                      reported[s] # Never, reported'[s] # reported[s]
               PROVE  reported'[s] >= reported[s] + timeout[s]
    OBVIOUS
  <2>1. ExpiredSequences
    BY DEF Next, Connected, FirstData, EofSent, EofReceived, ErrorSeen, Shutdown,
           Heartbeat, AckReceived, FrameSent, Tick, vars, plane, history
  <2>2. s \in Overdue /\ reported'[s] = now
    BY <2>1 DEF ExpiredSequences, IInv, TypeOK
  <2>3. deadline[s] = reported[s] + timeout[s] /\ now >= deadline[s]
    BY <2>2 DEF Overdue, IInv, StrikeInv
  <2> QED BY <2>2, <2>3
<1> QED BY <1>1, Invariance, PTL DEF Spec, StrikesArePaced
=============================================================================
