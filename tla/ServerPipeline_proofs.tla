----------------------- MODULE ServerPipeline_proofs -----------------------
(***************************************************************************)
(* What a server session keeps true for any number of workers, any bound   *)
(* on the queues and any number of frames: types and the counts of its     *)
(* queues, and that it implements FrameService.                            *)
(***************************************************************************)
EXTENDS ServerPipeline, FiniteSetTheorems, FunctionTheorems, SequenceTheorems, TLAPS

Planes == [state : States, pending : SUBSET Frames]
WorkerStates == Holding \union {"get", "putNone", "exit"}

(* The workers that owe the decode queue a task_done(). *)
Holders(pc) == {w \in Workers : pc[w] \in Holding}

(* The parts of the invariant, one for each task and each queue. *)
RecvInv ==
  /\ rpc \in {"recv", "control", "deny", "ack", "put", "closing", "raising",
              "done", "raised"}
  /\ job \in 0..MaxFrame
  /\ rpc \in {"ack", "put"} => job \in Frames

WorkInv ==
  /\ wpc \in [Workers -> WorkerStates]
  /\ wjob \in [Workers -> Items]
  /\ \A w \in Workers : wjob[w] \in Frames <=> wpc[w] \in Holding

SendInv ==
  /\ spc \in {"get", "send", "done", "raised"}
  /\ item \in Results \union {None}
  /\ spc = "get" => item = None
  /\ spc = "send" => item # None
  /\ finished \in Nat /\ drained \in BOOLEAN

MainInv ==
  /\ mpc \in {"recv", "puts", "join", "gather", "sendJoin", "awaitSend",
              "closed", "raised"}
  /\ puts \in Nat

DecodeQueueInv ==
  /\ decodeQ \in Seq(Items)
  /\ Len(decodeQ) <= QueueBound
  /\ decodeUndone = Len(decodeQ) + Cardinality(Holders(wpc))

SendQueueInv ==
  /\ sendQ \in Seq(Results \union {None})
  /\ Len(sendQ) <= QueueBound
  /\ SendQueueBalanced

SessionInv ==
  /\ stop \in BOOLEAN /\ producerDone \in BOOLEAN
  /\ cp \in Planes /\ lifecycle \in States

WireInv ==
  /\ acked \subseteq Frames /\ answered \subseteq Frames
  /\ eofSent \in BOOLEAN

TypeInv ==
  /\ RecvInv /\ WorkInv /\ SendInv /\ MainInv
  /\ DecodeQueueInv /\ SendQueueInv /\ SessionInv /\ WireInv

-----------------------------------------------------------------------------
(* The methods of both state machines return a state of theirs. *)
LEMMA PlaneTyped ==
  ASSUME NEW p \in Planes
  PROVE  /\ OnHeartbeat(p) \in Planes /\ OnError(p) \in Planes
         /\ OnFirstData(p) \in Planes /\ OnEofSent(p) \in Planes
         /\ OnEofReceived(p) \in Planes /\ OnShutdown(p) \in Planes
         /\ OnConnected(p) \in Planes
BY DEF Planes, OnHeartbeat, OnError, OnFirstData, OnEofSent, OnEofReceived,
       OnShutdown, OnConnected, Goto, Drained, States

LEMMA TransitionTyped ==
  ASSUME NEW l \in States, NEW t \in States
  PROVE  Transition(l, t) \in States
BY DEF Transition, States

LEMMA HoldersFinite ==
  ASSUME NEW pc
  PROVE  /\ IsFiniteSet(Holders(pc))
         /\ Cardinality(Holders(pc)) \in Nat
<1>1. IsFiniteSet(Holders(pc))
  BY FS_Subset, WorkersAssumption DEF Holders
<1> QED BY <1>1, FS_CardinalityType

(* A worker that takes a job, one that gives its job up, and one that does  *)
(* neither.                                                                 *)
LEMMA HolderAdded ==
  ASSUME NEW pc \in [Workers -> WorkerStates], NEW w \in Workers,
         NEW s \in Holding, pc[w] \notin Holding
  PROVE  Cardinality(Holders([pc EXCEPT ![w] = s]))
           = Cardinality(Holders(pc)) + 1
<1>1. Holders([pc EXCEPT ![w] = s]) = Holders(pc) \union {w}
  BY DEF Holders
<1>2. w \notin Holders(pc)
  BY DEF Holders
<1> QED BY <1>1, <1>2, HoldersFinite, FS_AddElement

LEMMA HolderRemoved ==
  ASSUME NEW pc \in [Workers -> WorkerStates], NEW w \in Workers,
         NEW s \in WorkerStates \ Holding, pc[w] \in Holding
  PROVE  /\ Cardinality(Holders([pc EXCEPT ![w] = s]))
              = Cardinality(Holders(pc)) - 1
         /\ Cardinality(Holders(pc)) # 0
<1>1. Holders([pc EXCEPT ![w] = s]) = Holders(pc) \ {w}
  BY DEF Holders
<1>2. w \in Holders(pc)
  BY DEF Holders
<1>3. Cardinality(Holders(pc)) # 0
  BY <1>2, HoldersFinite, FS_EmptySet
<1> QED BY <1>1, <1>2, <1>3, HoldersFinite, FS_RemoveElement

LEMMA HolderKept ==
  ASSUME NEW pc \in [Workers -> WorkerStates], NEW w \in Workers,
         NEW s \in WorkerStates, pc[w] \in Holding <=> s \in Holding
  PROVE  Holders([pc EXCEPT ![w] = s]) = Holders(pc)
BY DEF Holders

(* Leaving the send loop. *)
LEMMA LeaveLoopTyped ==
  ASSUME NEW cp0 \in Planes, NEW lifecycle0 \in States,
         LeaveLoop(cp0, lifecycle0)
  PROVE  spc' \in {"done", "raised"} /\ cp' \in Planes /\ lifecycle' \in States
<1>1. OnEofSent(cp0) \in Planes
  BY PlaneTyped
<1>2. Transition(lifecycle0, "DRAINING") \in States
  BY TransitionTyped DEF States
<1> QED BY <1>1, <1>2 DEF LeaveLoop

-----------------------------------------------------------------------------
LEMMA InitTyped == Init => TypeInv
<1> SUFFICES ASSUME Init PROVE TypeInv
  OBVIOUS
<1>1. RecvInv /\ MainInv /\ WireInv
  <2>1. RecvInv
    BY BoundAssumption DEF Init, RecvInv
  <2>2. MainInv /\ WireInv
    BY DEF Init, MainInv, WireInv
  <2> QED BY <2>1, <2>2
<1>2. WorkInv
  BY NoneAssumption DEF Init, WorkInv, WorkerStates, Holding, Items
<1>3. SendInv
  BY DEF Init, SendInv
<1>4. DecodeQueueInv
  <2>1. Holders(wpc) = {}
    BY DEF Init, Holders, Holding
  <2>2. Cardinality(Holders(wpc)) = 0
    BY <2>1, FS_EmptySet
  <2>3. decodeQ \in Seq(Items) /\ Len(decodeQ) = 0 /\ decodeUndone = 0
    BY EmptySeq DEF Init
  <2> QED BY <2>2, <2>3, BoundAssumption DEF DecodeQueueInv
<1>5. SendQueueInv
  BY EmptySeq, BoundAssumption DEF Init, SendQueueInv, SendQueueBalanced
<1>6. SessionInv
  <2>1. NewPlane \in Planes
    BY DEF NewPlane, Planes, States
  <2> QED BY <2>1, PlaneTyped DEF Init, SessionInv, States
<1> QED BY <1>1, <1>2, <1>3, <1>4, <1>5, <1>6 DEF TypeInv

-----------------------------------------------------------------------------
(* One more item in a queue that has room, and one item fewer. *)
LEMMA AppendTyped ==
  ASSUME NEW S, NEW q \in Seq(S), NEW x \in S, Room(q)
  PROVE  /\ Append(q, x) \in Seq(S)
         /\ Len(Append(q, x)) = Len(q) + 1
         /\ Len(Append(q, x)) <= QueueBound
BY AppendProperties, LenProperties, BoundAssumption DEF Room

LEMMA TailTyped ==
  ASSUME NEW S, NEW q \in Seq(S), q # <<>>, Len(q) <= QueueBound
  PROVE  /\ Tail(q) \in Seq(S) /\ Head(q) \in S
         /\ Len(Tail(q)) = Len(q) - 1
         /\ Len(Tail(q)) <= QueueBound
<1>1. Len(q) \in Nat
  BY LenProperties
<1> QED BY <1>1, HeadTailProperties, BoundAssumption

LEMMA RecvTyped == TypeInv /\ Recv => TypeInv'
<1> SUFFICES ASSUME TypeInv, Recv PROVE TypeInv'
  OBVIOUS
<1>1. RecvInv'
  <2>1. CASE RecvData
    BY <2>1, BoundAssumption DEF RecvData, TypeInv, RecvInv, NextTurn, Frames
  <2>2. CASE RecvTimeout \/ HeartbeatSent \/ RecvFailed \/ RecvHeartbeat
             \/ RecvError \/ RecvEof \/ DenySent
    BY <2>2 DEF RecvTimeout, HeartbeatSent, RecvFailed, RecvHeartbeat,
       RecvError, RecvEof, DenySent, TypeInv, RecvInv, NextTurn
  <2>3. CASE AckSent \/ AckFailed \/ JobPut \/ RecvExit
    BY <2>3 DEF AckSent, AckFailed, JobPut, RecvExit, TypeInv, RecvInv,
       NextTurn
  <2> QED BY <2>1, <2>2, <2>3 DEF Recv
<1>2. UNCHANGED <<workVars, sendVars, mainVars, sendQVars, answered, eofSent>>
  BY DEF Recv, RecvTimeout, HeartbeatSent, RecvFailed, RecvHeartbeat,
     RecvError, RecvEof, RecvData, DenySent, AckSent, AckFailed, JobPut,
     RecvExit, wire
<1>3. WorkInv' /\ SendInv' /\ MainInv' /\ SendQueueInv'
  BY <1>2 DEF TypeInv, WorkInv, SendInv, MainInv, SendQueueInv,
     SendQueueBalanced, workVars, sendVars, mainVars, sendQVars
<1>4. DecodeQueueInv'
  <2>1. UNCHANGED wpc
    BY <1>2 DEF workVars
  <2>2. ASSUME EnqueueJob, Room(decodeQ), job \in Frames
        PROVE  DecodeQueueInv'
    <3>1. job \in Items
      BY <2>2 DEF Items
    <3>2. /\ decodeQ' \in Seq(Items)
          /\ Len(decodeQ') = Len(decodeQ) + 1
          /\ Len(decodeQ') <= QueueBound
      BY <2>2, <3>1, AppendTyped DEF TypeInv, DecodeQueueInv, EnqueueJob
    <3>3. Len(decodeQ) \in Nat /\ Cardinality(Holders(wpc)) \in Nat
      BY LenProperties, HoldersFinite DEF TypeInv, DecodeQueueInv
    <3> QED BY <2>1, <2>2, <3>2, <3>3
            DEF TypeInv, DecodeQueueInv, EnqueueJob
  <2>3. CASE AckSent \/ JobPut
    BY <2>1, <2>2, <2>3 DEF AckSent, JobPut, TypeInv, RecvInv,
       DecodeQueueInv, decodeQVars
  <2>4. CASE ~AckSent /\ ~JobPut
    <3>1. UNCHANGED decodeQVars
      BY <2>4 DEF Recv, RecvTimeout, HeartbeatSent, RecvFailed, RecvHeartbeat,
         RecvError, RecvEof, RecvData, DenySent, AckFailed, RecvExit
    <3> QED BY <2>1, <3>1 DEF TypeInv, DecodeQueueInv, decodeQVars
  <2> QED BY <2>3, <2>4
<1>5. SessionInv'
  <2>1. CASE RecvHeartbeat
    BY <2>1, PlaneTyped DEF RecvHeartbeat, TypeInv, SessionInv, events
  <2>2. CASE RecvError
    BY <2>2, PlaneTyped DEF RecvError, TypeInv, SessionInv, FailAndSignal,
       States
  <2>3. CASE RecvEof
    <3>1. /\ Transition(lifecycle, "DRAINING") \in States
          /\ Transition(Transition(lifecycle, "DRAINING"), "TERMINATED")
               \in States
      BY TransitionTyped DEF TypeInv, SessionInv, States
    <3>2. OnEofReceived(cp) \in Planes
      BY PlaneTyped DEF TypeInv, SessionInv
    <3>3. UNCHANGED stop /\ producerDone' \in BOOLEAN
      BY <2>3 DEF RecvEof, TypeInv, SessionInv
    <3> QED BY <2>3, <3>1, <3>2, <3>3
            DEF RecvEof, TypeInv, SessionInv, session
  <2>4. CASE RecvData
    <3>1. OnFirstData(cp) \in Planes
      BY PlaneTyped DEF TypeInv, SessionInv
    <3>2. Transition(lifecycle, "STREAMING") \in States
      BY TransitionTyped DEF TypeInv, SessionInv, States
    <3> QED BY <2>4, <3>1, <3>2
            DEF RecvData, FirstFrame, TypeInv, SessionInv, session, events
  <2>5. CASE HeartbeatSent \/ RecvFailed \/ AckFailed \/ RecvExit
    BY <2>5 DEF HeartbeatSent, RecvFailed, AckFailed, RecvExit, FailAndSignal,
       TypeInv, SessionInv, States, session
  <2>6. CASE RecvTimeout \/ DenySent \/ AckSent \/ JobPut
    BY <2>6 DEF RecvTimeout, DenySent, AckSent, JobPut, TypeInv, SessionInv,
       session, events
  <2> QED BY <2>1, <2>2, <2>3, <2>4, <2>5, <2>6 DEF Recv
<1>6. WireInv'
  <2>1. acked' = acked \/ (acked' = acked \union {job} /\ rpc = "ack")
    BY DEF Recv, RecvTimeout, HeartbeatSent, RecvFailed, RecvHeartbeat,
       RecvError, RecvEof, RecvData, DenySent, AckSent, AckFailed, JobPut,
       RecvExit, wire
  <2> QED BY <1>2, <2>1 DEF TypeInv, WireInv, RecvInv
<1> QED BY <1>1, <1>3, <1>4, <1>5, <1>6 DEF TypeInv

-----------------------------------------------------------------------------
(* A worker moves to state s, holding j. *)
Moves(w, s, j) ==
  /\ wpc' = [wpc EXCEPT ![w] = s]
  /\ wjob' = [wjob EXCEPT ![w] = j]

LEMMA MoveTyped ==
  ASSUME WorkInv, NEW w \in Workers, NEW s \in WorkerStates, NEW j \in Items,
         Moves(w, s, j), j \in Frames <=> s \in Holding
  PROVE  WorkInv'
BY DEF WorkInv, Moves

LEMMA EnqueueResultTyped ==
  ASSUME SendQueueInv, NEW r \in Results \union {None}, Room(sendQ),
         EnqueueResult(r), UNCHANGED item
  PROVE  SendQueueInv'
<1>1. /\ sendQ' \in Seq(Results \union {None})
      /\ Len(sendQ') = Len(sendQ) + 1
      /\ Len(sendQ') <= QueueBound
  BY AppendTyped DEF SendQueueInv, EnqueueResult
<1>2. Len(sendQ) \in Nat
  BY LenProperties DEF SendQueueInv
<1> QED BY <1>1, <1>2 DEF SendQueueInv, SendQueueBalanced, EnqueueResult

LEMMA ResultTyped ==
  ASSUME WorkInv, NEW w \in Workers, wpc[w] \in Holding, NEW ok \in BOOLEAN
  PROVE  /\ wjob[w] \in Frames
         /\ Result(wjob[w], ok) \in Results
         /\ Result(wjob[w], ok) # None
BY NoneAssumption DEF WorkInv, Result, Results

(* The worker gives its job up, by itself or with everything queued. *)
LEMMA JobDoneTyped ==
  ASSUME WorkInv, DecodeQueueInv, NEW w \in Workers, wpc[w] \in Holding,
         JobDone(w)
  PROVE  WorkInv' /\ DecodeQueueInv'
<1> DEFINE s == IF stop THEN "exit" ELSE "get"
<1>1. s \in WorkerStates \ Holding
  BY DEF WorkerStates, Holding
<1>2. WorkInv'
  <2>1. Moves(w, s, None)
    BY DEF JobDone, Moves
  <2> QED BY <1>1, <2>1, MoveTyped, NoneAssumption DEF Items
<1>3. /\ Cardinality(Holders(wpc')) = Cardinality(Holders(wpc)) - 1
      /\ Cardinality(Holders(wpc)) \in Nat
  BY <1>1, HolderRemoved, HoldersFinite DEF WorkInv, JobDone
<1>4. Len(decodeQ) \in Nat
  BY LenProperties DEF DecodeQueueInv
<1> QED BY <1>2, <1>3, <1>4 DEF DecodeQueueInv, JobDone

LEMMA AbortTyped ==
  ASSUME WorkInv, DecodeQueueInv, NEW w \in Workers, wpc[w] \in Holding,
         Abort(w)
  PROVE  WorkInv' /\ DecodeQueueInv' /\ stop' = TRUE
<1>1. "exit" \in WorkerStates \ Holding
  BY DEF WorkerStates, Holding
<1>2. WorkInv'
  <2>1. Moves(w, "exit", None)
    BY DEF Abort, Moves
  <2> QED BY <1>1, <2>1, MoveTyped, NoneAssumption DEF Items
<1>3. /\ Cardinality(Holders(wpc')) = Cardinality(Holders(wpc)) - 1
      /\ Cardinality(Holders(wpc)) \in Nat
  BY <1>1, HolderRemoved, HoldersFinite DEF WorkInv, Abort
<1>4. Len(decodeQ) \in Nat
  BY LenProperties DEF DecodeQueueInv
<1>5. /\ decodeQ' = <<>> /\ Len(<<>>) = 0 /\ <<>> \in Seq(Items)
      /\ decodeUndone' = decodeUndone - Len(decodeQ) - 1
  BY EmptySeq DEF Abort, DrainDecodeQueue
<1>6. DecodeQueueInv'
  BY <1>3, <1>4, <1>5, BoundAssumption DEF DecodeQueueInv
<1> QED BY <1>2, <1>6 DEF Abort

(* The worker waits with its job in hand. *)
LEMMA WaitTyped ==
  ASSUME WorkInv, DecodeQueueInv, NEW w \in Workers, wpc[w] \in Holding,
         NEW s \in Holding, wpc' = [wpc EXCEPT ![w] = s],
         UNCHANGED <<wjob, decodeQVars>>
  PROVE  WorkInv' /\ DecodeQueueInv'
<1>1. s \in WorkerStates
  BY DEF WorkerStates
<1>2. WorkInv'
  BY <1>1 DEF WorkInv
<1>3. Holders(wpc') = Holders(wpc)
  BY <1>1, HolderKept DEF WorkInv
<1> QED BY <1>2, <1>3 DEF DecodeQueueInv, decodeQVars

LEMMA WorkTyped ==
  ASSUME TypeInv, NEW w \in Workers, Work(w)
  PROVE  TypeInv'
<1>1. UNCHANGED <<recvVars, sendVars, mainVars, producerDone, session, wire>>
  BY DEF Work, GetJob, GetNone, NonePut, GetStopped, Decoded, ResultPut,
     DecodeFailed, ErrorPut, events
<1>2. RecvInv' /\ SendInv' /\ MainInv' /\ WireInv'
  BY <1>1 DEF TypeInv, RecvInv, SendInv, MainInv, WireInv, recvVars, sendVars,
     mainVars, wire
<1>3. WorkInv' /\ DecodeQueueInv' /\ SendQueueInv' /\ stop' \in BOOLEAN
  <2> USE DEF TypeInv
  <2>1. UNCHANGED item /\ stop \in BOOLEAN
    BY <1>1 DEF sendVars, SessionInv
  <2>2. ASSUME UNCHANGED sendQVars PROVE SendQueueInv'
    BY <2>1, <2>2 DEF SendQueueInv, SendQueueBalanced, sendQVars
  <2>3. ASSUME UNCHANGED wjob, wpc[w] = "get",
               NEW s \in {"exit", "putNone"}, wpc' = [wpc EXCEPT ![w] = s]
        PROVE  WorkInv' /\ Holders(wpc') = Holders(wpc)
    <3>1. s \in WorkerStates \ Holding /\ wpc[w] \notin Holding
      BY <2>3 DEF WorkerStates, Holding
    <3> QED BY <2>3, <3>1, HolderKept DEF WorkInv
  <2>4. Len(decodeQ) \in Nat
    BY LenProperties DEF DecodeQueueInv
  <2>5. ASSUME decodeQ # <<>>
        PROVE  /\ Tail(decodeQ) \in Seq(Items) /\ Head(decodeQ) \in Items
               /\ Len(Tail(decodeQ)) = Len(decodeQ) - 1
               /\ Len(Tail(decodeQ)) <= QueueBound
    BY <2>5, TailTyped DEF DecodeQueueInv
  <2>6. CASE GetJob(w)
    <3>1. Head(decodeQ) \in Frames
      BY <2>5, <2>6 DEF GetJob, Items
    <3>2. "decode" \in Holding /\ wpc[w] \notin Holding
      BY <2>6 DEF GetJob, Holding
    <3>3. WorkInv'
      BY <2>6, <3>1, <3>2, MoveTyped DEF GetJob, Moves, Items, WorkerStates
    <3>4. /\ Cardinality(Holders(wpc')) = Cardinality(Holders(wpc)) + 1
          /\ Cardinality(Holders(wpc)) \in Nat
      BY <2>6, <3>2, HolderAdded, HoldersFinite DEF GetJob, WorkInv
    <3>5. DecodeQueueInv'
      BY <2>4, <2>5, <2>6, <3>4 DEF GetJob, DecodeQueueInv
    <3> QED BY <2>1, <2>2, <2>6, <3>3, <3>5 DEF GetJob, events
  <2>7. CASE GetNone(w)
    <3>1. WorkInv' /\ Holders(wpc') = Holders(wpc)
      BY <2>3, <2>7 DEF GetNone
    <3>2. DecodeQueueInv'
      BY <2>4, <2>5, <2>7, <3>1, HoldersFinite DEF GetNone, DecodeQueueInv
    <3>3. SendQueueInv'
      BY <2>1, <2>2, <2>7, EnqueueResultTyped DEF GetNone
    <3> QED BY <2>1, <2>7, <3>1, <3>2, <3>3 DEF GetNone, events
  <2>8. CASE NonePut(w)
    <3>1. "exit" \in WorkerStates \ Holding /\ wpc[w] \notin Holding
      BY <2>8 DEF NonePut, WorkerStates, Holding
    <3>2. WorkInv' /\ Holders(wpc') = Holders(wpc)
      BY <2>8, <3>1, HolderKept DEF NonePut, WorkInv
    <3>3. SendQueueInv'
      BY <2>1, <2>8, EnqueueResultTyped DEF NonePut
    <3> QED BY <2>1, <2>8, <3>2, <3>3
            DEF NonePut, DecodeQueueInv, decodeQVars, events
  <2>9. CASE GetStopped(w)
    <3>1. WorkInv' /\ Holders(wpc') = Holders(wpc)
      BY <2>3, <2>9 DEF GetStopped
    <3>2. /\ decodeQ' = <<>> /\ Len(<<>>) = 0 /\ <<>> \in Seq(Items)
          /\ decodeUndone' = decodeUndone - Len(decodeQ) - 0
      BY <2>9, EmptySeq DEF GetStopped, DrainDecodeQueue
    <3>3. DecodeQueueInv'
      BY <2>4, <3>1, <3>2, HoldersFinite, BoundAssumption DEF DecodeQueueInv
    <3> QED BY <2>1, <2>2, <2>9, <3>1, <3>3 DEF GetStopped, events
  <2>10. CASE Decoded(w) \/ DecodeFailed(w)
    <3>1. wpc[w] \in Holding /\ {"put", "putError"} \subseteq Holding
      BY <2>10 DEF Decoded, DecodeFailed, Holding
    <3>2. /\ Result(wjob[w], TRUE) \in Results
          /\ Result(wjob[w], FALSE) \in Results
      BY <3>1, ResultTyped
    <3>3. WorkInv' /\ DecodeQueueInv' /\ stop' \in BOOLEAN
      BY <2>1, <2>10, <3>1, JobDoneTyped, AbortTyped, WaitTyped
         DEF Decoded, DecodeFailed, events
    <3>4. SendQueueInv'
      BY <2>1, <2>2, <2>10, <3>2, EnqueueResultTyped DEF Decoded, DecodeFailed
    <3> QED BY <3>3, <3>4
  <2>11. CASE ResultPut(w) \/ ErrorPut(w)
    <3>1. wpc[w] \in Holding
      BY <2>11 DEF ResultPut, ErrorPut, Holding
    <3>2. /\ Result(wjob[w], TRUE) \in Results
          /\ Result(wjob[w], FALSE) \in Results
      BY <3>1, ResultTyped
    <3>3. WorkInv' /\ DecodeQueueInv' /\ stop' \in BOOLEAN
      BY <2>1, <2>11, <3>1, JobDoneTyped, AbortTyped
         DEF ResultPut, ErrorPut, events
    <3>4. SendQueueInv'
      BY <2>1, <2>2, <2>11, <3>2, EnqueueResultTyped DEF ResultPut, ErrorPut
    <3> QED BY <3>3, <3>4
  <2> QED BY <2>6, <2>7, <2>8, <2>9, <2>10, <2>11 DEF Work
<1>4. SessionInv'
  BY <1>1, <1>3 DEF TypeInv, SessionInv, session
<1> QED BY <1>2, <1>3, <1>4 DEF TypeInv

-----------------------------------------------------------------------------
LEMMA SendTyped == TypeInv /\ Send => TypeInv'
<1> SUFFICES ASSUME TypeInv, Send PROVE TypeInv'
  OBVIOUS
<1>1. UNCHANGED <<recvVars, workVars, mainVars, decodeQVars, producerDone,
                  acked, eofSent>>
  BY DEF Send, GetResult, GetFinished, SendStopped, ReplySent, ReplyFailed,
     events, wire
<1>2. RecvInv' /\ WorkInv' /\ MainInv' /\ DecodeQueueInv'
  BY <1>1 DEF TypeInv, RecvInv, WorkInv, MainInv, DecodeQueueInv, recvVars,
     workVars, mainVars, decodeQVars
<1>3. /\ cp \in Planes /\ lifecycle \in States /\ "FAILED" \in States
      /\ stop \in BOOLEAN /\ producerDone \in BOOLEAN
  BY DEF TypeInv, SessionInv, States
<1>4. /\ sendQ \in Seq(Results \union {None}) /\ Len(sendQ) \in Nat
      /\ Len(sendQ) <= QueueBound
      /\ sendUndone = Len(sendQ) + (IF item # None THEN 1 ELSE 0)
  BY LenProperties DEF TypeInv, SendQueueInv, SendQueueBalanced
<1>5. ASSUME sendQ # <<>>
      PROVE  /\ Tail(sendQ) \in Seq(Results \union {None})
             /\ Head(sendQ) \in Results \union {None}
             /\ Len(Tail(sendQ)) = Len(sendQ) - 1
             /\ Len(Tail(sendQ)) <= QueueBound
  BY <1>4, <1>5, TailTyped
<1>6. ASSUME SendTurn
      PROVE  /\ spc' \in {"get", "done", "raised"}
             /\ cp' \in Planes /\ lifecycle' \in States
  BY <1>3, <1>6, LeaveLoopTyped DEF SendTurn, session
<1>7. CASE GetResult
  <2>1. SendInv'
    BY <1>5, <1>7 DEF GetResult, TypeInv, SendInv
  <2>2. SendQueueInv'
    BY <1>4, <1>5, <1>7
       DEF GetResult, TypeInv, SendInv, SendQueueInv, SendQueueBalanced
  <2>3. cp' \in Planes
    BY <1>3, <1>7, PlaneTyped DEF GetResult
  <2> QED BY <1>2, <1>3, <1>7, <2>1, <2>2, <2>3
          DEF GetResult, TypeInv, SessionInv, WireInv, events, wire
<1>8. CASE GetFinished
  <2>1. /\ spc' \in {"get", "done", "raised"}
        /\ cp' \in Planes /\ lifecycle' \in States
    BY <1>3, <1>6, <1>8, LeaveLoopTyped DEF GetFinished
  <2>2. SendInv'
    <3>1. drained' \in BOOLEAN
      BY <1>3, <1>8 DEF GetFinished, TypeInv, SendInv
    <3>2. item' = None /\ item' \in Results \union {None}
      BY <1>8 DEF GetFinished, TypeInv, SendInv
    <3>3. finished' \in Nat
      BY <1>8 DEF GetFinished, TypeInv, SendInv
    <3> QED BY <2>1, <3>1, <3>2, <3>3 DEF SendInv
  <2>3. SendQueueInv'
    BY <1>4, <1>5, <1>8 DEF GetFinished, SendTaskDone, SendQueueInv,
       SendQueueBalanced
  <2> QED BY <1>2, <1>3, <1>8, <2>1, <2>2, <2>3
          DEF GetFinished, TypeInv, SessionInv, WireInv, events, wire
<1>9. CASE SendStopped
  <2>1. /\ spc' \in {"done", "raised"}
        /\ cp' \in Planes /\ lifecycle' \in States
    BY <1>3, <1>9, LeaveLoopTyped DEF SendStopped
  <2> QED BY <1>2, <1>3, <1>9, <2>1
          DEF SendStopped, TypeInv, SessionInv, WireInv, SendInv,
              SendQueueInv, SendQueueBalanced, events, wire, sendQVars
<1>10. CASE ReplySent \/ ReplyFailed
  <2>1. item \in Results
    BY <1>10 DEF ReplySent, ReplyFailed, TypeInv, SendInv
  <2>2. /\ spc' \in {"get", "done", "raised"}
        /\ cp' \in Planes /\ lifecycle' \in States
    BY <1>3, <1>6, <1>10, LeaveLoopTyped DEF ReplySent, ReplyFailed
  <2>3. SendInv'
    BY <1>10, <2>2 DEF ReplySent, ReplyFailed, TypeInv, SendInv
  <2>4. SendQueueInv'
    <3>1. item # None
      BY <2>1, NoneAssumption DEF Results
    <3>2. sendQ' = sendQ /\ item' = None /\ sendUndone' = sendUndone - 1
      BY <1>10 DEF ReplySent, ReplyFailed, SendTaskDone
    <3> QED BY <1>4, <3>1, <3>2 DEF SendQueueInv, SendQueueBalanced
  <2>5. answered' \subseteq Frames
    BY <1>10, <2>1 DEF ReplySent, ReplyFailed, TypeInv, WireInv, wire, Results
  <2>6. stop' \in BOOLEAN
    BY <1>3, <1>10 DEF ReplySent, ReplyFailed
  <2> QED BY <1>1, <1>2, <1>3, <2>2, <2>3, <2>4, <2>5, <2>6
          DEF TypeInv, SessionInv, WireInv
<1> QED BY <1>7, <1>8, <1>9, <1>10 DEF Send

LEMMA MainTyped == TypeInv /\ Main => TypeInv'
<1> SUFFICES ASSUME TypeInv, Main PROVE TypeInv'
  OBVIOUS
<1>1. UNCHANGED <<recvVars, workVars, sendVars, sendQVars, wire>>
  BY DEF Main, RecvTaskOver, PutSentinel, DecodeJoined, WorkersGathered,
     SendJoined, Closed
<1>2. RecvInv' /\ WorkInv' /\ SendInv' /\ SendQueueInv' /\ WireInv'
  BY <1>1 DEF TypeInv, RecvInv, WorkInv, SendInv, SendQueueInv,
     SendQueueBalanced, WireInv, recvVars, workVars, sendVars, sendQVars, wire
<1>3. /\ cp \in Planes /\ lifecycle \in States /\ "FAILED" \in States
      /\ stop \in BOOLEAN /\ producerDone \in BOOLEAN
  BY DEF TypeInv, SessionInv, States
<1>4. MainInv'
  BY DEF Main, RecvTaskOver, PutSentinel, DecodeJoined, WorkersGathered,
     SendJoined, Closed, TypeInv, MainInv
<1>5. DecodeQueueInv'
  <2>1. UNCHANGED wpc
    BY <1>1 DEF workVars
  <2>2. CASE PutSentinel
    <3>1. /\ decodeQ' \in Seq(Items)
          /\ Len(decodeQ') = Len(decodeQ) + 1
          /\ Len(decodeQ') <= QueueBound
      BY <2>2, AppendTyped DEF PutSentinel, TypeInv, DecodeQueueInv, Items
    <3>2. Len(decodeQ) \in Nat /\ Cardinality(Holders(wpc)) \in Nat
      BY LenProperties, HoldersFinite DEF TypeInv, DecodeQueueInv
    <3> QED BY <2>1, <2>2, <3>1, <3>2
            DEF PutSentinel, TypeInv, DecodeQueueInv
  <2>3. CASE ~PutSentinel
    BY <2>1, <2>3 DEF Main, RecvTaskOver, DecodeJoined, WorkersGathered,
       SendJoined, Closed, TypeInv, DecodeQueueInv, decodeQVars
  <2> QED BY <2>2, <2>3
<1>6. SessionInv'
  <2>1. CASE Closed
    <3>1. OnShutdown(cp) \in Planes
      BY <1>3, PlaneTyped
    <3>2. Transition(lifecycle, "TERMINATED") \in States
      BY <1>3, TransitionTyped DEF States
    <3> QED BY <1>3, <2>1, <3>1, <3>2 DEF Closed, SessionInv, session
  <2>2. CASE ~Closed
    BY <1>3, <2>2 DEF Main, RecvTaskOver, FailAndSignal, PutSentinel,
       DecodeJoined, WorkersGathered, SendJoined, SessionInv, session, events
  <2> QED BY <2>1, <2>2
<1> QED BY <1>2, <1>4, <1>5, <1>6 DEF TypeInv

-----------------------------------------------------------------------------
LEMMA TypeStep == TypeInv /\ [Next]_vars => TypeInv'
<1> SUFFICES ASSUME TypeInv, [Next]_vars PROVE TypeInv'
  OBVIOUS
<1>1. CASE UNCHANGED vars
  BY <1>1 DEF TypeInv, RecvInv, WorkInv, SendInv, MainInv, DecodeQueueInv,
     SendQueueInv, SendQueueBalanced, SessionInv, WireInv, vars, recvVars,
     workVars, sendVars, mainVars, decodeQVars, sendQVars, events, session,
     wire
<1> QED BY <1>1, RecvTyped, WorkTyped, SendTyped, MainTyped DEF Next

LEMMA TypeInvariant == Spec => []TypeInv
BY InitTyped, TypeStep, PTL DEF Spec

LEMMA TypeInvFacts ==
  TypeInv => /\ TypeOK /\ QueuesBounded
             /\ DecodeQueueBalanced /\ SendQueueBalanced
<1> SUFFICES ASSUME TypeInv
             PROVE  /\ TypeOK /\ QueuesBounded
                    /\ DecodeQueueBalanced /\ SendQueueBalanced
  OBVIOUS
<1>1. DecodeQueueBalanced
  BY DEF TypeInv, DecodeQueueInv, DecodeQueueBalanced, Holders
<1>2. QueuesBounded /\ SendQueueBalanced
  BY DEF TypeInv, DecodeQueueInv, SendQueueInv, QueuesBounded
<1>3. decodeUndone \in Nat
  BY LenProperties, HoldersFinite DEF TypeInv, DecodeQueueInv
<1>4. sendUndone \in Nat
  BY LenProperties DEF TypeInv, SendQueueInv, SendQueueBalanced
<1>5. TypeOK
  BY <1>3, <1>4 DEF TypeInv, RecvInv, WorkInv, SendInv, MainInv,
     DecodeQueueInv, SendQueueInv, SessionInv, WireInv, TypeOK, Planes,
     WorkerStates
<1> QED BY <1>1, <1>2, <1>5

(* Every variable keeps its type, whatever the number of workers. *)
THEOREM TypeCorrect == Spec => []TypeOK
BY TypeInvariant, TypeInvFacts, PTL

(* Neither asyncio queue outgrows its maxsize. *)
THEOREM Bounded == Spec => []QueuesBounded
BY TypeInvariant, TypeInvFacts, PTL

(* task_done() matches get() on the decode queue, drained items included,   *)
(* so the count join() waits for is right and never negative.               *)
THEOREM Balanced == Spec => []DecodeQueueBalanced
BY TypeInvariant, TypeInvFacts, PTL

(* The same for the send queue, where the sentinels are counted too. *)
THEOREM SendBalanced == Spec => []SendQueueBalanced
BY TypeInvariant, TypeInvFacts, PTL

-----------------------------------------------------------------------------
(* The server implements FrameService: no acknowledged frame is lost or      *)
(* answered twice, and an orderly end leaves none unanswered.                *)
(* Where a frame can be, as sets of frames. *)
FramesIn(q) == {f \in Frames : \E i \in DOMAIN q : q[i] = f}
ResultsIn(q) ==
  {f \in Frames : \E i \in DOMAIN q : q[i] # None /\ q[i].frame = f}
HeldBy(jobs) == {f \in Frames : \E w \in Workers : jobs[w] = f}
FrameOf(r) == IF r = None THEN {} ELSE {r.frame}

AtReceiver == IF rpc = "put" THEN {job} ELSE {}
AtSender == FrameOf(item)

(* No frame is twice in the same place. *)
DistinctFrames(q) ==
  \A i, k \in DOMAIN q : i # k /\ q[i] = q[k] => q[i] = None
DistinctResults(q) ==
  \A i, k \in DOMAIN q :
    i # k /\ q[i] # None /\ q[k] # None => q[i].frame # q[k].frame
DistinctJobs(jobs) ==
  \A v, w \in Workers : v # w /\ jobs[v] = jobs[w] => jobs[v] = None

DistinctInv ==
  DistinctFrames(decodeQ) /\ DistinctJobs(wjob) /\ DistinctResults(sendQ)

(* No frame is in two places, p the receiver, d the decode queue, h the     *)
(* workers, r the send queue, s the sender and a the answered frames.       *)
Apart(p, d, h, r, s, a) ==
  /\ p \intersect (d \union h \union r \union s \union a) = {}
  /\ d \intersect (h \union r \union s \union a) = {}
  /\ h \intersect (r \union s \union a) = {}
  /\ r \intersect (s \union a) = {}
  /\ s \intersect a = {}

Places(p, d, h, r, s, a) ==
  p \union d \union h \union r \union s \union a

ApartInv ==
  Apart(AtReceiver, FramesIn(decodeQ), HeldBy(wjob), ResultsIn(sendQ),
        AtSender, answered)

AllPlaces ==
  Places(AtReceiver, FramesIn(decodeQ), HeldBy(wjob), ResultsIn(sendQ),
         AtSender, answered)

(* What is somewhere was acknowledged and, without a stop, conversely; the  *)
(* job whose ACK is being sent is new.                                      *)
AckedInv ==
  /\ AllPlaces \subseteq acked
  /\ ~stop => acked \subseteq AllPlaces
  /\ acked \subseteq 1..job
  /\ rpc = "ack" => job \notin acked

(* The sentinels come after every frame: a worker that has left without a   *)
(* stop proves that nothing is queued behind it.                            *)
Over == {"done", "raised"}
NoNone(q) == \A i \in DOMAIN q : q[i] # None
OnlyNones(q) == \A i \in DOMAIN q : q[i] = None
NonesLast(q) == \A i, k \in DOMAIN q : i < k /\ q[i] = None => q[k] = None

PhaseInv ==
  /\ mpc # "recv" => rpc \in Over
  /\ mpc = "recv" => NoNone(decodeQ)
  /\ NonesLast(decodeQ)
  /\ ~stop /\ (\E w \in Workers : wpc[w] \in {"putNone", "exit"})
       => mpc # "recv" /\ OnlyNones(decodeQ)
  /\ drained => spc \in Over /\ rpc \in Over

(* Each worker that has left has one sentinel in send_queue or counted in   *)
(* finished, and the last to leave put its sentinel behind every result.    *)
Nones(q) == {i \in DOMAIN q : q[i] = None}
Exited(pc) == {w \in Workers : pc[w] = "exit"}

CountInv ==
  ~stop =>
    /\ finished + Cardinality(Nones(sendQ)) = Cardinality(Exited(wpc))
    /\ Exited(wpc) = Workers /\ sendQ # <<>> => sendQ[Len(sendQ)] = None

IInv ==
  TypeInv /\ DistinctInv /\ ApartInv /\ AckedInv /\ PhaseInv /\ CountInv

-----------------------------------------------------------------------------
(* The places of frames when a queue grows or loses its head. *)
LEMMA AppendAt ==
  ASSUME NEW S, NEW q \in Seq(S), NEW x \in S
  PROVE  /\ DOMAIN q = 1..Len(q) /\ Len(q) \in Nat
         /\ DOMAIN Append(q, x) = 1..(Len(q) + 1)
         /\ \A i \in 1..Len(q) : Append(q, x)[i] = q[i]
         /\ Append(q, x)[Len(q) + 1] = x
BY AppendProperties, LenProperties

LEMMA TailAt ==
  ASSUME NEW S, NEW q \in Seq(S), q # <<>>
  PROVE  /\ DOMAIN q = 1..Len(q) /\ Len(q) \in Nat \ {0}
         /\ DOMAIN Tail(q) = 1..(Len(q) - 1)
         /\ \A i \in 1..(Len(q) - 1) : Tail(q)[i] = q[i + 1]
         /\ Head(q) = q[1]
         /\ Tail(q) \in Seq(S) /\ Len(Tail(q)) = Len(q) - 1
BY HeadTailProperties, LenProperties, EmptySeq

LEMMA EmptyPlaces ==
  /\ FramesIn(<<>>) = {} /\ DistinctFrames(<<>>)
  /\ ResultsIn(<<>>) = {} /\ DistinctResults(<<>>)
  /\ NoNone(<<>>) /\ OnlyNones(<<>>) /\ NonesLast(<<>>)
<1>1. DOMAIN <<>> = {}
  OBVIOUS
<1> QED BY <1>1 DEF FramesIn, DistinctFrames, ResultsIn, DistinctResults,
                    NoNone, OnlyNones, NonesLast

LEMMA FramesAppended ==
  ASSUME NEW q \in Seq(Items), NEW x \in Items, DistinctFrames(q),
         x \notin FramesIn(q)
  PROVE  /\ FramesIn(Append(q, x)) = FramesIn(q) \union ({x} \intersect Frames)
         /\ DistinctFrames(Append(q, x))
<1>1. /\ DOMAIN q = 1..Len(q) /\ Len(q) \in Nat
      /\ DOMAIN Append(q, x) = 1..(Len(q) + 1)
      /\ \A i \in 1..Len(q) : Append(q, x)[i] = q[i]
      /\ Append(q, x)[Len(q) + 1] = x
  BY AppendAt
<1>2. FramesIn(Append(q, x)) = FramesIn(q) \union ({x} \intersect Frames)
  BY <1>1 DEF FramesIn
<1>3. \A i \in 1..Len(q) : q[i] = x => x = None
  BY <1>1 DEF FramesIn, Items
<1>4. DistinctFrames(Append(q, x))
  BY <1>1, <1>3 DEF DistinctFrames
<1> QED BY <1>2, <1>4

LEMMA FramesTail ==
  ASSUME NEW q \in Seq(Items), q # <<>>, DistinctFrames(q)
  PROVE  /\ FramesIn(Tail(q)) = FramesIn(q) \ {Head(q)}
         /\ DistinctFrames(Tail(q))
         /\ Head(q) # None => Head(q) \in FramesIn(q)
<1>1. /\ DOMAIN q = 1..Len(q) /\ Len(q) \in Nat \ {0}
      /\ DOMAIN Tail(q) = 1..(Len(q) - 1)
      /\ \A i \in 1..(Len(q) - 1) : Tail(q)[i] = q[i + 1]
      /\ Head(q) = q[1]
  BY TailAt
<1>2. \A i \in 2..Len(q) : i - 1 \in DOMAIN Tail(q) /\ Tail(q)[i - 1] = q[i]
  BY <1>1
<1>3. \A i \in 2..Len(q) : q[i] = q[1] => q[i] \notin Frames
  BY <1>1, NoneAssumption DEF DistinctFrames
<1>4. FramesIn(Tail(q)) = FramesIn(q) \ {Head(q)}
  <2>1. ASSUME NEW f \in FramesIn(Tail(q)) PROVE f \in FramesIn(q) \ {Head(q)}
    <3>1. PICK i \in 1..(Len(q) - 1) : q[i + 1] = f
      BY <1>1, <2>1 DEF FramesIn
    <3>2. i + 1 \in 2..Len(q)
      BY <1>1, <3>1
    <3> QED BY <1>1, <1>3, <2>1, <3>1, <3>2 DEF FramesIn
  <2>2. ASSUME NEW f \in FramesIn(q) \ {Head(q)} PROVE f \in FramesIn(Tail(q))
    <3>1. PICK i \in 1..Len(q) : q[i] = f
      BY <1>1, <2>2 DEF FramesIn
    <3>2. i \in 2..Len(q)
      BY <1>1, <2>2, <3>1
    <3> QED BY <1>2, <2>2, <3>1, <3>2 DEF FramesIn
  <2> QED BY <2>1, <2>2
<1>5. DistinctFrames(Tail(q))
  BY <1>1 DEF DistinctFrames
<1>6. Head(q) \in Items
  BY HeadTailProperties
<1> QED BY <1>1, <1>4, <1>5, <1>6 DEF FramesIn, Items

LEMMA ResultsAppended ==
  ASSUME NEW q \in Seq(Results \union {None}), NEW r \in Results \union {None},
         DistinctResults(q), FrameOf(r) \intersect ResultsIn(q) = {}
  PROVE  /\ ResultsIn(Append(q, r)) = ResultsIn(q) \union FrameOf(r)
         /\ DistinctResults(Append(q, r))
<1>1. /\ DOMAIN q = 1..Len(q) /\ Len(q) \in Nat
      /\ DOMAIN Append(q, r) = 1..(Len(q) + 1)
      /\ \A i \in 1..Len(q) : Append(q, r)[i] = q[i]
      /\ Append(q, r)[Len(q) + 1] = r
  BY AppendAt
<1>2. r # None => r.frame \in Frames
  BY DEF Results
<1>3. ResultsIn(Append(q, r)) = ResultsIn(q) \union FrameOf(r)
  BY <1>1, <1>2 DEF ResultsIn, FrameOf
<1>4. \A i \in 1..Len(q) : q[i] # None /\ r # None => q[i].frame # r.frame
  BY <1>1, <1>2 DEF ResultsIn, FrameOf
<1>5. DistinctResults(Append(q, r))
  BY <1>1, <1>4 DEF DistinctResults
<1> QED BY <1>3, <1>5

LEMMA ResultsTail ==
  ASSUME NEW q \in Seq(Results \union {None}), q # <<>>, DistinctResults(q)
  PROVE  /\ ResultsIn(Tail(q)) = ResultsIn(q) \ FrameOf(Head(q))
         /\ DistinctResults(Tail(q))
         /\ FrameOf(Head(q)) \subseteq ResultsIn(q)
<1>1. /\ DOMAIN q = 1..Len(q) /\ Len(q) \in Nat \ {0}
      /\ DOMAIN Tail(q) = 1..(Len(q) - 1)
      /\ \A i \in 1..(Len(q) - 1) : Tail(q)[i] = q[i + 1]
      /\ Head(q) = q[1]
  BY TailAt
<1>2. \A i \in 2..Len(q) : i - 1 \in DOMAIN Tail(q) /\ Tail(q)[i - 1] = q[i]
  BY <1>1
<1>3. \A i \in 2..Len(q) : q[i] # None => q[i].frame \notin FrameOf(q[1])
  BY <1>1 DEF DistinctResults, FrameOf
<1>4. ResultsIn(Tail(q)) = ResultsIn(q) \ FrameOf(Head(q))
  <2>1. ASSUME NEW f \in ResultsIn(Tail(q))
        PROVE  f \in ResultsIn(q) \ FrameOf(Head(q))
    <3>1. PICK i \in 1..(Len(q) - 1) : q[i + 1] # None /\ q[i + 1].frame = f
      BY <1>1, <2>1 DEF ResultsIn
    <3>2. i + 1 \in 2..Len(q)
      BY <1>1, <3>1
    <3> QED BY <1>1, <1>3, <2>1, <3>1, <3>2 DEF ResultsIn
  <2>2. ASSUME NEW f \in ResultsIn(q) \ FrameOf(Head(q))
        PROVE  f \in ResultsIn(Tail(q))
    <3>1. PICK i \in 1..Len(q) : q[i] # None /\ q[i].frame = f
      BY <1>1, <2>2 DEF ResultsIn
    <3>2. i \in 2..Len(q)
      BY <1>1, <2>2, <3>1 DEF FrameOf
    <3> QED BY <1>2, <2>2, <3>1, <3>2 DEF ResultsIn
  <2> QED BY <2>1, <2>2
<1>5. DistinctResults(Tail(q))
  BY <1>1 DEF DistinctResults
<1>6. Head(q) # None => Head(q).frame \in Frames
  BY HeadTailProperties DEF Results
<1> QED BY <1>1, <1>4, <1>5, <1>6 DEF ResultsIn, FrameOf

(* A worker takes a frame nobody holds, or gives its own up. *)
LEMMA JobTaken ==
  ASSUME NEW jobs \in [Workers -> Items], NEW w \in Workers, NEW f \in Frames,
         jobs[w] = None, f \notin HeldBy(jobs), DistinctJobs(jobs)
  PROVE  /\ HeldBy([jobs EXCEPT ![w] = f]) = HeldBy(jobs) \union {f}
         /\ DistinctJobs([jobs EXCEPT ![w] = f])
<1>1. HeldBy([jobs EXCEPT ![w] = f]) = HeldBy(jobs) \union {f}
  BY NoneAssumption DEF HeldBy
<1>2. \A v \in Workers : jobs[v] # f
  BY DEF HeldBy
<1> QED BY <1>1, <1>2 DEF DistinctJobs

LEMMA JobGivenUp ==
  ASSUME NEW jobs \in [Workers -> Items], NEW w \in Workers,
         jobs[w] \in Frames, DistinctJobs(jobs)
  PROVE  /\ HeldBy([jobs EXCEPT ![w] = None]) = HeldBy(jobs) \ {jobs[w]}
         /\ DistinctJobs([jobs EXCEPT ![w] = None])
         /\ jobs[w] \in HeldBy(jobs)
BY NoneAssumption DEF HeldBy, DistinctJobs

-----------------------------------------------------------------------------
(* The sentinels of a queue when it grows or loses its head. *)
LEMMA NonesAppended ==
  ASSUME NEW S, NEW q \in Seq(S), NEW x \in S
  PROVE  /\ NoNone(q) /\ x # None => NoNone(Append(q, x))
         /\ NoNone(q) => NonesLast(Append(q, x))
         /\ NonesLast(q) /\ x = None => NonesLast(Append(q, x))
         /\ OnlyNones(q) /\ x = None => OnlyNones(Append(q, x))
<1>1. /\ DOMAIN q = 1..Len(q) /\ Len(q) \in Nat
      /\ DOMAIN Append(q, x) = 1..(Len(q) + 1)
      /\ \A i \in 1..Len(q) : Append(q, x)[i] = q[i]
      /\ Append(q, x)[Len(q) + 1] = x
  BY AppendAt
<1> QED BY <1>1 DEF NoNone, NonesLast, OnlyNones

LEMMA NonesTail ==
  ASSUME NEW S, NEW q \in Seq(S), q # <<>>
  PROVE  /\ NoNone(q) => NoNone(Tail(q))
         /\ NonesLast(q) => NonesLast(Tail(q))
         /\ OnlyNones(q) => OnlyNones(Tail(q)) /\ Head(q) = None
         /\ NonesLast(q) /\ Head(q) = None => OnlyNones(q)
         /\ NoNone(q) => Head(q) # None
<1>1. /\ DOMAIN q = 1..Len(q) /\ Len(q) \in Nat \ {0}
      /\ DOMAIN Tail(q) = 1..(Len(q) - 1)
      /\ \A i \in 1..(Len(q) - 1) : Tail(q)[i] = q[i + 1]
      /\ Head(q) = q[1]
  BY TailAt
<1> QED BY <1>1 DEF NoNone, NonesLast, OnlyNones

LEMMA NonesFinite ==
  ASSUME NEW S, NEW q \in Seq(S)
  PROVE  IsFiniteSet(Nones(q)) /\ Cardinality(Nones(q)) \in Nat
<1>1. Nones(q) \in SUBSET (1..Len(q)) /\ Len(q) \in Nat
  BY LenProperties DEF Nones
<1>2. IsFiniteSet(1..Len(q))
  BY <1>1, FS_Interval
<1> QED BY <1>1, <1>2, FS_Subset, FS_CardinalityType

LEMMA NonesAppendedCount ==
  ASSUME NEW S, NEW q \in Seq(S), NEW x \in S
  PROVE  Cardinality(Nones(Append(q, x)))
           = Cardinality(Nones(q)) + (IF x = None THEN 1 ELSE 0)
<1>1. /\ DOMAIN q = 1..Len(q) /\ Len(q) \in Nat
      /\ DOMAIN Append(q, x) = 1..(Len(q) + 1)
      /\ \A i \in 1..Len(q) : Append(q, x)[i] = q[i]
      /\ Append(q, x)[Len(q) + 1] = x
  BY AppendAt
<1>2. CASE x = None
  <2>1. Nones(Append(q, x)) = Nones(q) \union {Len(q) + 1}
    BY <1>1, <1>2 DEF Nones
  <2>2. Len(q) + 1 \notin Nones(q)
    BY <1>1 DEF Nones
  <2> QED BY <1>2, <2>1, <2>2, NonesFinite, FS_AddElement
<1>3. CASE x # None
  <2>1. Nones(Append(q, x)) = Nones(q)
    BY <1>1, <1>3 DEF Nones
  <2> QED BY <1>3, <2>1, NonesFinite
<1> QED BY <1>2, <1>3

LEMMA NonesTailCount ==
  ASSUME NEW S, NEW q \in Seq(S), q # <<>>
  PROVE  Cardinality(Nones(Tail(q)))
           = Cardinality(Nones(q)) - (IF Head(q) = None THEN 1 ELSE 0)
<1>1. /\ DOMAIN q = 1..Len(q) /\ Len(q) \in Nat \ {0}
      /\ DOMAIN Tail(q) = 1..(Len(q) - 1)
      /\ \A i \in 1..(Len(q) - 1) : Tail(q)[i] = q[i + 1]
      /\ Head(q) = q[1]
      /\ Tail(q) \in Seq(S)
  BY TailAt
<1> DEFINE rest == Nones(q) \ {1}
           shift == [i \in Nones(Tail(q)) |-> i + 1]
<1>2. shift \in Bijection(Nones(Tail(q)), rest)
  <2>1. \A i \in Nones(Tail(q)) : i \in Nat /\ i + 1 \in rest
    BY <1>1 DEF Nones
  <2>2. \A k \in rest : k - 1 \in Nones(Tail(q)) /\ shift[k - 1] = k
    BY <1>1 DEF Nones
  <2>3. shift \in [Nones(Tail(q)) -> rest]
    BY <2>1
  <2>4. \A i, k \in Nones(Tail(q)) : shift[i] = shift[k] => i = k
    BY <2>1
  <2>5. shift \in Injection(Nones(Tail(q)), rest)
    BY <2>3, <2>4, Fun_IsInj
  <2>6. shift \in Surjection(Nones(Tail(q)), rest)
    BY <2>2, <2>3, Fun_IsSurj
  <2> QED BY <2>5, <2>6, Fun_IsBij
<1>3. Cardinality(rest) = Cardinality(Nones(Tail(q)))
  <2>1. ExistsBijection(Nones(Tail(q)), rest)
    BY <1>2 DEF ExistsBijection
  <2> QED BY <1>1, <2>1, NonesFinite, FS_Bijection
<1>4. 1 \in Nones(q) <=> Head(q) = None
  BY <1>1 DEF Nones
<1>5. IsFiniteSet(Nones(q)) /\ Cardinality(Nones(q)) \in Nat
  BY NonesFinite
<1>6. Cardinality(rest) = IF 1 \in Nones(q) THEN Cardinality(Nones(q)) - 1
                                           ELSE Cardinality(Nones(q))
  BY <1>5, FS_RemoveElement
<1> HIDE DEF rest
<1> QED BY <1>3, <1>4, <1>5, <1>6

(* The workers that have left. *)
LEMMA ExitedFinite ==
  ASSUME NEW pc
  PROVE  /\ IsFiniteSet(Exited(pc)) /\ Cardinality(Exited(pc)) \in Nat
         /\ Cardinality(Exited(pc)) <= Cardinality(Workers)
         /\ Cardinality(Exited(pc)) = Cardinality(Workers)
              => Exited(pc) = Workers
<1>1. Exited(pc) \in SUBSET Workers
  BY DEF Exited
<1> QED BY <1>1, WorkersAssumption, FS_Subset, FS_CardinalityType

LEMMA ExitedMore ==
  ASSUME NEW pc \in [Workers -> WorkerStates], NEW w \in Workers,
         pc[w] # "exit"
  PROVE  Cardinality(Exited([pc EXCEPT ![w] = "exit"]))
           = Cardinality(Exited(pc)) + 1
<1>1. Exited([pc EXCEPT ![w] = "exit"]) = Exited(pc) \union {w}
  BY DEF Exited
<1>2. w \notin Exited(pc)
  BY DEF Exited
<1> QED BY <1>1, <1>2, ExitedFinite, FS_AddElement

LEMMA ExitedSame ==
  ASSUME NEW pc \in [Workers -> WorkerStates], NEW w \in Workers,
         NEW s \in WorkerStates \ {"exit"}, pc[w] # "exit"
  PROVE  /\ Exited([pc EXCEPT ![w] = s]) = Exited(pc)
         /\ Exited([pc EXCEPT ![w] = s]) # Workers
BY DEF Exited

-----------------------------------------------------------------------------
LEMMA InitService == Init => IInv
<1> SUFFICES ASSUME Init PROVE IInv
  OBVIOUS
<1>1. TypeInv
  BY InitTyped
<1>2. DistinctInv /\ FramesIn(decodeQ) = {} /\ ResultsIn(sendQ) = {}
  BY EmptyPlaces DEF Init, DistinctInv, DistinctJobs
<1>3. HeldBy(wjob) = {} /\ AtReceiver = {} /\ AtSender = {}
  BY NoneAssumption DEF Init, HeldBy, AtReceiver, AtSender, FrameOf
<1>4. ApartInv /\ AckedInv
  BY <1>2, <1>3
     DEF Init, ApartInv, Apart, AckedInv, AllPlaces, Places
<1>5. PhaseInv
  BY EmptyPlaces DEF Init, PhaseInv
<1>6. CountInv
  <2>1. Nones(sendQ) = {} /\ Exited(wpc) = {}
    BY DEF Init, Nones, Exited
  <2>2. Cardinality(Nones(sendQ)) = 0 /\ Cardinality(Exited(wpc)) = 0
    BY <2>1, FS_EmptySet
  <2> QED BY <2>2 DEF Init, CountInv
<1> QED BY <1>1, <1>2, <1>4, <1>5, <1>6 DEF IInv

LEMMA RecvService ==
  ASSUME IInv, TypeInv', Recv
  PROVE  IInv'
<1>1. UNCHANGED <<workVars, sendVars, mainVars, sendQVars, answered>>
  BY DEF Recv, RecvTimeout, HeartbeatSent, RecvFailed, RecvHeartbeat,
     RecvError, RecvEof, RecvData, DenySent, AckSent, AckFailed, JobPut,
     RecvExit, wire
<1>2. UNCHANGED <<HeldBy(wjob), ResultsIn(sendQ), AtSender, answered>>
  BY <1>1 DEF workVars, sendQVars, sendVars, AtSender
<1>3. ~stop' => ~stop
  BY DEF Recv, RecvTimeout, HeartbeatSent, RecvFailed, RecvHeartbeat,
     RecvError, RecvEof, RecvData, DenySent, AckSent, AckFailed, JobPut,
     RecvExit, FailAndSignal, events
<1>4. rpc \notin Over
  BY DEF Recv, RecvTimeout, HeartbeatSent, RecvFailed, RecvHeartbeat,
     RecvError, RecvEof, RecvData, DenySent, AckSent, AckFailed, JobPut,
     RecvExit, Over
<1>5. mpc = "recv" /\ mpc' = "recv" /\ NoNone(decodeQ) /\ ~drained
  BY <1>1, <1>4 DEF IInv, PhaseInv, mainVars
<1>6. decodeQ \in Seq(Items) /\ job \in 0..MaxFrame /\ MaxFrame \in Nat
  BY BoundAssumption DEF IInv, TypeInv, DecodeQueueInv, RecvInv
<1>7. /\ DistinctFrames(decodeQ) /\ ApartInv /\ AckedInv
  BY DEF IInv, DistinctInv
<1>8. ASSUME AckSent \/ JobPut
      PROVE  DistinctFrames(decodeQ') /\ NoNone(decodeQ')
             /\ ApartInv' /\ AckedInv'
  <2>1. job \in Frames /\ job \in Items /\ job # None
    BY <1>8, NoneAssumption DEF AckSent, JobPut, IInv, TypeInv, RecvInv, Items
  <2>2. AtReceiver = IF rpc = "put" THEN {job} ELSE {}
    BY DEF AtReceiver
  <2>3. job \notin FramesIn(decodeQ)
    BY <1>7, <1>8, <2>2 DEF AckSent, JobPut, ApartInv, Apart, AckedInv,
       AllPlaces, Places
  <2>4. ASSUME EnqueueJob
        PROVE  /\ FramesIn(decodeQ') = FramesIn(decodeQ) \union {job}
               /\ DistinctFrames(decodeQ') /\ NoNone(decodeQ')
    BY <1>5, <1>6, <1>7, <2>1, <2>3, <2>4, FramesAppended, NonesAppended
       DEF EnqueueJob
  <2>5. DistinctFrames(decodeQ') /\ NoNone(decodeQ')
    BY <1>5, <1>7, <1>8, <2>4 DEF AckSent, JobPut, decodeQVars
  <2>6. ApartInv' /\ AckedInv'
    <3>1. CASE AckSent /\ EnqueueJob
      <4>1. /\ AtReceiver = {} /\ AtReceiver' = {} /\ job' = job
            /\ acked' = acked \union {job} /\ rpc' = "recv"
            /\ job \notin acked
        <5>1. rpc = "ack" /\ acked' = acked \union {job} /\ job' = job
          BY <3>1 DEF AckSent
        <5>2. rpc' = "recv"
          <6>1. Len(decodeQ') # Len(decodeQ)
            BY <1>6, <2>1, <3>1, AppendProperties, LenProperties
               DEF EnqueueJob
          <6> QED BY <3>1, <6>1 DEF AckSent, decodeQVars
        <5> QED BY <1>7, <5>1, <5>2 DEF AtReceiver, AckedInv
      <4> QED BY <1>2, <1>3, <1>6, <1>7, <2>1, <2>4, <3>1, <4>1
              DEF ApartInv, Apart, AckedInv, AllPlaces, Places, Frames
    <3>2. CASE AckSent /\ UNCHANGED decodeQVars
      <4>1. /\ AtReceiver = {} /\ job' = job
            /\ acked' = acked \union {job} /\ rpc' # "ack"
            /\ job \notin acked
            /\ AtReceiver' = {} \/ AtReceiver' = {job}
            /\ stop \/ AtReceiver' = {job}
            /\ stop' = stop
        <5>1. Len(Append(decodeQ, job)) # Len(decodeQ)
          BY <1>6, <2>1, AppendProperties, LenProperties
        <5> QED BY <1>7, <3>2, <5>1
                DEF AckSent, EnqueueJob, decodeQVars, AtReceiver, AckedInv,
                    events
      <4>2. FramesIn(decodeQ') = FramesIn(decodeQ)
        BY <3>2 DEF decodeQVars
      <4> QED BY <1>2, <1>6, <1>7, <2>1, <4>1, <4>2
              DEF ApartInv, Apart, AckedInv, AllPlaces, Places, Frames
    <3>3. CASE JobPut /\ EnqueueJob
      <4>1. /\ AtReceiver = {job} /\ AtReceiver' = {} /\ job' = job
            /\ acked' = acked /\ rpc' # "ack"
        BY <3>3 DEF JobPut, NextTurn, AtReceiver, wire
      <4> QED BY <1>2, <1>3, <1>6, <1>7, <2>1, <2>4, <3>3, <4>1
              DEF ApartInv, Apart, AckedInv, AllPlaces, Places
    <3>4. CASE JobPut /\ UNCHANGED decodeQVars
      <4>1. /\ AtReceiver = {job} /\ AtReceiver' = {} /\ job' = job
            /\ acked' = acked /\ rpc' # "ack" /\ stop /\ stop'
        <5>1. Len(Append(decodeQ, job)) # Len(decodeQ)
          BY <1>6, <2>1, AppendProperties, LenProperties
        <5> QED BY <3>4, <5>1 DEF JobPut, EnqueueJob, NextTurn, decodeQVars,
                AtReceiver, wire, events
      <4>2. FramesIn(decodeQ') = FramesIn(decodeQ)
        BY <3>4 DEF decodeQVars
      <4> QED BY <1>2, <1>7, <4>1, <4>2
              DEF ApartInv, Apart, AckedInv, AllPlaces, Places
    <3> QED BY <1>8, <3>1, <3>2, <3>3, <3>4 DEF AckSent, JobPut
  <2> QED BY <2>5, <2>6
<1>9. ASSUME ~AckSent /\ ~JobPut
      PROVE  DistinctFrames(decodeQ') /\ NoNone(decodeQ')
             /\ ApartInv' /\ AckedInv'
  <2>1. UNCHANGED decodeQ /\ UNCHANGED acked
    BY <1>9 DEF Recv, RecvTimeout, HeartbeatSent, RecvFailed, RecvHeartbeat,
       RecvError, RecvEof, RecvData, DenySent, AckFailed, RecvExit,
       decodeQVars, wire
  <2>2. AtReceiver = {} /\ AtReceiver' = {}
    BY <1>9 DEF Recv, RecvTimeout, HeartbeatSent, RecvFailed, RecvHeartbeat,
       RecvError, RecvEof, RecvData, DenySent, AckFailed, RecvExit,
       NextTurn, AtReceiver
  <2>3. \/ job' = job /\ rpc' # "ack"
        \/ job' = job + 1
    BY <1>9 DEF Recv, RecvTimeout, HeartbeatSent, RecvFailed, RecvHeartbeat,
       RecvError, RecvEof, RecvData, DenySent, AckFailed, RecvExit, NextTurn
  <2>4. acked' \subseteq 1..job' /\ (rpc' = "ack" => job' \notin acked')
    BY <1>6, <1>7, <2>1, <2>3 DEF AckedInv
  <2>5. ApartInv' /\ AckedInv'
    BY <1>2, <1>3, <1>7, <2>1, <2>2, <2>4
       DEF ApartInv, Apart, AckedInv, AllPlaces, Places
  <2> QED BY <1>5, <1>7, <2>1, <2>5
<1>10. DistinctInv' /\ ApartInv' /\ AckedInv' /\ NoNone(decodeQ')
  BY <1>1, <1>8, <1>9 DEF IInv, DistinctInv, workVars, sendQVars
<1>11. PhaseInv'
  <2>1. \A w \in Workers : ~stop => wpc[w] \notin {"putNone", "exit"}
    BY <1>5 DEF IInv, PhaseInv
  <2>2. NonesLast(decodeQ')
    BY <1>10 DEF NoNone, NonesLast
  <2> QED BY <1>1, <1>3, <1>5, <1>10, <2>1, <2>2
          DEF PhaseInv, workVars, sendVars
<1>12. CountInv'
  BY <1>1, <1>3 DEF IInv, CountInv, workVars, sendQVars, sendVars
<1> QED BY <1>10, <1>11, <1>12 DEF IInv

-----------------------------------------------------------------------------
(* A result enters the send queue, from a worker that held its frame. *)
LEMMA ResultEntered ==
  ASSUME IInv, NEW w \in Workers, wpc[w] \in Holding, NEW ok \in BOOLEAN,
         EnqueueResult(Result(wjob[w], ok))
  PROVE  /\ ResultsIn(sendQ') = ResultsIn(sendQ) \union {wjob[w]}
         /\ DistinctResults(sendQ')
         /\ Cardinality(Nones(sendQ')) = Cardinality(Nones(sendQ))
<1>1. /\ wjob[w] \in Frames /\ Result(wjob[w], ok) \in Results
      /\ Result(wjob[w], ok) # None
  BY ResultTyped DEF IInv, TypeInv
<1>2. FrameOf(Result(wjob[w], ok)) = {wjob[w]}
  BY <1>1 DEF FrameOf, Result
<1>3. wjob[w] \notin ResultsIn(sendQ)
  <2>1. wjob[w] \in HeldBy(wjob)
    BY <1>1 DEF HeldBy
  <2> QED BY <2>1 DEF IInv, ApartInv, Apart
<1>4. sendQ \in Seq(Results \union {None}) /\ DistinctResults(sendQ)
  BY DEF IInv, TypeInv, SendQueueInv, DistinctInv
<1>5. sendQ' = Append(sendQ, Result(wjob[w], ok))
  BY DEF EnqueueResult
<1>6. Cardinality(Nones(sendQ')) = Cardinality(Nones(sendQ)) + 0
  BY <1>1, <1>4, <1>5, NonesAppendedCount
<1>7. Cardinality(Nones(sendQ)) \in Nat
  BY <1>4, NonesFinite
<1> QED BY <1>1, <1>2, <1>3, <1>4, <1>5, <1>6, <1>7, ResultsAppended

(* A sentinel enters the send queue. *)
LEMMA SentinelEntered ==
  ASSUME IInv, EnqueueResult(None)
  PROVE  /\ ResultsIn(sendQ') = ResultsIn(sendQ)
         /\ DistinctResults(sendQ')
         /\ Cardinality(Nones(sendQ')) = Cardinality(Nones(sendQ)) + 1
         /\ sendQ'[Len(sendQ')] = None
<1>1. sendQ \in Seq(Results \union {None}) /\ DistinctResults(sendQ)
  BY DEF IInv, TypeInv, SendQueueInv, DistinctInv
<1>2. sendQ' = Append(sendQ, None) /\ FrameOf(None) = {}
  BY DEF EnqueueResult, FrameOf
<1>3. sendQ'[Len(sendQ')] = None
  BY <1>1, <1>2, AppendProperties, LenProperties
<1> QED BY <1>1, <1>2, <1>3, ResultsAppended, NonesAppendedCount

(* The places of frames after a step of a worker. *)
LEMMA WorkPlaces ==
  ASSUME IInv, NEW w \in Workers, Work(w)
  PROVE  DistinctInv' /\ ApartInv' /\ AckedInv'
<1>1. UNCHANGED <<recvVars, sendVars, mainVars, producerDone, session, wire>>
  BY DEF Work, GetJob, GetNone, NonePut, GetStopped, Decoded, ResultPut,
     DecodeFailed, ErrorPut, events
<1>2. UNCHANGED <<AtReceiver, AtSender, answered, acked, job, rpc>>
  BY <1>1 DEF recvVars, sendVars, wire, AtReceiver, AtSender
<1>3. /\ decodeQ \in Seq(Items) /\ wjob \in [Workers -> Items]
      /\ DistinctFrames(decodeQ) /\ DistinctJobs(wjob)
      /\ DistinctResults(sendQ) /\ ApartInv /\ AckedInv
  BY DEF IInv, TypeInv, DecodeQueueInv, WorkInv, DistinctInv
<1>4. ASSUME decodeQ # <<>>
      PROVE  /\ FramesIn(Tail(decodeQ)) = FramesIn(decodeQ) \ {Head(decodeQ)}
             /\ DistinctFrames(Tail(decodeQ))
             /\ Head(decodeQ) # None => Head(decodeQ) \in FramesIn(decodeQ)
  BY <1>3, <1>4, FramesTail
<1>5. ASSUME wpc[w] \in Holding, wjob' = [wjob EXCEPT ![w] = None]
      PROVE  /\ HeldBy(wjob') = HeldBy(wjob) \ {wjob[w]}
             /\ DistinctJobs(wjob') /\ wjob[w] \in HeldBy(wjob)
  <2>1. wjob[w] \in Frames
    BY <1>5 DEF IInv, TypeInv, WorkInv
  <2> QED BY <1>3, <1>5, <2>1, JobGivenUp
<1>6. CASE GetJob(w)
  <2>1. /\ decodeQ # <<>> /\ Head(decodeQ) # None
        /\ decodeQ' = Tail(decodeQ)
        /\ wjob' = [wjob EXCEPT ![w] = Head(decodeQ)]
        /\ sendQ' = sendQ /\ stop' = stop
    BY <1>6 DEF GetJob, sendQVars, events
  <2>2. wjob[w] = None
    BY <1>6 DEF GetJob, Holding, IInv, TypeInv, WorkInv, Items
  <2>3. Head(decodeQ) \in FramesIn(decodeQ) /\ Head(decodeQ) \in Frames
    BY <1>4, <2>1 DEF FramesIn
  <2>4. Head(decodeQ) \notin HeldBy(wjob)
    BY <1>3, <2>3 DEF ApartInv, Apart
  <2>5. /\ HeldBy(wjob') = HeldBy(wjob) \union {Head(decodeQ)}
        /\ DistinctJobs(wjob')
    BY <1>3, <2>1, <2>2, <2>3, <2>4, JobTaken
  <2>6. FramesIn(decodeQ') = FramesIn(decodeQ) \ {Head(decodeQ)}
    BY <1>4, <2>1
  <2>7. ApartInv'
    <3>1. ASSUME NEW p, NEW d, NEW h, NEW r, NEW s, NEW a,
                 Apart(p, d, h, r, s, a), NEW f \in d
          PROVE  Apart(p, d \ {f}, h \union {f}, r, s, a)
      BY <3>1 DEF Apart
    <3>2. Apart(AtReceiver, FramesIn(decodeQ'), HeldBy(wjob'),
                ResultsIn(sendQ), AtSender, answered)
      BY <1>3, <2>3, <2>5, <2>6, <3>1 DEF ApartInv
    <3> QED BY <1>2, <2>1, <3>2 DEF ApartInv
  <2>8. AllPlaces' = AllPlaces
    BY <1>2, <2>1, <2>3, <2>5, <2>6 DEF AllPlaces, Places
  <2> QED BY <1>2, <1>3, <1>4, <2>1, <2>5, <2>7, <2>8
          DEF DistinctInv, AckedInv
<1>7. CASE GetNone(w) \/ NonePut(w)
  <2>1. wjob' = wjob /\ stop' = stop
    BY <1>7 DEF GetNone, NonePut, events
  <2>2. None \notin FramesIn(decodeQ)
    BY NoneAssumption DEF FramesIn
  <2>3. FramesIn(decodeQ') = FramesIn(decodeQ) /\ DistinctFrames(decodeQ')
    BY <1>3, <1>4, <1>7, <2>2 DEF GetNone, NonePut, decodeQVars
  <2>4. ResultsIn(sendQ') = ResultsIn(sendQ) /\ DistinctResults(sendQ')
    BY <1>3, <1>7, SentinelEntered DEF GetNone, NonePut, sendQVars
  <2> QED BY <1>2, <1>3, <2>1, <2>3, <2>4
          DEF DistinctInv, ApartInv, AckedInv, AllPlaces
<1>8. CASE GetStopped(w)
  <2>1. /\ wjob' = wjob /\ sendQ' = sendQ /\ stop' = TRUE
        /\ decodeQ' = <<>>
    BY <1>8 DEF GetStopped, DrainDecodeQueue, sendQVars, events, IInv, TypeInv,
       SessionInv
  <2>2. FramesIn(decodeQ') = {} /\ DistinctFrames(decodeQ')
    BY <2>1, EmptyPlaces
  <2> QED BY <1>2, <1>3, <2>1, <2>2
          DEF DistinctInv, ApartInv, Apart, AckedInv, AllPlaces, Places
<1>9. CASE wjob' = wjob /\ UNCHANGED <<decodeQVars, sendQVars>>
           /\ UNCHANGED stop
  BY <1>2, <1>3, <1>9 DEF DistinctInv, ApartInv, AckedInv, AllPlaces,
     decodeQVars, sendQVars
<1>10. ASSUME wpc[w] \in Holding, JobDone(w) \/ Abort(w),
              \/ \E ok \in BOOLEAN : EnqueueResult(Result(wjob[w], ok))
              \/ stop' /\ UNCHANGED sendQVars,
              Abort(w) => stop', ~stop' => ~stop
       PROVE  DistinctInv' /\ ApartInv' /\ AckedInv'
  <2>1. /\ HeldBy(wjob') = HeldBy(wjob) \ {wjob[w]}
        /\ DistinctJobs(wjob') /\ wjob[w] \in HeldBy(wjob)
    BY <1>5, <1>10 DEF JobDone, Abort
  <2>2. /\ DistinctFrames(decodeQ')
        /\ \/ FramesIn(decodeQ') = FramesIn(decodeQ)
           \/ FramesIn(decodeQ') = {} /\ stop'
    BY <1>3, <1>10, EmptyPlaces DEF JobDone, Abort, DrainDecodeQueue
  <2>3. /\ DistinctResults(sendQ')
        /\ \/ ResultsIn(sendQ') = ResultsIn(sendQ) \union {wjob[w]}
           \/ ResultsIn(sendQ') = ResultsIn(sendQ) /\ stop'
    BY <1>3, <1>10, ResultEntered DEF sendQVars
  <2>4. ApartInv'
    BY <1>2, <1>3, <2>1, <2>2, <2>3 DEF ApartInv, Apart
  <2>5. AckedInv'
    BY <1>2, <1>3, <1>10, <2>1, <2>2, <2>3 DEF AckedInv, AllPlaces, Places
  <2> QED BY <2>1, <2>2, <2>3, <2>4, <2>5 DEF DistinctInv
<1>11. CASE Decoded(w) \/ ResultPut(w) \/ DecodeFailed(w) \/ ErrorPut(w)
  <2>1. wpc[w] \in Holding
    BY <1>11 DEF Decoded, ResultPut, DecodeFailed, ErrorPut, Holding
  <2>2. stop \in BOOLEAN
    BY DEF IInv, TypeInv, SessionInv
  <2>3. CASE Decoded(w) \/ ResultPut(w)
    <3>1. stop' = stop
      BY <2>3 DEF Decoded, ResultPut, events
    <3>2. Abort(w) => stop'
      BY DEF Abort
    <3>3. CASE /\ JobDone(w)
               /\ \/ EnqueueResult(Result(wjob[w], TRUE))
                  \/ stop /\ UNCHANGED sendQVars
      BY <1>10, <2>1, <3>1, <3>2, <3>3
    <3>4. CASE UNCHANGED <<wjob, decodeQVars, sendQVars>>
      BY <1>9, <3>1, <3>4
    <3> QED BY <2>3, <3>3, <3>4 DEF Decoded, ResultPut
  <2>4. CASE DecodeFailed(w) \/ ErrorPut(w)
    BY <1>9, <1>10, <2>1, <2>4 DEF DecodeFailed, ErrorPut, Abort
  <2> QED BY <1>11, <2>3, <2>4
<1> QED BY <1>6, <1>7, <1>8, <1>11 DEF Work

(* The sentinels after a step of a worker: it leaves without a stop only    *)
(* by GetNone and NonePut.                                                  *)
LEMMA WorkSentinels ==
  ASSUME IInv, NEW w \in Workers, Work(w)
  PROVE  PhaseInv' /\ CountInv'
<1>1. UNCHANGED <<recvVars, sendVars, mainVars, producerDone, session, wire>>
  BY DEF Work, GetJob, GetNone, NonePut, GetStopped, Decoded, ResultPut,
     DecodeFailed, ErrorPut, events
<1>2. UNCHANGED <<rpc, mpc, spc, drained, finished>>
  BY <1>1 DEF recvVars, sendVars, mainVars
<1>3. /\ decodeQ \in Seq(Items) /\ wpc \in [Workers -> WorkerStates]
      /\ sendQ \in Seq(Results \union {None})
      /\ finished \in Nat /\ stop \in BOOLEAN
      /\ Cardinality(Nones(sendQ)) \in Nat
  BY NonesFinite DEF IInv, TypeInv, DecodeQueueInv, SendQueueInv, SendInv,
     WorkInv, SessionInv
<1>4. PhaseInv /\ CountInv
  BY DEF IInv
<1>5. ASSUME decodeQ # <<>>
      PROVE  /\ NoNone(decodeQ) => NoNone(Tail(decodeQ))
             /\ NonesLast(decodeQ) => NonesLast(Tail(decodeQ))
             /\ OnlyNones(decodeQ) => OnlyNones(Tail(decodeQ))
             /\ OnlyNones(decodeQ) => Head(decodeQ) = None
             /\ NonesLast(decodeQ) /\ Head(decodeQ) = None
                  => OnlyNones(decodeQ)
             /\ NoNone(decodeQ) => Head(decodeQ) # None
  BY <1>3, <1>5, NonesTail
(* A step that stops the session, or leaves the worker inside, keeps all. *)
<1>6. ASSUME \/ decodeQ' = decodeQ \/ decodeQ' = <<>>
             \/ decodeQ # <<>> /\ decodeQ' = Tail(decodeQ),
             \/ stop'
             \/ /\ ~stop /\ wpc[w] # "exit"
                /\ \E s \in Holding \union {"get"} :
                     wpc' = [wpc EXCEPT ![w] = s]
                /\ Cardinality(Nones(sendQ')) = Cardinality(Nones(sendQ))
      PROVE  PhaseInv' /\ CountInv'
  <2>1. /\ NoNone(decodeQ) => NoNone(decodeQ')
        /\ NonesLast(decodeQ) => NonesLast(decodeQ')
        /\ OnlyNones(decodeQ) => OnlyNones(decodeQ')
    BY <1>5, <1>6, EmptyPlaces
  <2>2. CASE stop'
    BY <1>2, <1>4, <2>1, <2>2 DEF PhaseInv, CountInv
  <2>3. CASE ~stop'
    <3>1. PICK s \in Holding \union {"get"} : wpc' = [wpc EXCEPT ![w] = s]
      BY <1>6, <2>3
    <3>2. /\ s \in WorkerStates \ {"exit"} /\ s \notin {"putNone", "exit"}
      BY <3>1 DEF WorkerStates, Holding
    <3>3. \A v \in Workers : wpc'[v] \in {"putNone", "exit"}
                              => wpc[v] \in {"putNone", "exit"}
      BY <1>3, <3>1, <3>2
    <3>4. /\ Exited(wpc') = Exited(wpc) /\ Exited(wpc') # Workers
      BY <1>3, <1>6, <2>3, <3>1, <3>2, ExitedSame
    <3>5. PhaseInv'
      BY <1>2, <1>4, <1>6, <2>1, <2>3, <3>3 DEF PhaseInv
    <3>6. CountInv'
      BY <1>2, <1>4, <1>6, <2>3, <3>4 DEF CountInv
    <3> QED BY <3>5, <3>6
  <2> QED BY <2>2, <2>3
(* The worker's sentinel leaves with it. *)
<1>7. ASSUME EnqueueResult(None), wpc[w] # "exit",
             wpc' = [wpc EXCEPT ![w] = "exit"], UNCHANGED stop
      PROVE  CountInv'
  <2>1. Cardinality(Exited(wpc')) = Cardinality(Exited(wpc)) + 1
    BY <1>3, <1>7, ExitedMore
  <2>2. /\ Cardinality(Nones(sendQ')) = Cardinality(Nones(sendQ)) + 1
        /\ sendQ'[Len(sendQ')] = None
    BY <1>7, SentinelEntered
  <2>3. Cardinality(Exited(wpc)) \in Nat
    BY ExitedFinite
  <2> QED BY <1>2, <1>3, <1>4, <1>7, <2>1, <2>2, <2>3 DEF CountInv
<1>8. CASE GetJob(w)
  <2>1. /\ decodeQ # <<>> /\ decodeQ' = Tail(decodeQ) /\ stop' = stop
        /\ wpc' = [wpc EXCEPT ![w] = "decode"] /\ sendQ' = sendQ
        /\ wpc[w] # "exit" /\ "decode" \in Holding
    BY <1>8 DEF GetJob, events, sendQVars, Holding
  <2> QED BY <1>3, <1>6, <2>1
<1>9. CASE GetNone(w)
  <2>1. /\ decodeQ # <<>> /\ Head(decodeQ) = None /\ decodeQ' = Tail(decodeQ)
        /\ stop' = stop /\ wpc[w] = "get"
    BY <1>9 DEF GetNone, events
  <2>2. mpc # "recv" /\ OnlyNones(decodeQ)
    BY <1>4, <1>5, <2>1 DEF PhaseInv
  <2>3. PhaseInv'
    BY <1>2, <1>4, <1>5, <2>1, <2>2 DEF PhaseInv
  <2>4. CASE wpc' = [wpc EXCEPT ![w] = "exit"] /\ EnqueueResult(None)
    BY <1>7, <2>1, <2>3, <2>4
  <2>5. CASE wpc' = [wpc EXCEPT ![w] = "putNone"] /\ UNCHANGED sendQVars
    <3>1. /\ Exited(wpc') = Exited(wpc) /\ Exited(wpc') # Workers
      BY <1>3, <2>1, <2>5, ExitedSame DEF WorkerStates
    <3>2. CountInv'
      BY <1>2, <1>4, <2>1, <2>5, <3>1 DEF CountInv, sendQVars
    <3> QED BY <2>3, <3>2
  <2> QED BY <1>9, <2>4, <2>5 DEF GetNone
<1>10. CASE NonePut(w)
  <2>1. /\ wpc[w] = "putNone" /\ stop' = stop /\ decodeQ' = decodeQ
        /\ wpc' = [wpc EXCEPT ![w] = "exit"] /\ EnqueueResult(None)
    BY <1>10 DEF NonePut, events, decodeQVars
  <2>2. PhaseInv'
    BY <1>2, <1>3, <1>4, <2>1 DEF PhaseInv
  <2> QED BY <1>7, <2>1, <2>2
<1>11. CASE GetStopped(w)
  <2>1. decodeQ' = <<>> /\ stop'
    BY <1>11 DEF GetStopped, DrainDecodeQueue, events
  <2> QED BY <1>6, <2>1
<1>12. CASE Decoded(w) \/ ResultPut(w) \/ DecodeFailed(w) \/ ErrorPut(w)
  <2>1. wpc[w] \in Holding /\ wpc[w] # "exit"
    BY <1>12 DEF Decoded, ResultPut, DecodeFailed, ErrorPut, Holding
  <2>2. decodeQ' = decodeQ \/ decodeQ' = <<>>
    BY <1>12 DEF Decoded, ResultPut, DecodeFailed, ErrorPut, JobDone, Abort,
       DrainDecodeQueue, decodeQVars
  <2>3. CASE stop'
    BY <1>6, <2>2, <2>3
  <2>4. CASE ~stop'
    <3>1. ~stop
      BY <1>12, <2>4
         DEF Decoded, ResultPut, DecodeFailed, ErrorPut, Abort, events
    <3>2. \E s \in Holding \union {"get"} : wpc' = [wpc EXCEPT ![w] = s]
      BY <1>12, <2>4, <3>1
         DEF Decoded, ResultPut, DecodeFailed, ErrorPut, JobDone, Abort,
             Holding
    <3>3. \/ EnqueueResult(Result(wjob[w], TRUE))
          \/ UNCHANGED sendQVars
      BY <1>12, <2>4, <3>1
         DEF Decoded, ResultPut, DecodeFailed, ErrorPut, Abort
    <3>4. Cardinality(Nones(sendQ')) = Cardinality(Nones(sendQ))
      BY <2>1, <3>3, ResultEntered DEF sendQVars
    <3> QED BY <1>6, <2>1, <2>2, <3>1, <3>2, <3>4
  <2> QED BY <2>3, <2>4
<1> QED BY <1>8, <1>9, <1>10, <1>11, <1>12 DEF Work

LEMMA WorkService ==
  ASSUME IInv, NEW w \in Workers, Work(w), TypeInv'
  PROVE  IInv'
BY WorkPlaces, WorkSentinels DEF IInv

-----------------------------------------------------------------------------
(* The sender counts the last sentinel without a stop: every worker has     *)
(* left, nothing is queued anywhere, and all that was acknowledged has been *)
(* answered.                                                                *)
LEMMA DrainedComplete ==
  ASSUME IInv, GetFinished, AllFinished(finished'), ~stop
  PROVE  answered = acked /\ rpc \in Over
<1>1. /\ sendQ # <<>> /\ Head(sendQ) = None /\ finished' = finished + 1
      /\ sendQ \in Seq(Results \union {None}) /\ item = None
      /\ finished \in Nat
  BY DEF GetFinished, IInv, TypeInv, SendQueueInv, SendInv
<1>2. /\ Cardinality(Nones(Tail(sendQ))) = Cardinality(Nones(sendQ)) - 1
      /\ Cardinality(Nones(Tail(sendQ))) \in Nat
      /\ Cardinality(Nones(sendQ)) \in Nat
  BY <1>1, NonesTailCount, NonesFinite, TailAt
<1>3. /\ Exited(wpc) = Workers /\ Cardinality(Nones(Tail(sendQ))) = 0
  <2>1. finished + Cardinality(Nones(sendQ)) = Cardinality(Exited(wpc))
    BY DEF IInv, CountInv
  <2>2. finished + 1 >= Cardinality(Workers)
    BY <1>1 DEF AllFinished
  <2>3. Cardinality(Workers) \in Nat
    BY WorkersAssumption, FS_CardinalityType
  <2> QED BY <1>1, <1>2, <2>1, <2>2, <2>3, ExitedFinite
<1>4. Tail(sendQ) = <<>>
  <2>1. SUFFICES ASSUME Tail(sendQ) # <<>> PROVE FALSE
    OBVIOUS
  <2>2. /\ DOMAIN Tail(sendQ) = 1..(Len(sendQ) - 1) /\ Len(sendQ) \in Nat
        /\ Tail(sendQ) \in Seq(Results \union {None})
        /\ Len(Tail(sendQ)) = Len(sendQ) - 1
        /\ \A i \in 1..(Len(sendQ) - 1) : Tail(sendQ)[i] = sendQ[i + 1]
    BY <1>1, TailAt
  <2>3. Len(sendQ) - 1 \in 1..(Len(sendQ) - 1)
    BY <2>1, <2>2, EmptySeq
  <2>4. sendQ[Len(sendQ)] = None
    BY <1>1, <1>3 DEF IInv, CountInv
  <2>5. Len(sendQ) - 1 \in Nones(Tail(sendQ))
    BY <2>2, <2>3, <2>4 DEF Nones
  <2>6. IsFiniteSet(Nones(Tail(sendQ)))
    BY <2>2, NonesFinite
  <2> QED BY <1>3, <2>5, <2>6, FS_EmptySet
<1>5. PICK w \in Workers : wpc[w] = "exit"
  BY <1>3, WorkersAssumption DEF Exited
<1>6. rpc \in Over /\ OnlyNones(decodeQ)
  BY <1>5 DEF IInv, PhaseInv
<1>7. AllPlaces = answered
  <2>1. AtReceiver = {} /\ AtSender = {}
    BY <1>1, <1>6 DEF AtReceiver, AtSender, FrameOf, Over
  <2>2. FramesIn(decodeQ) = {}
    BY <1>6, NoneAssumption DEF FramesIn, OnlyNones
  <2>3. HeldBy(wjob) = {}
    BY <1>3 DEF HeldBy, Exited, IInv, TypeInv, WorkInv, Holding
  <2>4. ResultsIn(sendQ) = {}
    <3>1. /\ DOMAIN sendQ = 1..Len(sendQ) /\ Len(sendQ) \in Nat \ {0}
          /\ Head(sendQ) = sendQ[1] /\ Len(Tail(sendQ)) = Len(sendQ) - 1
      BY <1>1, TailAt
    <3>2. Len(sendQ) = 1
      BY <1>4, <3>1, EmptySeq
    <3> QED BY <1>1, <3>1, <3>2 DEF ResultsIn
  <2> QED BY <2>1, <2>2, <2>3, <2>4 DEF AllPlaces, Places
<1> QED BY <1>6, <1>7 DEF IInv, AckedInv

LEMMA SendPlaces ==
  ASSUME IInv, Send
  PROVE  DistinctInv' /\ ApartInv' /\ AckedInv'
<1>1. UNCHANGED <<recvVars, workVars, mainVars, decodeQVars, producerDone,
                  acked>>
  BY DEF Send, GetResult, GetFinished, SendStopped, ReplySent, ReplyFailed,
     events, wire
<1>2. UNCHANGED <<AtReceiver, decodeQ, wjob, acked, job, rpc>>
  BY <1>1 DEF recvVars, workVars, decodeQVars, AtReceiver
<1>3. /\ sendQ \in Seq(Results \union {None}) /\ DistinctResults(sendQ)
      /\ DistinctInv /\ ApartInv /\ AckedInv
  BY DEF IInv, TypeInv, SendQueueInv, DistinctInv
<1>4. ASSUME sendQ # <<>>
      PROVE  /\ ResultsIn(Tail(sendQ)) = ResultsIn(sendQ) \ FrameOf(Head(sendQ))
             /\ DistinctResults(Tail(sendQ))
             /\ FrameOf(Head(sendQ)) \subseteq ResultsIn(sendQ)
  BY <1>3, <1>4, ResultsTail
<1>5. CASE GetResult
  <2>1. /\ sendQ # <<>> /\ sendQ' = Tail(sendQ) /\ item' = Head(sendQ)
        /\ answered' = answered /\ stop' = stop
    BY <1>5 DEF GetResult, events, wire
  <2>2. AtSender = {}
    BY <1>5 DEF GetResult, AtSender, FrameOf, IInv, TypeInv, SendInv
  <2>3. /\ ResultsIn(sendQ') = ResultsIn(sendQ) \ FrameOf(item')
        /\ DistinctResults(sendQ')
        /\ FrameOf(item') \subseteq ResultsIn(sendQ)
    BY <1>4, <2>1
  <2>4. ApartInv'
    <3>1. ASSUME NEW p, NEW d, NEW h, NEW r, NEW a, Apart(p, d, h, r, {}, a),
                 NEW s \in SUBSET r
          PROVE  Apart(p, d, h, r \ s, s, a)
      BY <3>1 DEF Apart
    <3>2. Apart(AtReceiver, FramesIn(decodeQ), HeldBy(wjob),
                ResultsIn(sendQ'), FrameOf(item'), answered)
      BY <1>3, <2>2, <2>3, <3>1 DEF ApartInv
    <3> QED BY <1>2, <2>1, <3>2 DEF ApartInv, AtSender
  <2>5. AllPlaces' = AllPlaces
    BY <1>2, <2>1, <2>2, <2>3 DEF AllPlaces, Places, AtSender
  <2> QED BY <1>2, <1>3, <2>1, <2>3, <2>4, <2>5 DEF DistinctInv, AckedInv
<1>6. CASE GetFinished
  <2>1. /\ sendQ # <<>> /\ sendQ' = Tail(sendQ) /\ item' = item
        /\ answered' = answered /\ stop' = stop /\ FrameOf(Head(sendQ)) = {}
    BY <1>6 DEF GetFinished, events, wire, FrameOf
  <2>2. ResultsIn(sendQ') = ResultsIn(sendQ) /\ DistinctResults(sendQ')
    BY <1>4, <2>1
  <2> QED BY <1>2, <1>3, <2>1, <2>2
          DEF DistinctInv, ApartInv, AckedInv, AllPlaces, AtSender
<1>7. CASE SendStopped
  <2>1. UNCHANGED <<sendQ, item, answered, stop>>
    BY <1>7 DEF SendStopped, sendQVars, events, wire
  <2> QED BY <1>2, <1>3, <2>1
          DEF DistinctInv, ApartInv, AckedInv, AllPlaces, AtSender
<1>8. CASE ReplySent \/ ReplyFailed
  <2>1. /\ sendQ' = sendQ /\ item' = None /\ item # None
        /\ AtSender = {item.frame} /\ AtSender' = {}
    BY <1>8 DEF ReplySent, ReplyFailed, AtSender, FrameOf, IInv, TypeInv,
       SendInv
  <2>2. /\ \/ answered' = answered \union AtSender
           \/ answered' = answered /\ stop'
        /\ ~stop' => ~stop
    BY <1>8, <2>1 DEF ReplySent, ReplyFailed, wire
  <2>3. ApartInv'
    <3>1. ASSUME NEW p, NEW d, NEW h, NEW r, NEW s, NEW a,
                 Apart(p, d, h, r, s, a)
          PROVE  /\ Apart(p, d, h, r, {}, a \union s)
                 /\ Apart(p, d, h, r, {}, a)
      BY <3>1 DEF Apart
    <3>2. Apart(AtReceiver, FramesIn(decodeQ), HeldBy(wjob),
                ResultsIn(sendQ), {}, answered')
      BY <1>3, <2>2, <3>1 DEF ApartInv
    <3> QED BY <1>2, <2>1, <3>2 DEF ApartInv
  <2>4. AckedInv'
    <3>1. \/ AllPlaces' = AllPlaces
          \/ AllPlaces' \subseteq AllPlaces /\ stop'
      BY <1>2, <2>1, <2>2 DEF AllPlaces, Places
    <3> QED BY <1>2, <1>3, <2>2, <3>1 DEF AckedInv
  <2> QED BY <1>2, <1>3, <2>1, <2>3, <2>4 DEF DistinctInv
<1> QED BY <1>5, <1>6, <1>7, <1>8 DEF Send

LEMMA LeaveLoopOver ==
  ASSUME NEW cp0, NEW lifecycle0, LeaveLoop(cp0, lifecycle0)
  PROVE  spc' \in Over
BY DEF LeaveLoop, Over

LEMMA SendSentinels ==
  ASSUME IInv, Send
  PROVE  PhaseInv' /\ CountInv'
<1>1. UNCHANGED <<recvVars, workVars, mainVars, decodeQVars, producerDone>>
  BY DEF Send, GetResult, GetFinished, SendStopped, ReplySent, ReplyFailed,
     events
<1>2. UNCHANGED <<rpc, mpc, decodeQ, wpc>>
  BY <1>1 DEF recvVars, workVars, mainVars, decodeQVars
<1>3. ~stop' => ~stop
  BY DEF Send, GetResult, GetFinished, SendStopped, ReplySent, ReplyFailed,
     events
<1>4. ~drained
  BY DEF Send, GetResult, GetFinished, SendStopped, ReplySent, ReplyFailed,
     IInv, PhaseInv, Over
<1>5. /\ sendQ \in Seq(Results \union {None}) /\ PhaseInv /\ CountInv
      /\ finished \in Nat /\ Cardinality(Nones(sendQ)) \in Nat
  BY NonesFinite DEF IInv, TypeInv, SendQueueInv, SendInv
<1>6. PhaseInv'
  <2>1. drained' => spc' \in Over /\ rpc' \in Over
    <3>1. CASE GetFinished /\ AllFinished(finished')
      BY <1>2, <3>1, DrainedComplete, LeaveLoopOver DEF GetFinished
    <3>2. CASE ~(GetFinished /\ AllFinished(finished'))
      BY <1>4, <3>2 DEF Send, GetResult, GetFinished, SendStopped, ReplySent,
         ReplyFailed
    <3> QED BY <3>1, <3>2
  <2> QED BY <1>2, <1>3, <1>5, <2>1 DEF PhaseInv
<1>7. CountInv'
  <2>1. ASSUME sendQ # <<>>
        PROVE  /\ Cardinality(Nones(Tail(sendQ))) = Cardinality(Nones(sendQ))
                   - (IF Head(sendQ) = None THEN 1 ELSE 0)
               /\ Tail(sendQ) # <<>>
                   => Tail(sendQ)[Len(Tail(sendQ))] = sendQ[Len(sendQ)]
    <3>1. /\ Len(sendQ) \in Nat /\ Tail(sendQ) \in Seq(Results \union {None})
          /\ Len(Tail(sendQ)) = Len(sendQ) - 1
          /\ \A i \in 1..(Len(sendQ) - 1) : Tail(sendQ)[i] = sendQ[i + 1]
      BY <1>5, <2>1, TailAt
    <3>2. Tail(sendQ) # <<>> => Len(sendQ) - 1 \in 1..(Len(sendQ) - 1)
      BY <3>1, EmptySeq
    <3>3. Tail(sendQ) # <<>>
            => Tail(sendQ)[Len(Tail(sendQ))] = sendQ[Len(sendQ)]
      BY <3>1, <3>2
    <3> QED BY <1>5, <2>1, <3>3, NonesTailCount
  <2>2. CASE GetResult
    <3>1. /\ sendQ # <<>> /\ Head(sendQ) # None /\ sendQ' = Tail(sendQ)
          /\ finished' = finished
      BY <2>2 DEF GetResult
    <3> QED BY <1>2, <1>3, <1>5, <2>1, <3>1 DEF CountInv
  <2>3. CASE GetFinished
    <3>1. /\ sendQ # <<>> /\ Head(sendQ) = None /\ sendQ' = Tail(sendQ)
          /\ finished' = finished + 1
      BY <2>3 DEF GetFinished
    <3> QED BY <1>2, <1>3, <1>5, <2>1, <3>1 DEF CountInv
  <2>4. CASE SendStopped \/ ReplySent \/ ReplyFailed
    <3>1. sendQ' = sendQ /\ finished' = finished
      BY <2>4 DEF SendStopped, ReplySent, ReplyFailed, sendQVars
    <3> QED BY <1>2, <1>3, <1>5, <3>1 DEF CountInv
  <2> QED BY <2>2, <2>3, <2>4 DEF Send
<1> QED BY <1>6, <1>7

LEMMA SendService ==
  ASSUME IInv, Send, TypeInv'
  PROVE  IInv'
BY SendPlaces, SendSentinels DEF IInv

-----------------------------------------------------------------------------
LEMMA MainService ==
  ASSUME IInv, Main, TypeInv'
  PROVE  IInv'
<1>1. UNCHANGED <<recvVars, workVars, sendVars, sendQVars, wire>>
  BY DEF Main, RecvTaskOver, PutSentinel, DecodeJoined, WorkersGathered,
     SendJoined, Closed
<1>2. UNCHANGED <<rpc, job, wpc, wjob, spc, item, finished, drained, sendQ,
                  acked, answered, AtReceiver, AtSender>>
  BY <1>1 DEF recvVars, workVars, sendVars, sendQVars, wire, AtReceiver,
     AtSender
<1>3. ~stop' => ~stop
  BY DEF Main, RecvTaskOver, FailAndSignal, PutSentinel, DecodeJoined,
     WorkersGathered, SendJoined, Closed, events
<1>4. mpc' # "recv" /\ rpc \in Over
  BY DEF Main, RecvTaskOver, PutSentinel, DecodeJoined, WorkersGathered,
     SendJoined, Closed, Over, IInv, PhaseInv
<1>5. /\ decodeQ \in Seq(Items) /\ None \in Items /\ DistinctFrames(decodeQ)
      /\ DistinctInv /\ ApartInv /\ AckedInv /\ PhaseInv /\ CountInv
  BY DEF IInv, TypeInv, DecodeQueueInv, Items, DistinctInv
<1>6. /\ FramesIn(decodeQ') = FramesIn(decodeQ) /\ DistinctFrames(decodeQ')
      /\ NonesLast(decodeQ')
      /\ OnlyNones(decodeQ) => OnlyNones(decodeQ')
  <2>1. CASE PutSentinel
    <3>1. decodeQ' = Append(decodeQ, None) /\ None \notin Frames
      BY <2>1, NoneAssumption DEF PutSentinel
    <3>2. None \notin FramesIn(decodeQ)
      BY <3>1 DEF FramesIn
    <3>3. /\ FramesIn(decodeQ') = FramesIn(decodeQ)
          /\ DistinctFrames(decodeQ')
      <4>1. /\ FramesIn(Append(decodeQ, None))
                 = FramesIn(decodeQ) \union ({None} \intersect Frames)
            /\ DistinctFrames(Append(decodeQ, None))
        BY <1>5, <3>2, FramesAppended
      <4>2. {None} \intersect Frames = {}
        BY <3>1
      <4> QED BY <3>1, <4>1, <4>2
    <3>4. /\ NonesLast(decodeQ')
          /\ OnlyNones(decodeQ) => OnlyNones(decodeQ')
      BY <1>5, <3>1, NonesAppended DEF PhaseInv
    <3> QED BY <3>3, <3>4
  <2>2. CASE ~PutSentinel
    <3>1. decodeQ' = decodeQ
      BY <2>2 DEF Main, RecvTaskOver, DecodeJoined, WorkersGathered,
         SendJoined, Closed, decodeQVars
    <3> QED BY <1>5, <3>1 DEF PhaseInv
  <2> QED BY <2>1, <2>2
<1>7. DistinctInv' /\ ApartInv'
  BY <1>2, <1>5, <1>6 DEF DistinctInv, ApartInv
<1>8. AckedInv'
  BY <1>2, <1>3, <1>5, <1>6 DEF AckedInv, AllPlaces
<1>9. PhaseInv'
  BY <1>2, <1>3, <1>4, <1>5, <1>6 DEF PhaseInv
<1>10. CountInv'
  BY <1>2, <1>3, <1>5 DEF CountInv
<1> QED BY <1>7, <1>8, <1>9, <1>10 DEF IInv

LEMMA ServiceStep == IInv /\ [Next]_vars => IInv'
<1> SUFFICES ASSUME IInv, [Next]_vars PROVE IInv'
  OBVIOUS
<1>1. TypeInv'
  BY TypeStep DEF IInv
<1>2. CASE UNCHANGED vars
  <2>1. UNCHANGED <<rpc, job, wpc, wjob, spc, item, finished, drained, mpc,
                    decodeQ, sendQ, stop, acked, answered>>
    BY <1>2 DEF vars, recvVars, workVars, sendVars, mainVars, decodeQVars,
       sendQVars, events, wire
  <2> QED BY <1>1, <2>1 DEF IInv, DistinctInv, ApartInv, AckedInv, AllPlaces,
          AtReceiver, AtSender, PhaseInv, CountInv
<1> QED BY <1>1, <1>2, RecvService, WorkService, SendService, MainService
        DEF Next

LEMMA ServiceInvariant == Spec => []IInv
BY InitService, ServiceStep, PTL DEF Spec

-----------------------------------------------------------------------------
(* Until something stops the session, every frame whose ACK is on the wire  *)
(* has been answered or is still in the pipeline.                           *)
THEOREM NoLoss == Spec => []NoAckedFrameLost
<1>1. IInv => NoAckedFrameLost
  <2> SUFFICES ASSUME IInv, ~stop, NEW f \in acked
               PROVE  f \in answered \/ InPipeline(f)
    BY DEF NoAckedFrameLost
  <2>1. f \in AllPlaces
    BY DEF IInv, AckedInv
  <2> QED BY <2>1 DEF AllPlaces, Places, AtReceiver, AtSender, FrameOf,
          FramesIn, ResultsIn, HeldBy, InPipeline, InDecodeQueue, InSendQueue
<1> QED BY <1>1, ServiceInvariant, PTL

-----------------------------------------------------------------------------
(* How the steps of the server look to its client.  A step that neither     *)
(* acknowledges nor answers breaks the service or shows nothing.            *)
LEMMA RefineQuiet ==
  ASSUME IInv, IInv', UNCHANGED <<acked, answered, drained>>, stop => stop'
  PROVE  [Service!Next]_Service!vars
<1>1. stop \in BOOLEAN /\ stop' \in BOOLEAN /\ drained \in BOOLEAN
  BY DEF IInv, TypeInv, SessionInv, SendInv
<1>2. CASE drained \/ stop' = stop
  BY <1>2 DEF Service!vars
<1>3. CASE ~drained /\ ~stop /\ stop'
  BY <1>3 DEF Service!Next, Service!Break
<1> QED BY <1>1, <1>2, <1>3

LEMMA RefineRecv ==
  ASSUME IInv, IInv', Recv
  PROVE  [Service!Next]_Service!vars
<1>1. UNCHANGED <<answered, drained>> /\ (stop => stop')
  BY DEF Recv, RecvTimeout, HeartbeatSent, RecvFailed, RecvHeartbeat,
     RecvError, RecvEof, RecvData, DenySent, AckSent, AckFailed, JobPut,
     RecvExit, wire, sendVars, events, FailAndSignal
<1>2. rpc \notin Over /\ ~drained
  BY DEF Recv, RecvTimeout, HeartbeatSent, RecvFailed, RecvHeartbeat,
     RecvError, RecvEof, RecvData, DenySent, AckSent, AckFailed, JobPut,
     RecvExit, Over, IInv, PhaseInv
<1>3. CASE AckSent
  <2>1. /\ job \in Frames /\ job \notin acked /\ stop' = stop
        /\ acked' = acked \union {job}
    BY <1>3 DEF AckSent, events, IInv, TypeInv, RecvInv, AckedInv
  <2>2. Service!Accept(job)
    BY <1>1, <1>2, <2>1 DEF Service!Accept
  <2> QED BY <2>1, <2>2 DEF Service!Next
<1>4. CASE ~AckSent
  <2>1. acked' = acked
    BY <1>4 DEF Recv, RecvTimeout, HeartbeatSent, RecvFailed, RecvHeartbeat,
       RecvError, RecvEof, RecvData, DenySent, AckFailed, JobPut, RecvExit,
       wire
  <2> QED BY <1>1, <2>1, RefineQuiet
<1> QED BY <1>3, <1>4

LEMMA RefineWork ==
  ASSUME IInv, IInv', NEW w \in Workers, Work(w)
  PROVE  [Service!Next]_Service!vars
<1>1. UNCHANGED <<acked, answered, drained>>
  BY DEF Work, GetJob, GetNone, NonePut, GetStopped, Decoded, ResultPut,
     DecodeFailed, ErrorPut, wire, sendVars
<1>2. stop => stop'
  BY DEF Work, GetJob, GetNone, NonePut, GetStopped, Decoded, ResultPut,
     DecodeFailed, ErrorPut, Abort, events
<1> QED BY <1>1, <1>2, RefineQuiet

LEMMA RefineMain ==
  ASSUME IInv, IInv', Main
  PROVE  [Service!Next]_Service!vars
<1>1. UNCHANGED <<acked, answered, drained>>
  BY DEF Main, RecvTaskOver, PutSentinel, DecodeJoined, WorkersGathered,
     SendJoined, Closed, wire, sendVars
<1>2. stop => stop'
  BY DEF Main, RecvTaskOver, FailAndSignal, PutSentinel, DecodeJoined,
     WorkersGathered, SendJoined, Closed, events
<1> QED BY <1>1, <1>2, RefineQuiet

LEMMA RefineSend ==
  ASSUME IInv, IInv', Send
  PROVE  [Service!Next]_Service!vars
<1>1. acked' = acked /\ ~drained /\ (stop => stop')
  BY DEF Send, GetResult, GetFinished, SendStopped, ReplySent, ReplyFailed,
     wire, events, IInv, PhaseInv, Over
<1>2. CASE ReplySent
  <2>1. /\ answered' = answered \union {item.frame} /\ drained' = drained
        /\ item # None /\ AtSender = {item.frame}
    BY <1>2 DEF ReplySent, AtSender, FrameOf, IInv, TypeInv, SendInv
  <2>2. item.frame \in acked \ answered
    BY <2>1 DEF IInv, ApartInv, Apart, AckedInv, AllPlaces, Places
  <2>3. item.frame \in Frames
    BY <2>2 DEF IInv, TypeInv, WireInv
  <2>4. Service!Answer(item.frame)
    <3>1. stop \in BOOLEAN /\ stop' \in BOOLEAN
      BY DEF IInv, TypeInv, SessionInv
    <3> QED BY <1>1, <2>1, <2>2, <3>1 DEF Service!Answer
  <2> QED BY <2>3, <2>4 DEF Service!Next
<1>3. CASE GetFinished /\ AllFinished(finished')
  <2>1. /\ answered' = answered /\ stop' = stop /\ drained' = ~stop
    BY <1>3 DEF GetFinished, wire, events
  <2>2. CASE stop
    BY <1>1, <2>1, <2>2 DEF Service!vars
  <2>3. CASE ~stop
    <3>1. answered = acked
      BY <1>3, <2>3, DrainedComplete
    <3>2. Service!Close
      BY <1>1, <2>1, <2>3, <3>1 DEF Service!Close
    <3> QED BY <3>2 DEF Service!Next
  <2> QED BY <2>2, <2>3
<1>4. CASE ~ReplySent /\ ~(GetFinished /\ AllFinished(finished'))
  <2>1. UNCHANGED <<answered, drained>>
    BY <1>4 DEF Send, GetResult, GetFinished, SendStopped, ReplyFailed, wire
  <2> QED BY <1>1, <2>1, RefineQuiet
<1> QED BY <1>2, <1>3, <1>4

(* The server implements FrameService: it answers a frame once and only     *)
(* after its ACK, and when the sender has seen every worker out without a   *)
(* stop, everything acknowledged has been answered and nothing follows.     *)
THEOREM Implementation == Spec => ImplementsService
<1>1. Init => Service!Init
  BY DEF Init, Service!Init
<1>2. IInv /\ IInv' /\ [Next]_vars => [Service!Next]_Service!vars
  <2> SUFFICES ASSUME IInv, IInv', [Next]_vars
               PROVE  [Service!Next]_Service!vars
    OBVIOUS
  <2>1. CASE UNCHANGED vars
    BY <2>1 DEF vars, wire, sendVars, events, Service!vars
  <2> QED BY <2>1, RefineRecv, RefineWork, RefineSend, RefineMain DEF Next
<1> QED BY <1>1, <1>2, ServiceInvariant, PTL
        DEF Spec, ImplementsService, Service!Spec
=============================================================================
