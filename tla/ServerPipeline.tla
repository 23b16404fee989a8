--------------------------- MODULE ServerPipeline ---------------------------
(***************************************************************************)
(* One server session: handle_connection of nodes/stream_server.py with    *)
(* the asyncio tasks it creates (_recv_loop, one _decode_worker per worker,*)
(* _send_loop), the two bounded queues between them, and the events        *)
(* stop_event and producer_done.                                           *)
(*                                                                         *)
(* An action is what one task does between two awaits that suspend it; the *)
(* threads behind asyncio.to_thread (recv, send, decode) are the awaits.   *)
(* A task about to read a queue is at "get".  There it may take an item    *)
(* even after stop_event is set, because queue.get() may already have been *)
(* waiting when the event came; or it gives up (QueueStopped).             *)
(*                                                                         *)
(* Frames are numbered in the order in which the server has received them  *)
(* whole.  Reassembly is FragmentBuffer's matter.                          *)
(***************************************************************************)
EXTENDS Integers, Sequences, FiniteSets, SessionState

CONSTANTS
  Workers,     \* args.decode_workers worker ids
  MaxFrame,    \* the client sends at most this many frames
  QueueBound,  \* queue_bound: maxsize of both queues
  OtherKinds,  \* kinds the client sends beside DATA and EOF
  None         \* the sentinel put in either queue

Frames == 1..MaxFrame

ASSUME WorkersAssumption == IsFiniteSet(Workers) /\ Workers # {}
ASSUME BoundAssumption == MaxFrame \in Nat /\ QueueBound \in Nat \ {0}
ASSUME KindsAssumption == OtherKinds \subseteq {"HEARTBEAT", "ERROR"}
ASSUME NoneAssumption ==
  None \notin Frames /\ None \notin [frame : Frames, ok : BOOLEAN]

VARIABLES
  rpc,         \* where _recv_loop is
  job,         \* the number of frames received whole; the last is its job
  wpc, wjob,   \* where each worker is, and the frame it holds
  spc, item,   \* where _send_loop is, and the result it is sending
  finished,    \* finished_workers
  mpc, puts,   \* where handle_connection is, sentinels it has put
  decodeQ, decodeUndone, \* decode_queue and its unfinished-task count
  sendQ, sendUndone,     \* send_queue, likewise
  stop, producerDone,    \* the two events
  cp, lifecycle,         \* ControlPlane and StreamStateMachine
  acked, answered,       \* frames whose ACK / whose DATA or ERROR is sent
  eofSent,     \* the server's MSG_EOF is on the wire
  drained      \* history: _send_loop saw every worker finish, never stopped

recvVars == <<rpc, job>>
workVars == <<wpc, wjob>>
sendVars == <<spc, item, finished, drained>>
mainVars == <<mpc, puts>>
decodeQVars == <<decodeQ, decodeUndone>>
sendQVars == <<sendQ, sendUndone>>
events == <<stop, producerDone>>
session == <<cp, lifecycle>>
wire == <<acked, answered, eofSent>>
vars == <<recvVars, workVars, sendVars, mainVars, decodeQVars, sendQVars,
          events, session, wire>>

Init ==
  /\ rpc = "recv" /\ job = 0
  /\ wpc = [w \in Workers |-> "get"] /\ wjob = [w \in Workers |-> None]
  /\ spc = "get" /\ item = None /\ finished = 0 /\ drained = FALSE
  /\ mpc = "recv" /\ puts = 0
  /\ decodeQ = <<>> /\ decodeUndone = 0
  /\ sendQ = <<>> /\ sendUndone = 0
  /\ stop = FALSE /\ producerDone = FALSE
  /\ cp = OnConnected(NewPlane)
  /\ lifecycle = "HANDSHAKING"
  /\ acked = {} /\ answered = {} /\ eofSent = FALSE

(* Room in a queue: put() goes through without waiting. *)
Room(q) == Len(q) < QueueBound

(* _fail_and_signal *)
FailAndSignal ==
  /\ lifecycle' = "FAILED"
  /\ stop' = TRUE

-----------------------------------------------------------------------------
(* _recv_loop.  It is suspended at "recv" (protocol.recv in its thread),    *)
(* "ack" (sending the ACK of its job), "control" (sending a heartbeat),     *)
(* "deny" (sending an ERROR for a frame of another version), "put" (the     *)
(* decode queue is full) or "closing" (awaiting the fragment GC task).      *)

(* The next turn of "while not stop_event.is_set()". *)
NextTurn == rpc' = IF stop THEN "closing" ELSE "recv"

(* socket.timeout: a heartbeat when one is due. *)
RecvTimeout ==
  /\ rpc = "recv"
  /\ \/ rpc' = "control"
     \/ NextTurn
  /\ UNCHANGED <<job, workVars, sendVars, mainVars, decodeQVars, sendQVars,
                 events, session, wire>>

HeartbeatSent ==
  /\ rpc = "control"
  /\ \/ NextTurn /\ UNCHANGED <<lifecycle, stop>>
     \/ rpc' = "closing" /\ FailAndSignal
  /\ UNCHANGED <<job, workVars, sendVars, mainVars, decodeQVars, sendQVars,
                 producerDone, cp, wire>>

(* recv raised, or the client closed the connection. *)
RecvFailed ==
  /\ rpc = "recv"
  /\ rpc' = "closing"
  /\ FailAndSignal
  /\ UNCHANGED <<job, workVars, sendVars, mainVars, decodeQVars, sendQVars,
                 producerDone, cp, wire>>

RecvHeartbeat ==
  /\ rpc = "recv" /\ "HEARTBEAT" \in OtherKinds
  /\ cp' = OnHeartbeat(cp)
  /\ NextTurn
  /\ UNCHANGED <<job, workVars, sendVars, mainVars, decodeQVars, sendQVars,
                 events, lifecycle, wire>>

RecvError ==
  /\ rpc = "recv" /\ "ERROR" \in OtherKinds
  /\ ~OnErrorRaises(cp)
  /\ cp' = OnError(cp)
  /\ rpc' = "closing"
  /\ FailAndSignal
  /\ UNCHANGED <<job, workVars, sendVars, mainVars, decodeQVars, sendQVars,
                 producerDone, wire>>

(* MSG_EOF.  on_eof_received raises when no frame has come before it; the   *)
(* exception leaves the loop through its finally block.                     *)
RecvEof ==
  /\ rpc = "recv"
  /\ \/ /\ OnEofReceivedRaises(cp)
        /\ rpc' = "raising"
        /\ UNCHANGED <<session, producerDone>>
     \/ /\ ~OnEofReceivedRaises(cp)
        /\ cp' = OnEofReceived(cp)
        /\ LET draining == Transition(lifecycle, "DRAINING")
           IN  lifecycle' = IF cp'.state = "TERMINATED"
                            THEN Transition(draining, "TERMINATED")
                            ELSE draining
        /\ producerDone' = TRUE
        /\ rpc' = "closing"
  /\ UNCHANGED <<job, workVars, sendVars, mainVars, decodeQVars, sendQVars,
                 stop, wire>>

(* The first DATA message moves the session to STREAMING. *)
FirstFrame ==
  IF cp.state \in {"INIT", "HANDSHAKING"}
  THEN /\ cp' = OnFirstData(cp)
       /\ lifecycle' = Transition(lifecycle, "STREAMING")
  ELSE UNCHANGED session

(* MSG_DATA: the last fragment of a frame starts its ACK, an earlier one is *)
(* kept, a frame of an unsupported version is refused.                      *)
RecvData ==
  /\ rpc = "recv"
  /\ job < MaxFrame
  /\ FirstFrame
  /\ \/ rpc' = "ack" /\ job' = job + 1
     \/ NextTurn /\ UNCHANGED job
     \/ rpc' = "deny" /\ UNCHANGED job
  /\ UNCHANGED <<workVars, sendVars, mainVars, decodeQVars, sendQVars, events,
                 wire>>

(* Whether or not the refusal could be sent, the loop goes on. *)
DenySent ==
  /\ rpc = "deny"
  /\ NextTurn
  /\ UNCHANGED <<job, workVars, sendVars, mainVars, decodeQVars, sendQVars,
                 events, session, wire>>

(* _queue_put(decode_queue, job) in the step that saw the ACK out. *)
EnqueueJob ==
  /\ decodeQ' = Append(decodeQ, job)
  /\ decodeUndone' = decodeUndone + 1

AckSent ==
  /\ rpc = "ack"
  /\ acked' = acked \union {job}
  /\ \/ /\ stop
        /\ rpc' = "closing"
        /\ UNCHANGED decodeQVars
     \/ /\ ~stop /\ Room(decodeQ)
        /\ EnqueueJob
        /\ rpc' = "recv"
     \/ /\ ~stop /\ ~Room(decodeQ)
        /\ rpc' = "put"
        /\ UNCHANGED decodeQVars
  /\ UNCHANGED <<job, workVars, sendVars, mainVars, sendQVars, events, session,
                 answered, eofSent>>

AckFailed ==
  /\ rpc = "ack"
  /\ rpc' = "closing"
  /\ producerDone' = TRUE
  /\ FailAndSignal
  /\ UNCHANGED <<job, workVars, sendVars, mainVars, decodeQVars, sendQVars, cp,
                 wire>>

(* The wait for room ends with the job queued, or with a timeout after      *)
(* stop_event.                                                              *)
JobPut ==
  /\ rpc = "put"
  /\ \/ /\ Room(decodeQ)
        /\ EnqueueJob
        /\ NextTurn
     \/ /\ stop
        /\ rpc' = "closing"
        /\ UNCHANGED decodeQVars
  /\ UNCHANGED <<job, workVars, sendVars, mainVars, sendQVars, events, session,
                 wire>>

(* The finally block, after the fragment GC task is gone. *)
RecvExit ==
  /\ rpc \in {"closing", "raising"}
  /\ rpc' = IF rpc = "raising" THEN "raised" ELSE "done"
  /\ producerDone' = TRUE
  /\ UNCHANGED <<job, workVars, sendVars, mainVars, decodeQVars, sendQVars,
                 stop, session, wire>>

Recv ==
  /\ mpc # "raised"
  /\ \/ RecvTimeout \/ HeartbeatSent \/ RecvFailed \/ RecvHeartbeat
     \/ RecvError \/ RecvEof \/ RecvData \/ DenySent
     \/ AckSent \/ AckFailed \/ JobPut \/ RecvExit

-----------------------------------------------------------------------------
(* _decode_worker.  It is suspended at "get", "decode" (the decoder runs in *)
(* a thread), "put" or "putError" (its result waits for room in send_queue),*)
(* "putNone" (so does its sentinel), and ends at "exit".                    *)

Holding == {"decode", "put", "putError"}

Result(f, ok) == [frame |-> f, ok |-> ok]

EnqueueResult(r) ==
  /\ sendQ' = Append(sendQ, r)
  /\ sendUndone' = sendUndone + 1

GetJob(w) ==
  /\ wpc[w] = "get"
  /\ decodeQ # <<>> /\ Head(decodeQ) # None
  /\ wjob' = [wjob EXCEPT ![w] = Head(decodeQ)]
  /\ wpc' = [wpc EXCEPT ![w] = "decode"]
  /\ decodeQ' = Tail(decodeQ)
  /\ UNCHANGED <<decodeUndone, recvVars, sendVars, mainVars, sendQVars, events,
                 session, wire>>

(* The sentinel: pass one on to the sender, with no stop_event to give up   *)
(* on if its queue is full.                                                 *)
GetNone(w) ==
  /\ wpc[w] = "get"
  /\ decodeQ # <<>> /\ Head(decodeQ) = None
  /\ decodeQ' = Tail(decodeQ)
  /\ decodeUndone' = decodeUndone - 1
  /\ IF Room(sendQ)
     THEN EnqueueResult(None) /\ wpc' = [wpc EXCEPT ![w] = "exit"]
     ELSE UNCHANGED sendQVars /\ wpc' = [wpc EXCEPT ![w] = "putNone"]
  /\ UNCHANGED <<wjob, recvVars, sendVars, mainVars, events, session, wire>>

NonePut(w) ==
  /\ wpc[w] = "putNone"
  /\ Room(sendQ)
  /\ EnqueueResult(None)
  /\ wpc' = [wpc EXCEPT ![w] = "exit"]
  /\ UNCHANGED <<wjob, recvVars, sendVars, mainVars, decodeQVars, events,
                 session, wire>>

(* _drain_queue.  Mutant: it forgets task_done(). *)
DrainWithoutTaskDone(alsoDone) ==
  /\ decodeQ' = <<>>
  /\ decodeUndone' = decodeUndone - alsoDone

DrainDecodeQueue(alsoDone) ==
  /\ decodeQ' = <<>>
  /\ decodeUndone' = decodeUndone - Len(decodeQ) - alsoDone

GetStopped(w) ==
  /\ wpc[w] = "get"
  /\ stop
  /\ DrainDecodeQueue(0)
  /\ wpc' = [wpc EXCEPT ![w] = "exit"]
  /\ UNCHANGED <<wjob, recvVars, sendVars, mainVars, sendQVars, events, session,
                 wire>>

(* The job is over: task_done(), then the next turn of the worker's loop.   *)
JobDone(w) ==
  /\ wjob' = [wjob EXCEPT ![w] = None]
  /\ wpc' = [wpc EXCEPT ![w] = IF stop THEN "exit" ELSE "get"]
  /\ decodeUndone' = decodeUndone - 1
  /\ UNCHANGED decodeQ

(* Mutant: a full queue loses the result. *)
DecodedDropsWhenFull(w) ==
  /\ wpc[w] = "decode"
  /\ JobDone(w)
  /\ \/ Room(sendQ) /\ EnqueueResult(Result(wjob[w], TRUE))
     \/ ~Room(sendQ) /\ UNCHANGED sendQVars
  /\ UNCHANGED <<recvVars, sendVars, mainVars, events, session, wire>>

(* _queue_put gives the result up when stop_event is set. *)
Decoded(w) ==
  /\ wpc[w] = "decode"
  /\ \/ stop /\ JobDone(w) /\ UNCHANGED sendQVars
     \/ /\ ~stop /\ Room(sendQ)
        /\ EnqueueResult(Result(wjob[w], TRUE))
        /\ JobDone(w)
     \/ /\ ~stop /\ ~Room(sendQ)
        /\ wpc' = [wpc EXCEPT ![w] = "put"]
        /\ UNCHANGED <<wjob, decodeQVars, sendQVars>>
  /\ UNCHANGED <<recvVars, sendVars, mainVars, events, session, wire>>

ResultPut(w) ==
  /\ wpc[w] = "put"
  /\ \/ Room(sendQ) /\ EnqueueResult(Result(wjob[w], TRUE))
     \/ stop /\ UNCHANGED sendQVars
  /\ JobDone(w)
  /\ UNCHANGED <<recvVars, sendVars, mainVars, events, session, wire>>

(* After a failed decode: stop_event, drain the queue, leave the loop. *)
Abort(w) ==
  /\ stop' = TRUE
  /\ DrainDecodeQueue(1)
  /\ wjob' = [wjob EXCEPT ![w] = None]
  /\ wpc' = [wpc EXCEPT ![w] = "exit"]

DecodeFailed(w) ==
  /\ wpc[w] = "decode"
  /\ \/ stop /\ Abort(w) /\ UNCHANGED sendQVars
     \/ /\ ~stop /\ Room(sendQ)
        /\ EnqueueResult(Result(wjob[w], FALSE))
        /\ Abort(w)
     \/ /\ ~stop /\ ~Room(sendQ)
        /\ wpc' = [wpc EXCEPT ![w] = "putError"]
        /\ UNCHANGED <<wjob, stop, decodeQVars, sendQVars>>
  /\ UNCHANGED <<recvVars, sendVars, mainVars, producerDone, session, wire>>

ErrorPut(w) ==
  /\ wpc[w] = "putError"
  /\ \/ Room(sendQ) /\ EnqueueResult(Result(wjob[w], FALSE))
     \/ stop /\ UNCHANGED sendQVars
  /\ Abort(w)
  /\ UNCHANGED <<recvVars, sendVars, mainVars, producerDone, session, wire>>

Work(w) ==
  /\ mpc # "raised"
  /\ \/ GetJob(w) \/ GetNone(w) \/ NonePut(w) \/ GetStopped(w)
     \/ Decoded(w) \/ ResultPut(w) \/ DecodeFailed(w) \/ ErrorPut(w)

-----------------------------------------------------------------------------
(* _send_loop.  It is suspended at "get" or "send" (protocol.send in its    *)
(* thread), and ends "done" or "raised".                                    *)

(* After the loop, with producer_done set: on_eof_sent and the lifecycle    *)
(* transition may raise.  Then the EOF itself is not sent:                  *)
(* _send_control_message is not defined, and the NameError is caught.       *)
LeaveLoop(cp0, lifecycle0) ==
  LET draining == cp0.state \notin Terminal
      raises == \/ draining /\ OnEofSentRaises(cp0)
                \/ TransitionRaises(lifecycle0, "DRAINING")
  IN  IF ~producerDone
      THEN spc' = "done" /\ cp' = cp0 /\ lifecycle' = lifecycle0
      ELSE /\ spc' = IF raises THEN "raised" ELSE "done"
           /\ cp' = IF draining /\ ~OnEofSentRaises(cp0)
                    THEN OnEofSent(cp0) ELSE cp0
           /\ lifecycle' = IF raises THEN lifecycle0
                           ELSE Transition(lifecycle0, "DRAINING")

SendTurn == IF stop
            THEN LeaveLoop(cp, lifecycle)
            ELSE spc' = "get" /\ UNCHANGED session

(* send_queue.task_done().  Mutant: it is not called. *)
SendTaskForgotten == UNCHANGED sendUndone
SendTaskDone == sendUndone' = sendUndone - 1

(* Every worker has passed its sentinel on.  Mutant: one is enough. *)
AnyFinished(n) == n >= 1
AllFinished(n) == n >= Cardinality(Workers)

GetResult ==
  /\ spc = "get"
  /\ sendQ # <<>> /\ Head(sendQ) # None
  /\ sendQ' = Tail(sendQ)
  /\ item' = Head(sendQ)
  /\ IF Head(sendQ).ok \/ cp.state = "FAILED"
     THEN spc' = "send" /\ UNCHANGED cp
     ELSE IF OnErrorRaises(cp)
          THEN spc' = "raised" /\ UNCHANGED cp
          ELSE spc' = "send" /\ cp' = OnError(cp)
  /\ UNCHANGED <<sendUndone, finished, drained, recvVars, workVars, mainVars,
                 decodeQVars, events, lifecycle, wire>>

GetFinished ==
  /\ spc = "get"
  /\ sendQ # <<>> /\ Head(sendQ) = None
  /\ sendQ' = Tail(sendQ)
  /\ SendTaskDone
  /\ finished' = finished + 1
  /\ IF AllFinished(finished')
     THEN LeaveLoop(cp, lifecycle) /\ drained' = ~stop
     ELSE SendTurn /\ UNCHANGED drained
  /\ UNCHANGED <<item, recvVars, workVars, mainVars, decodeQVars, events, wire>>

SendStopped ==
  /\ spc = "get"
  /\ stop
  /\ LeaveLoop(cp, lifecycle)
  /\ UNCHANGED <<item, finished, drained, recvVars, workVars, mainVars,
                 decodeQVars, sendQVars, events, wire>>

(* A reply is out.  An ERROR reply ends the session. *)
ReplySent ==
  /\ spc = "send"
  /\ answered' = answered \union {item.frame}
  /\ item' = None
  /\ SendTaskDone
  /\ IF item.ok
     THEN SendTurn /\ UNCHANGED stop
     ELSE stop' = TRUE /\ LeaveLoop(cp, "FAILED")
  /\ UNCHANGED <<sendQ, finished, drained, recvVars, workVars, mainVars,
                 decodeQVars, producerDone, acked, eofSent>>

ReplyFailed ==
  /\ spc = "send"
  /\ item' = None
  /\ SendTaskDone
  /\ stop' = TRUE
  /\ LeaveLoop(cp, "FAILED")
  /\ UNCHANGED <<sendQ, finished, drained, recvVars, workVars, mainVars,
                 decodeQVars, producerDone, wire>>

Send ==
  /\ mpc # "raised"
  /\ GetResult \/ GetFinished \/ SendStopped \/ ReplySent \/ ReplyFailed

-----------------------------------------------------------------------------
(* handle_connection: await recv_task, one sentinel per worker, then the    *)
(* joins.  It ends "closed" or "raised"; an exception out of it ends the    *)
(* event loop and cancels every other task.                                 *)

RecvTaskOver ==
  /\ mpc = "recv"
  /\ rpc \in {"done", "raised"}
  /\ IF rpc = "raised" THEN FailAndSignal ELSE UNCHANGED <<stop, lifecycle>>
  /\ producerDone' = TRUE
  /\ mpc' = "puts"
  /\ UNCHANGED <<puts, recvVars, workVars, sendVars, decodeQVars, sendQVars, cp,
                 wire>>

(* One sentinel for each worker task.  Mutant: one short. *)
OneSentinelShort == Cardinality(Workers) - 1
Sentinels == Cardinality(Workers)

PutSentinel ==
  /\ mpc = "puts"
  /\ Room(decodeQ)
  /\ decodeQ' = Append(decodeQ, None)
  /\ decodeUndone' = decodeUndone + 1
  /\ puts' = puts + 1
  /\ mpc' = IF puts' = Sentinels THEN "join" ELSE "puts"
  /\ UNCHANGED <<recvVars, workVars, sendVars, sendQVars, events, session, wire>>

DecodeJoined ==
  /\ mpc = "join"
  /\ decodeUndone = 0
  /\ mpc' = IF rpc = "raised" THEN "raised" ELSE "gather"
  /\ UNCHANGED <<puts, recvVars, workVars, sendVars, decodeQVars, sendQVars,
                 events, session, wire>>

WorkersGathered ==
  /\ mpc = "gather"
  /\ \A w \in Workers : wpc[w] = "exit"
  /\ mpc' = "sendJoin"
  /\ UNCHANGED <<puts, recvVars, workVars, sendVars, decodeQVars, sendQVars,
                 events, session, wire>>

SendJoined ==
  /\ mpc = "sendJoin"
  /\ sendUndone = 0
  /\ mpc' = "awaitSend"
  /\ UNCHANGED <<puts, recvVars, workVars, sendVars, decodeQVars, sendQVars,
                 events, session, wire>>

(* on_shutdown, and the lifecycle ends TERMINATED if the session did. *)
Closed ==
  /\ mpc = "awaitSend"
  /\ \/ /\ spc = "raised"
        /\ mpc' = "raised"
        /\ UNCHANGED <<stop, session>>
     \/ /\ spc = "done"
        /\ mpc' = "closed"
        /\ stop' = TRUE
        /\ cp' = OnShutdown(cp)
        /\ lifecycle' = IF cp'.state = "TERMINATED"
                        THEN Transition(lifecycle, "TERMINATED") ELSE lifecycle
  /\ UNCHANGED <<puts, recvVars, workVars, sendVars, decodeQVars, sendQVars,
                 producerDone, wire>>

Main == RecvTaskOver \/ PutSentinel \/ DecodeJoined \/ WorkersGathered
        \/ SendJoined \/ Closed

Next == Recv \/ (\E w \in Workers : Work(w)) \/ Send \/ Main

Spec == Init /\ [][Next]_vars

(* The event loop runs every ready task, and its threads return: a decode   *)
(* within args.decode_timeout, recv and send within the socket timeout.     *)
Fairness ==
  /\ WF_vars(Recv) /\ WF_vars(Send) /\ WF_vars(Main)
  /\ \A w \in Workers : WF_vars(Work(w))

FairSpec == Spec /\ Fairness

-----------------------------------------------------------------------------
Items == Frames \union {None}
Results == [frame : Frames, ok : BOOLEAN]

(* Every variable keeps its type. *)
TypeOK ==
  /\ rpc \in {"recv", "control", "deny", "ack", "put", "closing", "raising",
              "done", "raised"}
  /\ job \in 0..MaxFrame
  /\ wpc \in [Workers -> Holding \union {"get", "putNone", "exit"}]
  /\ wjob \in [Workers -> Items]
  /\ spc \in {"get", "send", "done", "raised"}
  /\ item \in Results \union {None}
  /\ finished \in Nat
  /\ mpc \in {"recv", "puts", "join", "gather", "sendJoin", "awaitSend",
              "closed", "raised"}
  /\ puts \in Nat
  /\ decodeQ \in Seq(Items) /\ decodeUndone \in Nat
  /\ sendQ \in Seq(Results \union {None}) /\ sendUndone \in Nat
  /\ stop \in BOOLEAN /\ producerDone \in BOOLEAN
  /\ cp \in [state : States, pending : SUBSET Frames]
  /\ lifecycle \in States
  /\ acked \subseteq Frames /\ answered \subseteq Frames
  /\ eofSent \in BOOLEAN /\ drained \in BOOLEAN

(* Neither queue ever holds more than its maxsize. *)
QueuesBounded == Len(decodeQ) <= QueueBound /\ Len(sendQ) <= QueueBound

(* Where an acknowledged frame is while it is not answered. *)
InDecodeQueue(f) == \E i \in DOMAIN decodeQ : decodeQ[i] = f
InSendQueue(f) ==
  \E i \in DOMAIN sendQ : sendQ[i] # None /\ sendQ[i].frame = f
InPipeline(f) ==
  \/ rpc = "put" /\ job = f
  \/ InDecodeQueue(f)
  \/ \E w \in Workers : wjob[w] = f
  \/ InSendQueue(f)
  \/ item # None /\ item.frame = f

(* An ACK is a promise: until something stops the session, a frame that    *)
(* was acknowledged is somewhere in the pipeline or has been answered.     *)
(* The ACK leaves before the job is queued, so this rests on every task    *)
(* handing the job on before it looks at stop_event.                       *)
NoAckedFrameLost ==
  ~stop => \A f \in acked : f \in answered \/ InPipeline(f)

(* task_done() is called exactly once for every item taken from the decode *)
(* queue, drained ones included: its count is what is queued and what the  *)
(* workers hold, never negative (task_done would raise ValueError).        *)
DecodeQueueBalanced ==
  decodeUndone
    = Len(decodeQ) + Cardinality({w \in Workers : wpc[w] \in Holding})

(* The same count for send_queue.  A sender that died in on_error never    *)
(* calls task_done for the result it had taken.                            *)
SendQueueBalanced ==
  sendUndone = Len(sendQ) + (IF item # None THEN 1 ELSE 0)

(* The server implements FrameService: a frame is answered once, after its *)
(* ACK, and when the sender has seen every worker out without a stop, all  *)
(* that was acknowledged has been answered.                                *)
Service == INSTANCE FrameService WITH
  accepted <- acked,
  mode <- IF drained THEN "closed" ELSE IF stop THEN "broken" ELSE "serving"

ImplementsService == Service!Spec

(* Without a stop the bounded queues and the sentinels cannot deadlock:    *)
(* once reception is over, handle_connection ends or something stops it.   *)
OrderlyEnd ==
  (rpc = "done" /\ ~stop) ~> (stop \/ mpc \in {"closed", "raised"})

(* Violated: handle_connection ends once reception is over, stop or not.   *)
(* _drain_queue says it exists so that join() does not hang on shutdown.   *)
SessionEnds == (rpc = "done") ~> (mpc \in {"closed", "raised"})
=============================================================================
