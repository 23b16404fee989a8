--------------------------- MODULE ClientPipeline ---------------------------
(***************************************************************************)
(* One client session: the asyncio tasks run_client of                     *)
(* nodes/stream_client.py creates (capture_stage, one encode_worker per    *)
(* worker, network_sender, reply_consumer), the bookkeeping they share     *)
(* (inflight, acks_pending, ack_deadlines, stop_event, the session         *)
(* tracker) and the ReplyPump thread that feeds reply_queue.               *)
(*                                                                         *)
(* An action is what one task does between two awaits that suspend it.  As *)
(* in ServerPipeline, a task waiting on a queue may still take an item     *)
(* after stop_event is set, because the item and the event may both have   *)
(* come while it waited.                                                   *)
(*                                                                         *)
(* The server is the environment: it acknowledges frames in the order they *)
(* come, answers each once after its ACK, answers EOF with EOF or by       *)
(* closing, and misbehaves only as Faults says.  Time is left out: a       *)
(* deadline that is armed, or a heartbeat window, may run out whenever     *)
(* Faults has "timeout" or "heartbeat".                                    *)
(***************************************************************************)
EXTENDS Integers, Sequences, FiniteSets, SessionState, Telemetry

CONSTANTS
  Workers,       \* args.encode_workers worker ids
  MaxFrame,      \* the capture source yields at most this many frames
  CaptureBound,  \* maxsize of capture_queue
  MaxInflight,   \* args.max_inflight: maxsize of network_queue, window bound
  Limits,        \* what the adaptive window may choose
  MaxStrikes,    \* max_timeout_strikes
  Faults,        \* what may go wrong
  None           \* the sentinel of both queues; on the wire, MSG_EOF

Frames == 0..(MaxFrame - 1)

FaultKinds == {"encode", "emit", "send", "timeout", "heartbeat", "closed",
               "garbled", "refused", "earlyEof"}

ASSUME WorkersAssumption == IsFiniteSet(Workers) /\ Workers # {}
ASSUME BoundsAssumption ==
  /\ MaxFrame \in Nat
  /\ {CaptureBound, MaxInflight, MaxStrikes} \subseteq Nat \ {0}
ASSUME LimitsAssumption == MaxInflight \in Limits /\ Limits \subseteq 1..MaxInflight
ASSUME FaultsAssumption == Faults \subseteq FaultKinds
ASSUME NoneAssumption == None \notin Frames

VARIABLES
  cpc, captured, signalled, \* capture_stage: place, frames seen, sentinels put
  captureQ, captureNones,   \* capture_queue: its frames, its sentinels
  epc, eframe,       \* where each encode_worker is, and its frame
  networkQ,          \* network_queue
  npc, item, finished, started, \* network_sender: place, frame,
  sent,              \*   encode_finished, streaming_started, frames sent
  inflight, acksPending, armed, \* inflight, acks_pending, ack_deadlines
  limit,             \* window.limit()
  rpc, reorder, next, strikes, \* reply_consumer: place, reorder_buffer,
  flushThen, flushed, \*  next_sequence, timeout_strikes; where a final
                     \*   flush ends, what it has published that reorder
                     \*   still holds (positions in published)
  replyQ, pumpOver,  \* reply_queue; ReplyPump has returned
  stop, mpc, report, \* stop_event; where run_client is, the file it writes
  cp, lifecycle, health, \* ControlPlane, StreamStateMachine, SessionTracker
  wire, owed, eofSeen, \* the server: unread, ACKed but unanswered, read EOF
  published,         \* frames handed to playback, in that order
  ackSeen, early, eofSent, \* history: ACKs consumed, replies to frames not
                           \* yet in flight, MSG_EOF put on the wire,
  replayed, unread         \* positions of published a flush that failed had
                           \* published, replies that could not be parsed

captureVars == <<cpc, captured, signalled>>
captureQVars == <<captureQ, captureNones>>
encodeVars == <<epc, eframe>>
senderLog == <<finished, started, sent>>
sendVars == <<npc, item, senderLog>>
books == <<inflight, acksPending, armed>>
playVars == <<published, flushed, replayed, unread>>
consumeVars == <<rpc, reorder, next, strikes, flushThen, playVars>>
session == <<cp, lifecycle, health>>
server == <<wire, owed, eofSeen>>
pump == <<replyQ, pumpOver>>
main == <<mpc, report>>
history == <<ackSeen, early>>
vars == <<captureVars, captureQVars, encodeVars, networkQ, sendVars, books,
          limit, consumeVars, session, server, pump, stop, main, history,
          eofSent>>

Init ==
  /\ cpc = "capture" /\ captured = 0 /\ signalled = 0
  /\ captureQ = {} /\ captureNones = 0
  /\ epc = [w \in Workers |-> "get"] /\ eframe = [w \in Workers |-> None]
  /\ networkQ = <<>>
  /\ npc = "get" /\ item = None /\ finished = 0 /\ started = FALSE
  /\ sent = {}
  /\ inflight = {} /\ acksPending = {} /\ armed = {}
  /\ limit \in Limits
  /\ rpc = "wait" /\ reorder = {} /\ next = 0 /\ strikes = 0
  /\ flushThen = "done" /\ published = <<>>
  /\ flushed = {} /\ replayed = {} /\ unread = {}
  /\ replyQ = <<>> /\ pumpOver = FALSE
  /\ stop = FALSE /\ mpc = "run" /\ report = NoReport
  /\ cp = OnConnected(NewPlane) /\ lifecycle = "HANDSHAKING" /\ health = "OK"
  /\ wire = <<>> /\ owed = {} /\ eofSeen = FALSE
  /\ ackSeen = {} /\ early = {} /\ eofSent = FALSE

FailAndSignal ==
  /\ lifecycle' = "FAILED"
  /\ stop' = TRUE

(* SessionTracker.transition: CLOSING is final, DEGRADED only closes. *)
Tracked(from, target) ==
  IF \/ from = "CLOSING"
     \/ from = "DEGRADED" /\ target \in {"OK", "SOFT_DEGRADED"}
  THEN from ELSE target

-----------------------------------------------------------------------------
(* capture_stage.  It is suspended at "capture" (waiting for new frames),   *)
(* "put" (capture_queue is full) or "signal" (its finally block, one        *)
(* sentinel per worker), and ends at "done".                                *)

CaptureRoom == Cardinality(captureQ) + captureNones < CaptureBound

(* A frame takes the next sequence number whether or not it is queued. *)
CaptureFrame ==
  /\ cpc = "capture"
  /\ ~stop
  /\ captured < MaxFrame
  /\ captured' = captured + 1
  /\ IF CaptureRoom
     THEN captureQ' = captureQ \union {captured} /\ UNCHANGED cpc
     ELSE cpc' = "put" /\ UNCHANGED captureQ
  /\ UNCHANGED <<signalled, captureNones, encodeVars, networkQ, sendVars, books,
                 limit, consumeVars, session, server, pump, stop, main, history,
                 eofSent>>

FramePut ==
  /\ cpc = "put"
  /\ \/ CaptureRoom /\ captureQ' = captureQ \union {captured - 1}
     \/ stop /\ UNCHANGED captureQ
  /\ cpc' = "capture"
  /\ UNCHANGED <<captured, signalled, captureNones, encodeVars, networkQ,
                 sendVars, books, limit, consumeVars, session, server, pump,
                 stop, main, history, eofSent>>

(* stop_event, or the bag and its saver are done and nothing comes. *)
CaptureOver ==
  /\ cpc = "capture"
  /\ cpc' = "signal"
  /\ UNCHANGED <<captured, signalled, captureQVars, encodeVars, networkQ,
                 sendVars, books, limit, consumeVars, session, server, pump,
                 stop, main, history, eofSent>>

(* _signal_capture_stop waits for room without looking at stop_event. *)
SignalStop ==
  /\ cpc = "signal"
  /\ CaptureRoom
  /\ captureNones' = captureNones + 1
  /\ signalled' = signalled + 1
  /\ cpc' = IF signalled' = Cardinality(Workers) THEN "done" ELSE "signal"
  /\ UNCHANGED <<captured, captureQ, encodeVars, networkQ, sendVars, books,
                 limit, consumeVars, session, server, pump, stop, main, history,
                 eofSent>>

Capture ==
  /\ mpc \in {"run", "cancelling"}
  /\ CaptureFrame \/ FramePut \/ CaptureOver \/ SignalStop

-----------------------------------------------------------------------------
(* encode_worker.  It is suspended at "get", "encode", "put" (network_queue *)
(* is full) or "putNone" (so is it for the sentinel), and ends at "exit".   *)

NetworkRoom == Len(networkQ) < MaxInflight

(* Frames leave capture_queue by mtime, in no fixed order of sequence. *)
GetFrame(w) ==
  /\ epc[w] = "get"
  /\ \E f \in captureQ :
       /\ captureQ' = captureQ \ {f}
       /\ eframe' = [eframe EXCEPT ![w] = f]
  /\ epc' = [epc EXCEPT ![w] = "encode"]
  /\ UNCHANGED <<captureVars, captureNones, networkQ, sendVars, books, limit,
                 consumeVars, session, server, pump, stop, main, history, eofSent>>

(* A sentinel has priority inf: it comes after every frame.  It is passed   *)
(* on to the sender without looking at stop_event.  Mutant: it is not.      *)
GetNoneKeepsIt(w) ==
  /\ epc[w] = "get"
  /\ captureQ = {} /\ captureNones > 0
  /\ captureNones' = captureNones - 1
  /\ epc' = [epc EXCEPT ![w] = "exit"]
  /\ UNCHANGED <<captureVars, captureQ, eframe, networkQ, sendVars, books, limit,
                 consumeVars, session, server, pump, stop, main, history, eofSent>>

GetNone(w) ==
  /\ epc[w] = "get"
  /\ captureQ = {} /\ captureNones > 0
  /\ captureNones' = captureNones - 1
  /\ IF NetworkRoom
     THEN networkQ' = Append(networkQ, None) /\ epc' = [epc EXCEPT ![w] = "exit"]
     ELSE UNCHANGED networkQ /\ epc' = [epc EXCEPT ![w] = "putNone"]
  /\ UNCHANGED <<captureVars, captureQ, eframe, sendVars, books, limit,
                 consumeVars, session, server, pump, stop, main, history, eofSent>>

NonePut(w) ==
  /\ epc[w] = "putNone"
  /\ NetworkRoom
  /\ networkQ' = Append(networkQ, None)
  /\ epc' = [epc EXCEPT ![w] = "exit"]
  /\ UNCHANGED <<captureVars, captureQVars, eframe, sendVars, books, limit,
                 consumeVars, session, server, pump, stop, main, history, eofSent>>

GetStopped(w) ==
  /\ epc[w] = "get"
  /\ stop
  /\ epc' = [epc EXCEPT ![w] = "exit"]
  /\ UNCHANGED <<captureVars, captureQVars, eframe, networkQ, sendVars, books,
                 limit, consumeVars, session, server, pump, stop, main, history,
                 eofSent>>

(* The frame is in network_queue, or given up because of stop_event. *)
Forwarded(w) ==
  /\ networkQ' = Append(networkQ, eframe[w])
  /\ eframe' = [eframe EXCEPT ![w] = None]
  /\ epc' = [epc EXCEPT ![w] = IF stop THEN "exit" ELSE "get"]

GivenUp(w) ==
  /\ stop
  /\ eframe' = [eframe EXCEPT ![w] = None]
  /\ epc' = [epc EXCEPT ![w] = "exit"]
  /\ UNCHANGED networkQ

Encoded(w) ==
  /\ epc[w] = "encode"
  /\ \/ GivenUp(w)
     \/ ~stop /\ NetworkRoom /\ Forwarded(w)
     \/ /\ ~stop /\ ~NetworkRoom
        /\ epc' = [epc EXCEPT ![w] = "put"]
        /\ UNCHANGED <<eframe, networkQ>>
  /\ UNCHANGED <<captureVars, captureQVars, sendVars, books, limit, consumeVars,
                 session, server, pump, stop, main, history, eofSent>>

FrameForwarded(w) ==
  /\ epc[w] = "put"
  /\ GivenUp(w) \/ (NetworkRoom /\ Forwarded(w))
  /\ UNCHANGED <<captureVars, captureQVars, sendVars, books, limit, consumeVars,
                 session, server, pump, stop, main, history, eofSent>>

(* The local_skip event and stop_event reach the consumer together, and it  *)
(* looks at stop_event first: the event is never handled.                   *)
EncodeFailed(w) ==
  /\ epc[w] = "encode"
  /\ "encode" \in Faults
  /\ stop' = TRUE
  /\ eframe' = [eframe EXCEPT ![w] = None]
  /\ epc' = [epc EXCEPT ![w] = "exit"]
  /\ UNCHANGED <<captureVars, captureQVars, networkQ, sendVars, books, limit,
                 consumeVars, session, server, pump, main, history, eofSent>>

Encode(w) ==
  /\ mpc = "run"
  /\ \/ GetFrame(w) \/ GetNone(w) \/ NonePut(w) \/ GetStopped(w)
     \/ Encoded(w) \/ FrameForwarded(w) \/ EncodeFailed(w)

-----------------------------------------------------------------------------
(* network_sender.  It is suspended at "get", "window" (waiting for a slot),*)
(* "send" (protocol.send in its thread), "sent" (the frame is out and the   *)
(* coroutine has not resumed), "drain" (waiting for the last replies),      *)
(* "sendEof" and "eofOut" (likewise for MSG_EOF), or for ever at "stuck"    *)
(* (holding inflight_condition); it ends "done" or "raised".                *)

LockFree == npc # "stuck"

SenderTurn == npc' = IF stop' THEN "done" ELSE "get"

(* The first frame moves the lifecycle to STREAMING.                        *)
SenderGetFrame ==
  /\ npc = "get"
  /\ networkQ # <<>> /\ Head(networkQ) # None
  /\ networkQ' = Tail(networkQ)
  /\ item' = Head(networkQ)
  /\ started' = TRUE
  /\ IF ~started /\ TransitionRaises(lifecycle, "STREAMING")
     THEN npc' = "raised" /\ UNCHANGED lifecycle
     ELSE /\ npc' = "window"
          /\ lifecycle' = IF started THEN lifecycle
                          ELSE Transition(lifecycle, "STREAMING")
  /\ UNCHANGED <<finished, sent, captureVars, captureQVars, encodeVars, books, limit,
                 consumeVars, cp, health, server, pump, stop, main, history,
                 eofSent>>

(* One sentinel has come from each worker.  Mutant: one is enough. *)
AnyFinished(n) == n >= 1
AllFinished(n) == n >= Cardinality(Workers)

SenderGetNone ==
  /\ npc = "get"
  /\ networkQ # <<>> /\ Head(networkQ) = None
  /\ networkQ' = Tail(networkQ)
  /\ finished' = finished + 1
  /\ IF AllFinished(finished')
     THEN npc' = "drain"
     ELSE npc' = IF stop THEN "done" ELSE "get"
  /\ UNCHANGED <<item, started, sent, captureVars, captureQVars, encodeVars, books, limit,
                 consumeVars, session, server, pump, stop, main, history, eofSent>>

SenderStopped ==
  /\ npc = "get"
  /\ stop
  /\ npc' = "done"
  /\ UNCHANGED <<item, senderLog, networkQ, captureVars, captureQVars, encodeVars,
                 books, limit, consumeVars, session, server, pump, stop, main,
                 history, eofSent>>

(* Either wait of the sender gives up on a silent server.  It holds         *)
(* inflight_condition, and _fail_and_signal asks for it a second time: the  *)
(* lock is not reentrant, and from here on nobody gets it.                  *)
SenderHeartbeat ==
  /\ npc \in {"window", "drain"}
  /\ "heartbeat" \in Faults
  /\ ~stop
  /\ health' = Tracked(health, "DEGRADED")
  /\ FailAndSignal
  /\ npc' = "stuck"
  /\ UNCHANGED <<item, senderLog, networkQ, captureVars, captureQVars, encodeVars,
                 books, limit, consumeVars, cp, server, pump, main, history,
                 eofSent>>

(* A slot is free.  Mutant: the bound is off by one. *)
RoomForOneMore == Cardinality(acksPending) <= limit
WindowOpen == Cardinality(acksPending) < limit

(* The wait ends with a slot or with stop_event, and the frame goes out in  *)
(* both cases unless the session is DEGRADED.                               *)
Admitted ==
  /\ npc = "window"
  /\ WindowOpen \/ stop
  /\ \/ /\ health = "DEGRADED"
        /\ FailAndSignal
        /\ npc' = "done" /\ item' = None
        /\ UNCHANGED cp
     \/ /\ health # "DEGRADED"
        /\ UNCHANGED <<lifecycle, stop>>
        /\ IF OnFrameSentRaises(cp)
           THEN npc' = "raised" /\ UNCHANGED <<cp, item>>
           ELSE npc' = "send" /\ cp' = OnFrameSent(cp, item) /\ UNCHANGED item
  /\ UNCHANGED <<senderLog, networkQ, captureVars, captureQVars, encodeVars,
                 books, limit, consumeVars, health, server, pump, main, history,
                 eofSent>>

(* The frame is on the wire: the server may answer from now on. *)
FrameOut ==
  /\ npc = "send"
  /\ wire' = Append(wire, item)
  /\ npc' = "sent"
  /\ UNCHANGED <<item, senderLog, networkQ, captureVars, captureQVars, encodeVars,
                 books, limit, consumeVars, session, owed, eofSeen, pump, stop,
                 main, history, eofSent>>

SendFailed ==
  /\ npc \in {"send", "sendEof"}
  /\ "send" \in Faults
  /\ FailAndSignal
  /\ npc' = "done" /\ item' = None
  /\ UNCHANGED <<senderLog, networkQ, captureVars, captureQVars, encodeVars,
                 books, limit, consumeVars, cp, health, server, pump, main,
                 history, eofSent>>

(* Only now is the frame in flight. *)
Registered ==
  /\ npc = "sent"
  /\ inflight' = inflight \union {item}
  /\ acksPending' = acksPending \union {item}
  /\ armed' = armed \union {item}
  /\ item' = None
  /\ sent' = sent \union {item}
  /\ UNCHANGED <<finished, started, networkQ, captureVars, captureQVars, encodeVars,
                 limit, consumeVars, session, server, pump, stop, main, history,
                 eofSent>>
  /\ SenderTurn

(* After the last sentinel: EOF once nothing is in flight.                  *)
NothingInFlight == inflight = {} /\ acksPending = {}

(* The wait ends with stop_event too.  Mutant: it does not.                 *)
DrainDeaf == NothingInFlight
DrainOver == NothingInFlight \/ stop

DrainWaited ==
  /\ npc = "drain"
  /\ DrainOver
  /\ npc' = IF health \in {"OK", "SOFT_DEGRADED"} /\ NothingInFlight /\ ~stop
            THEN "sendEof"
            ELSE IF stop THEN "done" ELSE "get"
  /\ UNCHANGED <<item, senderLog, networkQ, captureVars, captureQVars, encodeVars,
                 books, limit, consumeVars, session, server, pump, stop, main,
                 history, eofSent>>

EofOut ==
  /\ npc = "sendEof"
  /\ wire' = Append(wire, None)
  /\ eofSent' = TRUE
  /\ npc' = "eofOut"
  /\ UNCHANGED <<item, senderLog, networkQ, captureVars, captureQVars, encodeVars,
                 books, limit, consumeVars, session, owed, eofSeen, pump, stop,
                 main, history>>

(* The session closes.  on_eof_sent raises if no frame was ever sent, or if *)
(* the server's EOF has already ended the session; any exception is a       *)
(* failure to send EOF.  Otherwise the sender waits for stop_event: every   *)
(* turn that would end its loop on drain_deadline first goes back to the    *)
(* queue.                                                                   *)
EofRecorded ==
  /\ npc = "eofOut"
  /\ health' = Tracked(health, "CLOSING")
  /\ cp' = IF OnEofSentRaises(cp) THEN cp ELSE OnEofSent(cp)
  /\ IF OnEofSentRaises(cp) \/ TransitionRaises(lifecycle, "DRAINING")
     THEN FailAndSignal
     ELSE lifecycle' = Transition(lifecycle, "DRAINING") /\ UNCHANGED stop
  /\ SenderTurn
  /\ UNCHANGED <<item, senderLog, networkQ, captureVars, captureQVars, encodeVars,
                 books, limit, consumeVars, server, pump, main, history, eofSent>>

Send ==
  /\ mpc = "run"
  /\ \/ SenderGetFrame \/ SenderGetNone \/ SenderStopped \/ SenderHeartbeat
     \/ Admitted \/ FrameOut \/ SendFailed \/ Registered
     \/ DrainWaited \/ EofOut \/ EofRecorded

-----------------------------------------------------------------------------
(* reply_consumer.  It is suspended at "wait" (for an event, a deadline, a  *)
(* heartbeat tick or stop_event), "emit" (publishing what drain_ready       *)
(* found) or "flush" (publishing what drain_ready(force=True) found), or    *)
(* for ever at "blocked" (inflight_condition is held), and ends at "done"   *)
(* or "raised".  stop_event goes first when several are ready; it may still *)
(* come while another one is being chosen.                                  *)
(*                                                                          *)
(* on_error, on_first_data and on_frame_sent raise in a session that has    *)
(* ended.  By then the consumer has left its loop (EndedIsNotServed), so    *)
(* the handlers leave that out, but for the calls after the last strike.    *)

ConsumerTurn == rpc' = IF stop' THEN "done" ELSE "wait"

(* The except blocks: degrade and flush; Flushed clears and fails.  A frame *)
(* that had been popped is lost, and what the loop over the rest of         *)
(* reorder_buffer had published is published again: it is still there.      *)
ConsumerRaises ==
  /\ health' = Tracked(health, "DEGRADED")
  /\ rpc' = "flush" /\ flushThen' = "raised"
  /\ reorder' = reorder \ {next}
  /\ replayed' = replayed \union flushed /\ flushed' = {}

Event(kind, f) == [kind |-> kind, seq |-> f]

NextIs(kind) == rpc = "wait" /\ replyQ # <<>> /\ Head(replyQ).kind = kind

ConsumerStopped ==
  /\ rpc = "wait"
  /\ stop
  /\ rpc' = "done"
  /\ UNCHANGED <<captureVars, captureQVars, encodeVars, networkQ, sendVars,
                 books, limit, reorder, next, strikes, flushThen, playVars,
                 session, server, pump, stop, main, history, eofSent>>

(* An ACK: it frees the slot and cancels the deadline.  For a frame that is *)
(* not in flight nothing else happens.  Otherwise the window may adapt, the *)
(* strikes are forgiven, and a refusal by on_ack fails the session.         *)
AckInFlight(f) ==
  /\ cp' = IF OnAckRaises(cp, f) THEN OnError(cp) ELSE OnAck(cp, f)
  /\ IF OnAckRaises(cp, f)
     THEN FailAndSignal
     ELSE /\ lifecycle' = IF cp'.state = "TERMINATED"
                          THEN Transition(lifecycle, "TERMINATED") ELSE lifecycle
          /\ UNCHANGED stop
  /\ limit' \in Limits
  /\ strikes' = 0
  /\ health' = IF health = "SOFT_DEGRADED" THEN "OK" ELSE health

(* Mutant: the slot is not freed. *)
AckKeepsSlot ==
  /\ NextIs("ACK")
  /\ LockFree
  /\ LET f == Head(replyQ).seq IN
       /\ armed' = armed \ {f}
       /\ ackSeen' = ackSeen \union {f}
       /\ f \in inflight /\ AckInFlight(f)
  /\ replyQ' = Tail(replyQ)
  /\ UNCHANGED <<captureVars, captureQVars, encodeVars, networkQ, sendVars,
                 inflight, acksPending, reorder, next, flushThen, playVars,
                 server, pumpOver, main, early, eofSent>>
  /\ ConsumerTurn

AckConsumed ==
  /\ NextIs("ACK")
  /\ LockFree
  /\ LET f == Head(replyQ).seq IN
       /\ armed' = armed \ {f}
       /\ acksPending' = acksPending \ {f}
       /\ ackSeen' = ackSeen \union {f}
       /\ \/ f \in inflight /\ AckInFlight(f) /\ UNCHANGED early
          \/ /\ f \notin inflight
             /\ early' = early \union {f}
             /\ UNCHANGED <<session, limit, stop, strikes>>
  /\ replyQ' = Tail(replyQ)
  /\ UNCHANGED <<captureVars, captureQVars, encodeVars, networkQ, sendVars,
                 inflight, reorder, next, flushThen, playVars, server, pumpOver,
                 main, eofSent>>
  /\ ConsumerTurn

HeartbeatConsumed ==
  /\ NextIs("HEARTBEAT")
  /\ LockFree
  /\ cp' = OnHeartbeat(cp)
  /\ replyQ' = Tail(replyQ)
  /\ UNCHANGED <<captureVars, captureQVars, encodeVars, networkQ, sendVars,
                 books, limit, reorder, next, strikes, flushThen, playVars,
                 lifecycle, health, server, pumpOver, stop, main, history, eofSent>>
  /\ ConsumerTurn

(* "closed" or "error" from the pump. *)
PumpEnded ==
  /\ NextIs("CLOSED")
  /\ LockFree
  /\ cp' = OnError(cp)
  /\ FailAndSignal
  /\ health' = Tracked(health, "DEGRADED")
  /\ acksPending' = {}
  /\ rpc' = "done"
  /\ replyQ' = Tail(replyQ)
  /\ UNCHANGED <<captureVars, captureQVars, encodeVars, networkQ, sendVars,
                 inflight, armed, limit, reorder, next, strikes, flushThen,
                 playVars, server, pumpOver, main, history, eofSent>>

(* The lifecycle goes through DRAINING, and on if ControlPlane has ended.   *)
(* Mutant: it goes on regardless.                                           *)
EofTerminates(state) == Transition(lifecycle, "TERMINATED")
EofLifecycle(state) ==
  Transition(lifecycle, IF state = "TERMINATED" THEN "TERMINATED" ELSE "DRAINING")

(* The server's EOF ends the session whatever is in flight.  Before any     *)
(* frame it is an error.                                                    *)
EofPlane == IF OnEofReceivedRaises(cp) THEN OnError(cp) ELSE OnEofReceived(cp)

EofConsumed ==
  /\ NextIs("EOF")
  /\ LockFree
  /\ cp' = EofPlane
  /\ lifecycle' = EofLifecycle(cp'.state)
  /\ health' = Tracked(health, "CLOSING")
  /\ stop' = TRUE
  /\ acksPending' = {}
  /\ rpc' = "flush" /\ flushThen' = "done"
  /\ replyQ' = Tail(replyQ)
  /\ UNCHANGED <<captureVars, captureQVars, encodeVars, networkQ, sendVars,
                 inflight, armed, limit, reorder, next, strikes, playVars,
                 server, pumpOver, main, history, eofSent>>

(* A reply takes its frame out of flight.  Mutant: its ACK stays awaited.   *)
PopKeepsAck(f) == inflight' = inflight \ {f} /\ UNCHANGED acksPending

Pop(f) ==
  /\ inflight' = inflight \ {f}
  /\ acksPending' = acksPending \ {f}

(* A reply for a frame that is not in flight is only logged. *)
UnknownReply ==
  /\ NextIs("DATA") \/ NextIs("ERROR")
  /\ LockFree
  /\ LET f == Head(replyQ).seq IN
       /\ f \notin inflight
       /\ acksPending' = acksPending \ {f}
       /\ early' = early \union {f}
  /\ replyQ' = Tail(replyQ)
  /\ UNCHANGED <<captureVars, captureQVars, encodeVars, networkQ, sendVars,
                 inflight, armed, limit, reorder, next, strikes, flushThen,
                 playVars, session, server, pumpOver, stop, main, ackSeen,
                 eofSent>>
  /\ ConsumerTurn

(* ERROR for a frame in flight ends the session; what waits is flushed.     *)
(* skipped_sequences holds this one frame: the flush steps over it.         *)
ErrorConsumed ==
  /\ NextIs("ERROR")
  /\ LockFree
  /\ Head(replyQ).seq \in inflight
  /\ Pop(Head(replyQ).seq)
  /\ next' = IF Head(replyQ).seq = next THEN next + 1 ELSE next
  /\ cp' = OnError(cp)
  /\ FailAndSignal
  /\ health' = Tracked(health, "DEGRADED")
  /\ rpc' = "flush" /\ flushThen' = "done"
  /\ replyQ' = Tail(replyQ)
  /\ UNCHANGED <<captureVars, captureQVars, encodeVars, networkQ, sendVars,
                 armed, limit, reorder, strikes, playVars, server,
                 pumpOver, main, history, eofSent>>

(* A decoded frame: publish what is now ready.  A reply that cannot be      *)
(* parsed is dropped and its sequence stays due.                            *)
DataConsumed ==
  /\ NextIs("DATA")
  /\ LockFree
  /\ LET f == Head(replyQ).seq IN
       /\ f \in inflight
       /\ Pop(f)
       /\ \/ /\ "garbled" \in Faults
             /\ unread' = unread \union {f}
             /\ UNCHANGED <<session, stop, flushThen, reorder>>
             /\ ConsumerTurn
          \/ /\ cp' = OnFirstData(cp)
             /\ reorder' = IF f < next THEN reorder ELSE reorder \union {f}
             /\ rpc' = "emit"
             /\ UNCHANGED <<lifecycle, health, stop, flushThen, unread>>
  /\ replyQ' = Tail(replyQ)
  /\ UNCHANGED <<captureVars, captureQVars, encodeVars, networkQ, sendVars,
                 armed, limit, next, strikes, published, flushed, replayed,
                 server, pumpOver, main, history, eofSent>>

(* drain_ready: the next sequence, as long as it is there.                  *)
Emitted ==
  /\ rpc = "emit"
  /\ next \in reorder
  /\ published' = Append(published, next)
  /\ reorder' = reorder \ {next}
  /\ next' = next + 1
  /\ UNCHANGED <<rpc, strikes, flushThen, flushed, replayed, unread, captureVars,
                 captureQVars, encodeVars, networkQ, sendVars, books, limit,
                 session, server, pump, stop, main, history, eofSent>>

NothingReady ==
  /\ rpc = "emit"
  /\ next \notin reorder
  /\ rpc' = IF stop THEN "done" ELSE "wait"
  /\ UNCHANGED <<reorder, next, strikes, flushThen, playVars, captureVars,
                 captureQVars, encodeVars, networkQ, sendVars, books, limit,
                 session, server, pump, stop, main, history, eofSent>>

(* emit_result raises, in the loop or in the flush of an EOF or an ERROR;   *)
(* or in the flush of an except block, where nothing catches it.            *)
EmitFailed ==
  /\ "emit" \in Faults
  /\ \/ rpc = "emit" /\ next \in reorder
     \/ rpc = "flush" /\ flushThen = "done" /\ reorder # {}
  /\ ConsumerRaises
  /\ UNCHANGED <<cp, lifecycle, stop, next, strikes, published, unread,
                 captureVars, captureQVars, encodeVars, networkQ, sendVars, books,
                 limit, server, pump, main, history, eofSent>>

FlushFailed ==
  /\ "emit" \in Faults
  /\ rpc = "flush" /\ flushThen = "raised" /\ reorder # {}
  /\ rpc' = "raised"
  /\ UNCHANGED <<reorder, next, strikes, flushThen, playVars, captureVars,
                 captureQVars, encodeVars, networkQ, sendVars, books, limit,
                 session, server, pump, stop, main, history, eofSent>>

(* drain_ready(force=True): the next sequence, as long as it is there, then *)
(* the rest in order, which stays in reorder_buffer until all is published. *)
(* Mutant: in the order of the buffer.                                      *)
Shown(positions) == {published[i] : i \in positions}
Unshown == reorder \ Shown(flushed)

UnsortedNext == Unshown
FlushNext == {f \in Unshown : \A g \in Unshown : f <= g}

FlushEmitted ==
  /\ rpc = "flush"
  /\ \E f \in FlushNext :
       /\ published' = Append(published, f)
       /\ \/ /\ f = next
             /\ next' = next + 1
             /\ reorder' = reorder \ {f}
             /\ UNCHANGED flushed
          \/ /\ f # next
             /\ UNCHANGED next
             /\ IF reorder = Shown(flushed) \union {f}
                THEN reorder' = {} /\ flushed' = {}
                ELSE flushed' = flushed \union {Len(published')} /\ UNCHANGED reorder
  /\ UNCHANGED <<rpc, strikes, flushThen, replayed, unread, captureVars,
                 captureQVars, encodeVars, networkQ, sendVars, books, limit,
                 session, server, pump, stop, main, history, eofSent>>

Flushed ==
  /\ rpc = "flush"
  /\ reorder = {}
  /\ rpc' = flushThen
  /\ \/ flushThen = "done" /\ UNCHANGED <<acksPending, lifecycle, stop>>
     \/ flushThen = "raised" /\ LockFree /\ acksPending' = {} /\ FailAndSignal
  /\ UNCHANGED <<reorder, next, strikes, flushThen, playVars, captureVars,
                 captureQVars, encodeVars, networkQ, sendVars, inflight, armed,
                 limit, cp, health, server, pump, main, history, eofSent>>

(* Some armed deadlines have passed: a strike.  Those of frames in flight   *)
(* are armed again and handed to on_frame_sent once more.  After the last   *)
(* strike on_error has been called, so that on_frame_sent raises.           *)
LastStrike(n) == n >= MaxStrikes

Rearmed(late) ==
  [state   |-> IF cp.state = "DRAINING" THEN "DRAINING" ELSE "STREAMING",
   pending |-> cp.pending \union late]

DeadlinePassed ==
  /\ rpc = "wait"
  /\ "timeout" \in Faults
  /\ \E due \in SUBSET armed \ {{}} :
       LET late == due \intersect inflight IN
       /\ strikes' = strikes + 1
       /\ \/ /\ LastStrike(strikes') /\ LockFree
             /\ cp' = OnError(cp)
             /\ health' = Tracked(health, "DEGRADED")
             /\ FailAndSignal
             /\ IF late = {}
                THEN /\ rpc' = "done" /\ UNCHANGED flushThen
                     /\ armed' = armed \ due
                ELSE /\ rpc' = "flush" /\ flushThen' = "raised"
                     /\ \E f \in late : armed' = (armed \ due) \union {f}
          \/ /\ ~LastStrike(strikes')
             /\ cp' = IF late = {} THEN cp ELSE Rearmed(late)
             /\ health' = Tracked(health, "SOFT_DEGRADED")
             /\ armed' = (armed \ due) \union late
             /\ UNCHANGED <<lifecycle, stop, flushThen>>
             /\ ConsumerTurn
  /\ UNCHANGED <<captureVars, captureQVars, encodeVars, networkQ, sendVars,
                 inflight, acksPending, limit, reorder, next, playVars, server,
                 pump, main, history, eofSent>>

(* A heartbeat tick finds that ControlPlane has seen no heartbeat for long, *)
(* or that no event at all has come.                                        *)
HeartbeatMissed ==
  /\ rpc = "wait"
  /\ "heartbeat" \in Faults
  /\ LockFree
  /\ cp' \in {OnError(cp), cp}
  /\ health' = Tracked(health, "DEGRADED")
  /\ FailAndSignal
  /\ rpc' = "done"
  /\ UNCHANGED <<reorder, next, strikes, flushThen, playVars, captureVars,
                 captureQVars, encodeVars, networkQ, sendVars, books, limit,
                 server, pump, main, history, eofSent>>

(* inflight_condition is held for ever: what a handler has done when it     *)
(* asks for it.  stop_event is set and the lifecycle FAILED by then.        *)
ReplyBlocks ==
  /\ replyQ # <<>>
  /\ replyQ' = Tail(replyQ)
  /\ \/ NextIs("ACK") /\ armed' = armed \ {Head(replyQ).seq} /\ UNCHANGED <<cp, health>>
     \/ NextIs("HEARTBEAT") /\ cp' = OnHeartbeat(cp) /\ UNCHANGED <<armed, health>>
     \/ /\ NextIs("CLOSED") /\ cp' = OnError(cp)
        /\ health' = Tracked(health, "DEGRADED") /\ UNCHANGED armed
     \/ /\ NextIs("EOF") /\ cp' = EofPlane
        /\ health' = Tracked(health, "CLOSING") /\ UNCHANGED armed
     \/ (NextIs("DATA") \/ NextIs("ERROR")) /\ UNCHANGED <<armed, cp, health>>
  /\ UNCHANGED strikes

TimerBlocks ==
  /\ health' = Tracked(health, "DEGRADED")
  /\ \/ /\ "timeout" \in Faults
        /\ LastStrike(strikes + 1)
        /\ strikes' = strikes + 1
        /\ cp' = OnError(cp)
        /\ \E due \in SUBSET armed \ {{}} : armed' = armed \ due
     \/ "heartbeat" \in Faults /\ cp' \in {OnError(cp), cp} /\ UNCHANGED <<armed, strikes>>
  /\ UNCHANGED replyQ

ConsumerBlocks ==
  /\ rpc = "wait" /\ ~LockFree
  /\ rpc' = "blocked"
  /\ ReplyBlocks \/ TimerBlocks
  /\ UNCHANGED <<reorder, next, flushThen, playVars, captureVars, captureQVars,
                 encodeVars, networkQ, sendVars, inflight, acksPending, limit,
                 lifecycle, server, pumpOver, stop, main, history, eofSent>>

Consume ==
  /\ mpc = "run" \/ (mpc = "cancelling" /\ rpc = "flush")
  /\ \/ ConsumerStopped \/ AckConsumed \/ HeartbeatConsumed \/ PumpEnded
     \/ EofConsumed \/ UnknownReply \/ ErrorConsumed \/ DataConsumed
     \/ Emitted \/ NothingReady \/ EmitFailed \/ FlushEmitted \/ FlushFailed
     \/ Flushed \/ DeadlinePassed \/ HeartbeatMissed \/ ConsumerBlocks

-----------------------------------------------------------------------------
(* The server and the connection, with ReplyPump putting what it reads into *)
(* reply_queue.  The pump returns after the server's EOF or the end of the  *)
(* connection.                                                              *)

serverUnchanged == <<captureVars, captureQVars, encodeVars, networkQ, sendVars,
                     books, limit, consumeVars, session, stop, main, history,
                     eofSent>>

Arrives(e) == ~pumpOver /\ replyQ' = Append(replyQ, e)

ServerAcks ==
  /\ wire # <<>> /\ Head(wire) # None
  /\ Arrives(Event("ACK", Head(wire)))
  /\ owed' = owed \union {Head(wire)}
  /\ wire' = Tail(wire)
  /\ UNCHANGED <<eofSeen, pumpOver, serverUnchanged>>

ServerAnswers ==
  /\ \E f \in owed :
       /\ owed' = owed \ {f}
       /\ \/ Arrives(Event("DATA", f))
          \/ "refused" \in Faults /\ Arrives(Event("ERROR", f))
  /\ UNCHANGED <<wire, eofSeen, pumpOver, serverUnchanged>>

ServerReadsEof ==
  /\ wire # <<>> /\ Head(wire) = None
  /\ ~pumpOver
  /\ wire' = Tail(wire)
  /\ eofSeen' = TRUE
  /\ UNCHANGED <<owed, pump, serverUnchanged>>

(* A heartbeat; one at a time keeps the queue finite. *)
ServerBeats ==
  /\ \A i \in DOMAIN replyQ : replyQ[i].kind # "HEARTBEAT"
  /\ Arrives(Event("HEARTBEAT", None))
  /\ UNCHANGED <<server, pumpOver, serverUnchanged>>

ServerEnds ==
  /\ \/ eofSeen /\ owed = {} /\ \E kind \in {"EOF", "CLOSED"} :
                                   Arrives(Event(kind, None))
     \/ "earlyEof" \in Faults /\ Arrives(Event("EOF", None))
     \/ "closed" \in Faults /\ Arrives(Event("CLOSED", None))
  /\ pumpOver' = TRUE
  /\ UNCHANGED <<server, serverUnchanged>>

Serve == ServerAcks \/ ServerAnswers \/ ServerReadsEof \/ ServerEnds

-----------------------------------------------------------------------------
(* run_client awaits all tasks.  It ends "finished" when they all end, and  *)
(* "failed" when one raises: the others are cancelled and awaited, and the  *)
(* finally block of a capture_stage that had not ended still runs.          *)

TasksOver ==
  /\ cpc = "done" /\ npc = "done" /\ rpc = "done"
  /\ \A w \in Workers : epc[w] = "exit"

Finished ==
  /\ mpc = "run"
  /\ TasksOver
  /\ mpc' = "finished"
  /\ health' = IF health = "OK" THEN "CLOSING" ELSE health
  /\ stop' = TRUE
  /\ inflight' = {}
  /\ cp' = OnShutdown(cp)
  /\ report' = Report(cp'.state, Cardinality(cp'.pending), Cardinality(inflight),
                       Cardinality(acksPending), Cardinality(sent))
  /\ UNCHANGED <<captureVars, captureQVars, encodeVars, networkQ, sendVars,
                 acksPending, armed, limit, consumeVars, lifecycle, server, pump,
                 history, eofSent>>

(* A task has raised: run_client signals, cancels the others and waits for  *)
(* them.  A consumer cancelled in its try block flushes what it holds, one  *)
(* cancelled in its except block just ends.                                 *)
InTry == rpc \in {"wait", "emit"} \/ (rpc = "flush" /\ flushThen = "done")

TaskRaised ==
  /\ mpc = "run"
  /\ "raised" \in {npc, rpc}
  /\ LockFree
  /\ mpc' = "cancelling"
  /\ FailAndSignal
  /\ cpc' = IF cpc \in {"capture", "put"} THEN "signal" ELSE "done"
  /\ epc' = [w \in Workers |-> "exit"]
  /\ npc' = IF npc = "raised" THEN "raised" ELSE "done"
  /\ \/ InTry /\ ConsumerRaises
     \/ /\ ~InTry
        /\ rpc' = IF rpc = "flush" THEN "raised" ELSE rpc
        /\ UNCHANGED <<health, flushThen, reorder, replayed, flushed>>
  /\ UNCHANGED <<captured, signalled, captureQVars, eframe, networkQ, item,
                 senderLog, books, limit, next, strikes, published, unread, cp,
                 server, pump, report, history, eofSent>>

Failed ==
  /\ mpc = "cancelling"
  /\ cpc = "done" /\ rpc \in {"done", "raised"}
  /\ mpc' = "failed"
  /\ inflight' = {}
  /\ UNCHANGED <<captureVars, captureQVars, encodeVars, networkQ, sendVars,
                 acksPending, armed, limit, consumeVars, session, server, pump,
                 stop, report, history, eofSent>>

Main == Finished \/ TaskRaised \/ Failed

Next == Capture \/ (\E w \in Workers : Encode(w)) \/ Send \/ Consume
        \/ Serve \/ ServerBeats \/ Main

Spec == Init /\ [][Next]_vars

(* The event loop runs every ready task and the threads return; the server  *)
(* reads, answers and ends, but owes nobody a heartbeat, nor an early end.  *)
OrderlyServe == Serve /\ (~pumpOver' \/ (eofSeen /\ owed = {}))

Fairness ==
  /\ WF_vars(Capture) /\ WF_vars(Send) /\ WF_vars(Consume) /\ WF_vars(Main)
  /\ WF_vars(OrderlyServe)
  /\ \A w \in Workers : WF_vars(Encode(w))

FairSpec == Spec /\ Fairness

-----------------------------------------------------------------------------
Kinds == {"ACK", "HEARTBEAT", "DATA", "ERROR", "EOF", "CLOSED"}

(* Every variable keeps its type. *)
TypeOK ==
  /\ cpc \in {"capture", "put", "signal", "done"}
  /\ captured \in 0..MaxFrame /\ signalled \in Nat
  /\ captureQ \subseteq Frames /\ captureNones \in Nat
  /\ epc \in [Workers -> {"get", "encode", "put", "putNone", "exit"}]
  /\ eframe \in [Workers -> Frames \union {None}]
  /\ networkQ \in Seq(Frames \union {None})
  /\ npc \in {"get", "window", "send", "sent", "drain", "sendEof", "eofOut",
              "stuck", "done", "raised"}
  /\ item \in Frames \union {None} /\ finished \in Nat /\ started \in BOOLEAN
  /\ inflight \subseteq Frames /\ acksPending \subseteq Frames
  /\ armed \subseteq Frames
  /\ limit \in Limits
  /\ rpc \in {"wait", "emit", "flush", "blocked", "done", "raised"}
  /\ reorder \subseteq Frames /\ next \in 0..MaxFrame
  /\ strikes \in 0..MaxStrikes /\ flushThen \in {"done", "raised"}
  /\ published \in Seq(Frames) /\ unread \subseteq Frames
  /\ {flushed, replayed} \subseteq SUBSET DOMAIN published
  /\ replyQ \in Seq([kind : Kinds, seq : Frames \union {None}])
  /\ pumpOver \in BOOLEAN /\ stop \in BOOLEAN
  /\ mpc \in {"run", "cancelling", "failed", "finished"}
  /\ cp \in [state : States, pending : SUBSET Frames]
  /\ sent \subseteq Frames
  /\ report \in {NoReport} \union
                [state : States, sent : Nat, acked : Nat, pending : Nat]
  /\ lifecycle \in States
  /\ health \in {"OK", "SOFT_DEGRADED", "DEGRADED", "CLOSING"}
  /\ wire \in Seq(Frames \union {None}) /\ owed \subseteq Frames
  /\ eofSeen \in BOOLEAN
  /\ ackSeen \subseteq Frames /\ early \subseteq Frames /\ eofSent \in BOOLEAN

Queued(kind) == {replyQ[i].seq : i \in {j \in DOMAIN replyQ : replyQ[j].kind = kind}}
Seen == 0..(captured - 1)

(* A frame whose ACK is awaited is in flight and pending at ControlPlane:  *)
(* network_sender and reply_consumer keep three books of one fact, and a   *)
(* reply, an ACK and a lost connection each edit some of them.             *)
AcksAreTracked == mpc = "run" => acksPending \subseteq inflight \intersect cp.pending

(* on_ack never refuses the ACK of a frame in flight, however many strikes *)
(* the frame has cost: the exception path of the ACK handler is dead.      *)
AckNeverRefused == Queued("ACK") \intersect inflight \subseteq cp.pending

(* Until stop_event, the frames awaiting an ACK and the one being sent     *)
(* never exceed --max-inflight, whatever the adaptive window does.         *)
WindowObserved ==
  ~stop => Cardinality(acksPending) + (IF npc \in {"send", "sent"} THEN 1 ELSE 0)
             <= MaxInflight

(* A consumed ACK leaves its frame awaited only if it overtook the sender: *)
(* it was consumed before the frame was registered.                        *)
OnlyEarlyAcksLinger == ackSeen \intersect acksPending \subseteq early

(* MSG_EOF says that nothing is left: every frame captured was sent,       *)
(* acknowledged and answered, and its answer consumed.                     *)
EofMeansAllAnswered ==
  eofSent => /\ Seen \subseteq ackSeen
             /\ owed = {} /\ Queued("DATA") = {} /\ inflight = {}

(* Frames reach playback in increasing order and once each.  Only once      *)
(* stop_event is set may one come again: the final flush of an EOF or an    *)
(* ERROR raised or was cancelled after publishing it, and the flush of the  *)
(* except block goes over the same buffer, in order and once more.          *)
PublishedInOrder ==
  /\ \A i, j \in DOMAIN published :
       i < j => \/ published[i] < published[j]
                \/ i \in replayed /\ j \notin replayed
  /\ replayed # {} => stop

(* The process calls itself TERMINATED only when ControlPlane is, with no  *)
(* ACK outstanding; and a session that has TERMINATED or FAILED consumes   *)
(* no further reply.                                                       *)
EndedIsNotServed == cp.state \in Terminal => rpc \notin {"wait", "emit"}
TerminatedIsClean ==
  /\ lifecycle = "TERMINATED" => cp.state = "TERMINATED" /\ cp.pending = {}
  /\ EndedIsNotServed

(* A report that is written is true: frames it calls acknowledged were,    *)
(* and one that says TERMINATED leaves no frame that was sent without ACK. *)
ReportHonest ==
  report # NoReport =>
    /\ report.acked <= Cardinality(ackSeen)
    /\ report.state = "TERMINATED" => sent \subseteq ackSeen

(* A run ends with EOF sent and every frame published whose reply could be  *)
(* read, unless a reply overtook the registration of its frame, the server  *)
(* left before its time, or a publication raised.  Frames held back behind  *)
(* an unreadable reply wait for the final flush, which there is only when   *)
(* the server sends EOF before it closes.                                   *)
ServerLeft == pumpOver /\ ~(eofSeen /\ owed = {})
CleanRunDelivers ==
  <>(\/ early # {} \/ ServerLeft \/ flushThen = "raised"
     \/ /\ mpc = "finished" /\ eofSent
        /\ Shown(DOMAIN published) \union reorder = Seen \ unread
        /\ reorder # {} => lifecycle = "FAILED" /\ unread # {})

(* stop_event ends the two tasks that talk to the server, whichever of them *)
(* set it and whatever the other waits for: _fail_and_signal wakes "any     *)
(* waiters".  A sender stuck with the lock in its hands is the exception.   *)
StopEndsExchange ==
  stop ~> \/ npc \in {"done", "raised"} /\ rpc \in {"done", "raised"}
          \/ npc = "stuck"
=============================================================================
