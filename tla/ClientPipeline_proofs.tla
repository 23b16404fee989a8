----------------------- MODULE ClientPipeline_proofs -----------------------
(***************************************************************************)
(* What a client session keeps true for any number of encode workers, any  *)
(* number of frames, any bounds and any choice of faults: the window is    *)
(* observed and playback is in order; then the books of the ACKs: what     *)
(* awaits an ACK is tracked, no ACK is refused, and a report is true; then *)
(* the end: MSG_EOF follows everything else and termination is clean.      *)
(***************************************************************************)
EXTENDS ClientPipeline, FiniteSetTheorems, FunctionTheorems, SequenceTheorems, TLAPS

(* From the capture to inflight, only frames travel. *)
FrameInv ==
  /\ captured \in 0..MaxFrame /\ (cpc = "put" => captured # 0)
  /\ captureQ \subseteq Frames
  /\ eframe \in [Workers -> Frames \union {None}]
  /\ networkQ \in Seq(Frames \union {None})
  /\ npc \in {"window", "send", "sent"} => item \in Frames
  /\ inflight \subseteq Frames

WindowInv ==
  /\ IsFiniteSet(acksPending) /\ limit \in Limits
  /\ WindowObserved

(* Playback.  Nothing held back is below next_sequence, and what is        *)
(* published is below what is held back, but for what a final flush has    *)
(* published of the buffer it has not cleared yet (flushed) and what a     *)
(* flush that failed had (replayed).  A flush is given up once at most,    *)
(* when stop_event is set.                                                 *)
HoldInv ==
  /\ next \in Nat /\ reorder \subseteq Frames /\ published \in Seq(Frames)
  /\ flushed \subseteq DOMAIN published /\ replayed \subseteq DOMAIN published
  /\ Shown(flushed) \subseteq reorder
  /\ \A f \in reorder : next <= f
  /\ flushed # {} => next \notin reorder

ShownInv ==
  /\ \A i \in DOMAIN published \ replayed : \A f \in Unshown : published[i] < f
  /\ \A i \in DOMAIN published \ (replayed \union flushed) :
       \A f \in reorder : published[i] < f

PhaseInv ==
  /\ rpc \in {"wait", "emit"} => /\ flushed = {}
                                 /\ \A i \in DOMAIN published : published[i] < next
  /\ rpc = "wait" => next \notin reorder
  /\ rpc = "flush" /\ flushThen = "done" => stop
  /\ replayed # {} => stop /\ flushThen = "raised" /\ rpc \in {"flush", "raised"}

OrderInv == HoldInv /\ ShownInv /\ PhaseInv /\ PublishedInOrder

IInv == FrameInv /\ WindowInv /\ OrderInv

-----------------------------------------------------------------------------
LEMMA InitHolds == Init => IInv
<1> SUFFICES ASSUME Init PROVE IInv
  OBVIOUS
<1>1. FrameInv
  BY EmptySeq, BoundsAssumption DEF Init, FrameInv
<1>2. WindowInv
  <2>1. IsFiniteSet(acksPending) /\ Cardinality(acksPending) = 0
    BY FS_EmptySet DEF Init
  <2> QED BY <2>1, BoundsAssumption DEF Init, WindowInv, WindowObserved
<1>3. OrderInv
  BY EmptySeq DEF Init, OrderInv, HoldInv, ShownInv, PhaseInv, PublishedInOrder, Shown
<1> QED BY <1>1, <1>2, <1>3 DEF IInv

-----------------------------------------------------------------------------
(* A frame that leaves one place for the next is still a frame. *)
LEMMA CaptureKeepsFrames == FrameInv /\ Capture => FrameInv'
<1> SUFFICES ASSUME FrameInv, Capture PROVE FrameInv'
  OBVIOUS
<1>1. UNCHANGED <<encodeVars, networkQ, sendVars, books>>
  BY DEF Capture, CaptureFrame, FramePut, CaptureOver, SignalStop
<1>2. MaxFrame \in Nat
  BY BoundsAssumption
<1>3. /\ captured' \in 0..MaxFrame /\ (cpc' = "put" => captured' # 0)
      /\ captureQ' \subseteq Frames
  <2>1. CASE CaptureFrame
    <3>1. captured \in Frames /\ captured' = captured + 1
      BY <2>1, <1>2 DEF CaptureFrame, FrameInv, Frames
    <3>2. captured' \in 0..MaxFrame /\ captured' # 0
      BY <3>1, <1>2 DEF Frames
    <3>3. captureQ' \subseteq captureQ \union {captured}
      BY <2>1 DEF CaptureFrame
    <3> QED BY <3>1, <3>2, <3>3 DEF FrameInv
  <2>2. CASE FramePut
    <3>1. captured - 1 \in Frames /\ UNCHANGED captured
      BY <2>2, <1>2 DEF FramePut, FrameInv, Frames
    <3> QED BY <2>2, <3>1 DEF FramePut, FrameInv
  <2>3. CASE CaptureOver \/ SignalStop
    BY <2>3 DEF CaptureOver, SignalStop, FrameInv, captureQVars
  <2> QED BY <2>1, <2>2, <2>3 DEF Capture
<1> QED BY <1>1, <1>3 DEF FrameInv, encodeVars, sendVars, books

LEMMA EncodeKeepsFrames ==
  ASSUME FrameInv, NEW w \in Workers, Encode(w)
  PROVE  FrameInv'
<1>1. UNCHANGED <<captureVars, sendVars, books>> /\ captureQ' \subseteq captureQ
  BY DEF Encode, GetFrame, GetNone, NonePut, GetStopped, Encoded,
     FrameForwarded, EncodeFailed, captureQVars
<1>2. eframe' \in [Workers -> Frames \union {None}]
  BY DEF Encode, GetFrame, GetNone, NonePut, GetStopped, Encoded,
     FrameForwarded, EncodeFailed, GivenUp, Forwarded, FrameInv
<1>3. networkQ' \in Seq(Frames \union {None})
  <2>1. networkQ' = networkQ \/ \E x \in Frames \union {None} :
                                   networkQ' = Append(networkQ, x)
    BY DEF Encode, GetFrame, GetNone, NonePut, GetStopped, Encoded,
       FrameForwarded, EncodeFailed, GivenUp, Forwarded, FrameInv
  <2> QED BY <2>1, AppendProperties DEF FrameInv
<1> QED BY <1>1, <1>2, <1>3 DEF FrameInv, captureVars, sendVars, books

LEMMA SendKeepsFrames == FrameInv /\ Send => FrameInv'
<1> SUFFICES ASSUME FrameInv, Send PROVE FrameInv'
  OBVIOUS
<1>1. UNCHANGED <<captureVars, captureQVars, encodeVars>>
  BY DEF Send, SenderGetFrame, SenderGetNone, SenderStopped, SenderHeartbeat,
     Admitted, FrameOut, SendFailed, Registered, DrainWaited, EofOut, EofRecorded
<1>2. networkQ' \in Seq(Frames \union {None})
  <2>1. networkQ' = networkQ \/ (networkQ # <<>> /\ networkQ' = Tail(networkQ))
    BY DEF Send, SenderGetFrame, SenderGetNone, SenderStopped, SenderHeartbeat,
       Admitted, FrameOut, SendFailed, Registered, DrainWaited, EofOut, EofRecorded
  <2> QED BY <2>1, HeadTailProperties DEF FrameInv
<1>3. npc' \in {"window", "send", "sent"} => item' \in Frames
  <2>1. CASE SenderGetFrame
    <3>1. Head(networkQ) \in Frames
      BY <2>1, HeadTailProperties DEF SenderGetFrame, FrameInv
    <3> QED BY <2>1, <3>1 DEF SenderGetFrame
  <2>2. CASE SenderGetNone \/ SenderStopped \/ SenderHeartbeat \/ DrainWaited
    BY <2>2 DEF SenderGetNone, SenderStopped, SenderHeartbeat, DrainWaited, sendVars,
       FrameInv
  <2>3. CASE Admitted \/ FrameOut \/ SendFailed
    BY <2>3 DEF Admitted, FrameOut, SendFailed, FrameInv
  <2>4. CASE Registered \/ EofOut \/ EofRecorded
    BY <2>4 DEF Registered, EofOut, EofRecorded, SenderTurn
  <2> QED BY <2>1, <2>2, <2>3, <2>4 DEF Send
<1>4. inflight' \subseteq Frames
  <2>1. CASE Registered
    BY <2>1 DEF Registered, FrameInv
  <2>2. CASE ~Registered
    BY <2>2 DEF Send, SenderGetFrame, SenderGetNone, SenderStopped, SenderHeartbeat,
       Admitted, FrameOut, SendFailed, DrainWaited, EofOut, EofRecorded, books, FrameInv
  <2> QED BY <2>1, <2>2
<1> QED BY <1>1, <1>2, <1>3, <1>4 DEF FrameInv, captureVars, captureQVars, encodeVars

(* The rest of the session takes frames out of flight. *)
LEMMA RestKeepsFrames == FrameInv /\ (Consume \/ Serve \/ ServerBeats \/ Main) => FrameInv'
<1> SUFFICES ASSUME FrameInv, Consume \/ Serve \/ ServerBeats \/ Main PROVE FrameInv'
  OBVIOUS
<1>1. CASE Consume
  <2>1. UNCHANGED <<captureVars, captureQVars, encodeVars, networkQ, sendVars>>
    BY <1>1 DEF Consume, ConsumerStopped, AckConsumed, HeartbeatConsumed, PumpEnded,
       EofConsumed, UnknownReply, ErrorConsumed, DataConsumed, Emitted, NothingReady,
       EmitFailed, FlushEmitted, FlushFailed, Flushed, DeadlinePassed,
       HeartbeatMissed, ConsumerBlocks
  <2>2. inflight' \subseteq inflight
    BY <1>1 DEF Consume, ConsumerStopped, AckConsumed, HeartbeatConsumed, PumpEnded,
       EofConsumed, UnknownReply, ErrorConsumed, DataConsumed, Emitted, NothingReady,
       EmitFailed, FlushEmitted, FlushFailed, Flushed, DeadlinePassed,
       HeartbeatMissed, ConsumerBlocks, Pop, books
  <2> QED BY <2>1, <2>2 DEF FrameInv, captureVars, captureQVars, encodeVars, sendVars
<1>2. CASE Serve \/ ServerBeats
  <2>1. UNCHANGED <<captureVars, captureQVars, encodeVars, networkQ, sendVars, books>>
    BY <1>2 DEF Serve, ServerAcks, ServerAnswers, ServerReadsEof, ServerEnds, ServerBeats,
       serverUnchanged
  <2> QED BY <2>1 DEF FrameInv, captureVars, captureQVars, encodeVars, sendVars, books
<1>3. CASE Main
  <2>1. /\ UNCHANGED <<captured, captureQ, eframe, networkQ, item>>
        /\ cpc' # "put" \/ UNCHANGED cpc
        /\ npc' \notin {"window", "send", "sent"} \/ UNCHANGED npc
        /\ inflight' \subseteq inflight
    BY <1>3 DEF Main, Finished, TaskRaised, Failed, captureVars, captureQVars, encodeVars,
       sendVars, books
  <2> QED BY <2>1 DEF FrameInv
<1> QED BY <1>1, <1>2, <1>3

LEMMA FramesKept == FrameInv /\ [Next]_vars => FrameInv'
<1> SUFFICES ASSUME FrameInv, [Next]_vars PROVE FrameInv'
  OBVIOUS
<1>1. CASE UNCHANGED vars
  BY <1>1 DEF vars, captureVars, captureQVars, encodeVars, sendVars, books, FrameInv
<1> QED BY <1>1, CaptureKeepsFrames, EncodeKeepsFrames, SendKeepsFrames, RestKeepsFrames
        DEF Next

-----------------------------------------------------------------------------
(* A step that awaits no further ACK and sends no further frame keeps the  *)
(* window, if it leaves a limit and a stop_event that is set.              *)
Sending == npc \in {"send", "sent"}

LEMMA QuietStep ==
  ASSUME WindowInv, acksPending' \subseteq acksPending, limit' \in Limits,
         stop => stop', Sending' => Sending
  PROVE  WindowInv'
<1>1. /\ IsFiniteSet(acksPending')
      /\ Cardinality(acksPending') <= Cardinality(acksPending)
  BY FS_Subset DEF WindowInv
<1>2. Cardinality(acksPending) \in Nat /\ Cardinality(acksPending') \in Nat
  BY <1>1, FS_CardinalityType DEF WindowInv
<1> QED BY <1>1, <1>2, BoundsAssumption DEF WindowInv, WindowObserved, Sending

(* Only the sender opens the window wider: one frame while a slot is free, *)
(* and the slot is taken when the frame is registered.                     *)
LEMMA SendKeepsWindow == WindowInv /\ Send => WindowInv'
<1> SUFFICES ASSUME WindowInv, Send PROVE WindowInv'
  OBVIOUS
<1>1. CASE Admitted
  <2>1. UNCHANGED <<acksPending, limit>> /\ (stop => stop')
    BY <1>1 DEF Admitted, books, FailAndSignal
  <2>2. CASE stop
    BY <2>1, <2>2 DEF WindowInv, WindowObserved
  <2>3. CASE ~stop
    <3>1. Cardinality(acksPending) + 1 <= MaxInflight
      <4>1. Cardinality(acksPending) < limit
        BY <1>1, <2>3 DEF Admitted, WindowOpen
      <4> QED BY <4>1, LimitsAssumption, BoundsAssumption, FS_CardinalityType DEF WindowInv
    <3> QED BY <2>1, <3>1, FS_CardinalityType, BoundsAssumption DEF WindowInv, WindowObserved
  <2> QED BY <2>2, <2>3
<1>2. CASE Registered
  <2>1. /\ npc = "sent" /\ npc' \notin {"send", "sent"}
        /\ acksPending' = acksPending \union {item} /\ UNCHANGED <<limit, stop>>
    BY <1>2 DEF Registered, SenderTurn
  <2>2. /\ IsFiniteSet(acksPending') /\ Cardinality(acksPending') \in Nat
        /\ Cardinality(acksPending') <= Cardinality(acksPending) + 1
    <3>1. IsFiniteSet(acksPending) /\ Cardinality(acksPending) \in Nat
      BY FS_CardinalityType DEF WindowInv
    <3>2. /\ IsFiniteSet(acksPending')
          /\ Cardinality(acksPending') \in {Cardinality(acksPending), Cardinality(acksPending) + 1}
      BY <2>1, <3>1, FS_AddElement
    <3> QED BY <3>1, <3>2
  <2> QED BY <2>1, <2>2, FS_CardinalityType, BoundsAssumption DEF WindowInv, WindowObserved
<1>3. CASE ~Admitted /\ ~Registered
  <2>1. UNCHANGED <<acksPending, limit>> /\ (stop => stop') /\ (Sending' => Sending)
    BY <1>3 DEF Send, SenderGetFrame, SenderGetNone, SenderStopped, SenderHeartbeat,
       FrameOut, SendFailed, DrainWaited, EofOut, EofRecorded, SenderTurn, FailAndSignal,
       books, sendVars, Sending
  <2> QED BY <2>1, QuietStep DEF WindowInv
<1> QED BY <1>1, <1>2, <1>3

LEMMA WindowKept == WindowInv /\ [Next]_vars => WindowInv'
<1> SUFFICES ASSUME WindowInv, [Next]_vars PROVE WindowInv'
  OBVIOUS
<1>1. CASE Capture
  <2>1. UNCHANGED <<sendVars, books, limit, stop>>
    BY <1>1 DEF Capture, CaptureFrame, FramePut, CaptureOver, SignalStop
  <2> QED BY <2>1, QuietStep DEF sendVars, books, Sending, WindowInv
<1>2. ASSUME NEW w \in Workers, Encode(w) PROVE WindowInv'
  <2>1. UNCHANGED <<sendVars, books, limit>> /\ (stop => stop')
    BY <1>2 DEF Encode, GetFrame, GetNone, NonePut, GetStopped, Encoded,
       FrameForwarded, EncodeFailed
  <2> QED BY <2>1, QuietStep DEF sendVars, books, Sending, WindowInv
<1>3. CASE Consume
  <2>1. UNCHANGED sendVars
    BY <1>3 DEF Consume, ConsumerStopped, AckConsumed, HeartbeatConsumed, PumpEnded,
       EofConsumed, UnknownReply, ErrorConsumed, DataConsumed, Emitted, NothingReady,
       EmitFailed, FlushEmitted, FlushFailed, Flushed, DeadlinePassed,
       HeartbeatMissed, ConsumerBlocks
  <2>4. stop => stop'
    <3>1. CASE AckConsumed \/ DataConsumed \/ EmitFailed \/ DeadlinePassed
      BY <3>1 DEF AckConsumed, DataConsumed, EmitFailed, DeadlinePassed, AckInFlight,
         ConsumerRaises, FailAndSignal
    <3>2. CASE ConsumerStopped \/ HeartbeatConsumed \/ PumpEnded \/ EofConsumed
               \/ UnknownReply \/ ErrorConsumed \/ Emitted \/ NothingReady
               \/ FlushEmitted \/ FlushFailed \/ Flushed \/ HeartbeatMissed
               \/ ConsumerBlocks
      BY <3>2 DEF ConsumerStopped, HeartbeatConsumed, PumpEnded, EofConsumed,
         UnknownReply, ErrorConsumed, Emitted, NothingReady, FlushEmitted, FlushFailed,
         Flushed, HeartbeatMissed, ConsumerBlocks, FailAndSignal
    <3> QED BY <1>3, <3>1, <3>2 DEF Consume
  <2>2. acksPending' \subseteq acksPending
    BY <1>3 DEF Consume, ConsumerStopped, AckConsumed, HeartbeatConsumed, PumpEnded,
       EofConsumed, UnknownReply, ErrorConsumed, DataConsumed, Emitted, NothingReady,
       EmitFailed, FlushEmitted, FlushFailed, Flushed, DeadlinePassed,
       HeartbeatMissed, ConsumerBlocks, Pop, books
  <2>3. limit' \in Limits
    BY <1>3 DEF Consume, ConsumerStopped, AckConsumed, HeartbeatConsumed, PumpEnded,
       EofConsumed, UnknownReply, ErrorConsumed, DataConsumed, Emitted, NothingReady,
       EmitFailed, FlushEmitted, FlushFailed, Flushed, DeadlinePassed,
       HeartbeatMissed, ConsumerBlocks, AckInFlight,
       WindowInv
  <2> QED BY <2>1, <2>2, <2>3, <2>4, QuietStep DEF sendVars, Sending
<1>4. CASE Serve \/ ServerBeats
  <2>1. UNCHANGED <<sendVars, books, limit, stop>>
    BY <1>4 DEF Serve, ServerAcks, ServerAnswers, ServerReadsEof, ServerEnds, ServerBeats,
       serverUnchanged
  <2> QED BY <2>1, QuietStep DEF sendVars, books, Sending, WindowInv
<1>5. CASE Main
  <2>1. /\ acksPending' \subseteq acksPending /\ UNCHANGED limit /\ (stop => stop')
        /\ Sending' => Sending
    BY <1>5 DEF Main, Finished, TaskRaised, Failed, FailAndSignal, sendVars, books, Sending
  <2> QED BY <2>1, QuietStep DEF WindowInv
<1>6. CASE UNCHANGED vars
  BY <1>6, QuietStep DEF vars, sendVars, books, Sending, WindowInv
<1> QED BY <1>1, <1>2, <1>3, <1>4, <1>5, <1>6, SendKeepsWindow DEF Next

-----------------------------------------------------------------------------
LEMMA ShownTyped ==
  ASSUME OrderInv
  PROVE  \A i \in DOMAIN published : published[i] \in Frames /\ published[i] \in Nat
<1>1. published \in Seq(Frames)
  BY DEF OrderInv, HoldInv
<1>2. \A i \in DOMAIN published : published[i] \in Frames
  BY <1>1, ElementOfSeq, LenProperties
<1> QED BY <1>2, BoundsAssumption DEF Frames

(* One frame more is published: it is a frame that is held back and not   *)
(* shown, and at or below all others of them.                              *)
LEMMA OneMoreShown ==
  ASSUME OrderInv, NEW f \in Unshown, published' = Append(published, f),
         UNCHANGED <<replayed, stop>>
  PROVE  /\ published' \in Seq(Frames)
         /\ DOMAIN published' = DOMAIN published \union {Len(published')}
         /\ Len(published') \notin DOMAIN published
         /\ published'[Len(published')] = f
         /\ \A i \in DOMAIN published : published'[i] = published[i]
         /\ \A i \in DOMAIN published' :
              \/ i \in DOMAIN published /\ published'[i] = published[i]
              \/ i = Len(published') /\ published'[i] = f
         /\ PublishedInOrder'
<1>1. f \in Frames /\ published \in Seq(Frames)
  BY DEF OrderInv, HoldInv, Unshown
<1>2. /\ published' \in Seq(Frames) /\ Len(published') = Len(published) + 1
      /\ Len(published) \in Nat /\ DOMAIN published = 1..Len(published)
      /\ DOMAIN published' = 1..Len(published')
      /\ \A i \in 1..Len(published) : published'[i] = published[i]
      /\ published'[Len(published) + 1] = f
  BY <1>1, AppendProperties, LenProperties
<1>3. DOMAIN published' = DOMAIN published \union {Len(published')}
  BY <1>2
<1>4. Len(published') \notin DOMAIN published
  BY <1>2
<1>5. PublishedInOrder'
  <2>1. replayed' # {} => stop'
    BY DEF OrderInv, PublishedInOrder
  <2>2. SUFFICES ASSUME NEW i \in DOMAIN published', NEW j \in DOMAIN published', i < j
                 PROVE  \/ published'[i] < published'[j]
                        \/ i \in replayed /\ j \notin replayed
    BY <2>1 DEF PublishedInOrder
  <2>3. i \in DOMAIN published
    BY <1>2, <2>2
  <2>4. CASE j \in DOMAIN published
    BY <1>2, <2>2, <2>3, <2>4 DEF OrderInv, PublishedInOrder
  <2>5. CASE j = Len(published')
    <3>1. j \notin replayed
      BY <1>4, <2>5 DEF OrderInv, HoldInv
    <3>2. i \notin replayed => published[i] < f
      BY <2>3 DEF OrderInv, ShownInv
    <3> QED BY <1>2, <2>3, <2>5, <3>1, <3>2
  <2> QED BY <1>3, <2>4, <2>5
<1> QED BY <1>2, <1>3, <1>4, <1>5

LEMMA EmitKeepsOrder == OrderInv /\ Emitted => OrderInv'
<1> SUFFICES ASSUME OrderInv, Emitted PROVE OrderInv'
  OBVIOUS
<1>1. /\ rpc = "emit" /\ next \in reorder /\ published' = Append(published, next)
      /\ reorder' = reorder \ {next} /\ next' = next + 1
      /\ UNCHANGED <<rpc, flushThen, flushed, replayed, stop>>
  BY DEF Emitted
<1>2. flushed = {} /\ replayed = {} /\ \A i \in DOMAIN published : published[i] < next
  BY <1>1 DEF OrderInv, PhaseInv
<1>3. next \in Nat /\ reorder \subseteq Frames /\ \A f \in reorder : next <= f
  BY DEF OrderInv, HoldInv
<1>4. next \in Unshown
  BY <1>1, <1>2 DEF Unshown, Shown
<1>5. /\ published' \in Seq(Frames)
      /\ DOMAIN published' = DOMAIN published \union {Len(published')}
      /\ \A i \in DOMAIN published' :
           \/ i \in DOMAIN published /\ published'[i] = published[i]
           \/ i = Len(published') /\ published'[i] = next
      /\ PublishedInOrder'
  BY <1>1, <1>4, OneMoreShown
<1>6. \A i \in DOMAIN published' : published'[i] \in Nat /\ published'[i] < next + 1
  <2>1. \A i \in DOMAIN published : published[i] \in Nat /\ published[i] < next + 1
    BY <1>2, <1>3, ShownTyped
  <2>2. \A i \in DOMAIN published' :
          \/ i \in DOMAIN published /\ published'[i] = published[i]
          \/ i = Len(published') /\ published'[i] = next
    BY <1>5
  <2> QED BY <1>3, <2>1, <2>2
<1>7. \A f \in reorder' : f \in Nat /\ next + 1 <= f
  BY <1>1, <1>3 DEF Frames
<1>8. \A i \in DOMAIN published' : \A f \in reorder' : published'[i] < f
  BY <1>3, <1>6, <1>7
<1>9. HoldInv'
  <2>1. flushed' = {} /\ replayed' = {} /\ Shown(flushed)' = {}
    BY <1>1, <1>2 DEF Shown
  <2> QED BY <1>1, <1>3, <1>5, <1>7, <2>1 DEF HoldInv
<1>10. ShownInv'
  BY <1>8 DEF ShownInv, Unshown
<1>11. PhaseInv'
  BY <1>1, <1>2, <1>6 DEF PhaseInv
<1> QED BY <1>5, <1>9, <1>10, <1>11 DEF OrderInv

LEMMA FlushKeepsOrder == OrderInv /\ FlushEmitted => OrderInv'
<1> SUFFICES ASSUME OrderInv, FlushEmitted PROVE OrderInv'
  OBVIOUS
<1>1. PICK f \in FlushNext :
        /\ published' = Append(published, f)
        /\ \/ /\ f = next /\ next' = next + 1
              /\ reorder' = reorder \ {f} /\ UNCHANGED flushed
           \/ /\ f # next /\ UNCHANGED next
              /\ IF reorder = Shown(flushed) \union {f}
                 THEN reorder' = {} /\ flushed' = {}
                 ELSE flushed' = flushed \union {Len(published')} /\ UNCHANGED reorder
  BY DEF FlushEmitted
<1>2. rpc = "flush" /\ UNCHANGED <<rpc, flushThen, replayed, stop>>
  BY DEF FlushEmitted
<1>3. f \in Unshown /\ \A g \in Unshown : f <= g
  BY <1>1 DEF FlushNext
<1>4. /\ published' \in Seq(Frames)
      /\ DOMAIN published' = DOMAIN published \union {Len(published')}
      /\ Len(published') \notin DOMAIN published
      /\ published'[Len(published')] = f
      /\ \A i \in DOMAIN published : published'[i] = published[i]
      /\ PublishedInOrder'
  BY <1>1, <1>2, <1>3, OneMoreShown
<1>5. /\ next \in Nat /\ reorder \subseteq Frames /\ f \in reorder /\ f \notin Shown(flushed)
      /\ \A g \in reorder : g \in Nat /\ next <= g
      /\ Shown(flushed) \subseteq reorder
      /\ flushed \subseteq DOMAIN published /\ replayed \subseteq DOMAIN published
  BY <1>3 DEF OrderInv, HoldInv, Unshown, Frames
<1>6. PhaseInv'
  BY <1>2 DEF OrderInv, PhaseInv
<1>7. CASE f = next
  <2>1. flushed = {} /\ next' = next + 1 /\ reorder' = reorder \ {f} /\ flushed' = {}
    BY <1>1, <1>5, <1>7 DEF OrderInv, HoldInv
  <2>2. \A g \in reorder' : g \in Nat /\ next + 1 <= g
    BY <1>5, <1>7, <2>1
  <2>3. HoldInv'
    <3>1. Shown(flushed)' = {}
      BY <2>1 DEF Shown
    <3>2. replayed' \subseteq DOMAIN published' /\ flushed' \subseteq DOMAIN published'
      BY <1>2, <1>4, <1>5, <2>1
    <3>3. /\ next' \in Nat /\ reorder' \subseteq Frames
          /\ \A g \in reorder' : next' <= g
      BY <1>5, <2>1, <2>2
    <3>4. published' \in Seq(Frames)
      BY <1>4
    <3> QED BY <2>1, <3>1, <3>2, <3>3, <3>4 DEF HoldInv
  <2>4. \A i \in DOMAIN published' \ replayed : \A g \in reorder' : published'[i] < g
    <3>1. \A i \in DOMAIN published \ replayed : \A g \in reorder : published[i] < g
      BY <2>1 DEF OrderInv, ShownInv
    <3>2. \A g \in reorder' : f < g /\ g \in reorder
      BY <1>5, <1>7, <2>1, <2>2
    <3> QED BY <1>4, <3>1, <3>2
  <2>5. ShownInv'
    BY <1>2, <2>4 DEF ShownInv, Unshown
  <2> QED BY <1>4, <1>6, <2>3, <2>5 DEF OrderInv
<1>8. CASE f # next /\ reorder = Shown(flushed) \union {f}
  <2>1. reorder' = {} /\ flushed' = {} /\ UNCHANGED next
    BY <1>1, <1>8
  <2>2. HoldInv' /\ ShownInv'
    BY <1>2, <1>4, <1>5, <2>1 DEF HoldInv, ShownInv, Unshown, Shown
  <2> QED BY <1>4, <1>6, <2>2 DEF OrderInv
<1>9. CASE f # next /\ reorder # Shown(flushed) \union {f}
  <2>1. flushed' = flushed \union {Len(published')} /\ UNCHANGED <<next, reorder>>
    BY <1>1, <1>9
  <2>2. Shown(flushed)' = Shown(flushed) \union {f}
    <3>1. \A i \in flushed : published'[i] = published[i]
      BY <1>4, <1>5
    <3>2. {published'[i] : i \in flushed} = {published[i] : i \in flushed}
      BY <3>1
    <3>3. Shown(flushed)' = {published'[i] : i \in flushed} \union {published'[Len(published')]}
      BY <2>1 DEF Shown
    <3> QED BY <1>4, <3>2, <3>3 DEF Shown
  <2>3. next \notin reorder
    <3>1. SUFFICES ASSUME next \in reorder PROVE FALSE
      OBVIOUS
    <3>2. flushed = {}
      BY <3>1 DEF OrderInv, HoldInv
    <3>3. next \in Unshown
      BY <3>1, <3>2 DEF Unshown, Shown
    <3> QED BY <1>3, <1>5, <1>9, <3>3
  <2>4. HoldInv'
    BY <1>2, <1>4, <1>5, <2>1, <2>2, <2>3 DEF HoldInv
  <2>5. ShownInv'
    <3>1. Unshown' = Unshown \ {f}
      BY <2>1, <2>2 DEF Unshown
    <3>2. \A g \in Unshown' : f < g
      BY <1>3, <1>5, <3>1 DEF Unshown
    <3>3. \A i \in DOMAIN published' \ replayed : \A g \in Unshown' : published'[i] < g
      BY <1>4, <3>1, <3>2 DEF OrderInv, ShownInv
    <3>4. \A i \in DOMAIN published' \ (replayed \union flushed') :
            \A g \in reorder : published'[i] < g
      BY <1>4, <2>1 DEF OrderInv, ShownInv
    <3> QED BY <1>2, <2>1, <3>3, <3>4 DEF ShownInv
  <2> QED BY <1>4, <1>6, <2>4, <2>5 DEF OrderInv
<1> QED BY <1>7, <1>8, <1>9

(* The except block takes over: what the flush had published may come again. *)
LEMMA RaiseKeepsOrder ==
  ASSUME OrderInv, InTry, ConsumerRaises, UNCHANGED <<next, published>>, stop => stop'
  PROVE  OrderInv'
<1>1. /\ rpc' = "flush" /\ flushThen' = "raised" /\ reorder' = reorder \ {next}
      /\ replayed' = replayed \union flushed /\ flushed' = {}
  BY DEF ConsumerRaises
<1>2. replayed = {} /\ (flushed # {} => stop)
  BY DEF OrderInv, PhaseInv, InTry
<1>3. HoldInv'
  BY <1>1 DEF OrderInv, HoldInv, Shown
<1>4. ShownInv'
  BY <1>1, <1>2 DEF OrderInv, ShownInv, Unshown
<1>5. PhaseInv' /\ PublishedInOrder'
  BY <1>1, <1>2 DEF OrderInv, PhaseInv, PublishedInOrder
<1> QED BY <1>3, <1>4, <1>5 DEF OrderInv

(* A step that publishes nothing and holds back no frame. *)
LEMMA OrderStays ==
  ASSUME OrderInv, UNCHANGED <<reorder, published, flushed, replayed>>, stop => stop',
         \/ next' = next
         \/ next' = next + 1 /\ rpc = "wait" /\ next \notin reorder
              /\ rpc' \notin {"wait", "emit"},
         rpc' \in {"wait", "emit"} => rpc \in {"wait", "emit"},
         rpc' = "wait" => rpc = "wait" \/ next \notin reorder,
         rpc' = "flush" /\ flushThen' = "done" => stop',
         replayed # {} => flushThen' = "raised" /\ rpc' \in {"flush", "raised"}
  PROVE  OrderInv'
<1>1. HoldInv' /\ ShownInv'
  <2>1. next' \in Nat /\ \A f \in reorder : next' <= f
    BY DEF OrderInv, HoldInv, Frames
  <2>2. flushed # {} => next' \notin reorder
    BY DEF OrderInv, HoldInv, PhaseInv
  <2> QED BY <2>1, <2>2 DEF OrderInv, HoldInv, ShownInv, Unshown, Shown
<1>2. PhaseInv' /\ PublishedInOrder'
  BY DEF OrderInv, PhaseInv, PublishedInOrder
<1> QED BY <1>1, <1>2 DEF OrderInv

LEMMA ConsumeKeepsOrder == FrameInv /\ OrderInv /\ Consume => OrderInv'
<1> SUFFICES ASSUME FrameInv, OrderInv, Consume PROVE OrderInv'
  OBVIOUS
<1>1. CASE DataConsumed
  <2> DEFINE f == Head(replyQ).seq
  <2>1. /\ rpc = "wait" /\ f \in Frames
        /\ UNCHANGED <<next, published, flushed, replayed, stop, flushThen>>
        /\ \/ reorder' = reorder /\ rpc' \in {"wait", "done"}
           \/ reorder' = reorder /\ rpc' = "emit"
           \/ reorder' = reorder \union {f} /\ ~(f < next) /\ rpc' = "emit"
    BY <1>1 DEF DataConsumed, NextIs, FrameInv, ConsumerTurn
  <2> HIDE DEF f
  <2>2. CASE reorder' = reorder
    BY <2>1, <2>2, OrderStays DEF OrderInv, PhaseInv
  <2>3. CASE reorder' = reorder \union {f} /\ ~(f < next) /\ rpc' = "emit"
    <3>1. f \in Nat /\ next \in Nat /\ next <= f
      BY <2>1, <2>3 DEF OrderInv, HoldInv, Frames
    <3>2. /\ \A i \in DOMAIN published : published[i] \in Nat /\ published[i] < next
          /\ flushed = {} /\ replayed = {}
      BY <2>1, ShownTyped DEF OrderInv, PhaseInv
    <3>3. HoldInv'
      <4>1. Shown(flushed)' = {} /\ flushed' = {} /\ replayed' = {}
        BY <2>1, <3>2 DEF Shown
      <4> QED BY <2>1, <2>3, <3>1, <4>1 DEF OrderInv, HoldInv
    <3>4. \A i \in DOMAIN published : published[i] < f
      BY <3>1, <3>2
    <3>5. ShownInv'
      BY <2>1, <2>3, <3>2, <3>4 DEF OrderInv, ShownInv, Unshown
    <3>6. PhaseInv' /\ PublishedInOrder'
      BY <2>1, <2>3, <3>2 DEF OrderInv, PhaseInv, PublishedInOrder
    <3> QED BY <3>3, <3>5, <3>6 DEF OrderInv
  <2> QED BY <2>1, <2>2, <2>3
<1>2. CASE EmitFailed
  BY <1>2, RaiseKeepsOrder DEF EmitFailed, InTry
<1>3. CASE ErrorConsumed
  <2>1. /\ rpc = "wait" /\ rpc' = "flush" /\ stop'
        /\ next' = next \/ next' = next + 1
        /\ UNCHANGED <<reorder, published, flushed, replayed>>
    BY <1>3 DEF ErrorConsumed, NextIs, FailAndSignal, playVars
  <2> QED BY <2>1, OrderStays DEF OrderInv, PhaseInv
<1>4. CASE EofConsumed \/ DeadlinePassed
  <2>1. /\ rpc = "wait" /\ rpc' \in {"wait", "done", "flush"} /\ (stop => stop')
        /\ UNCHANGED <<next, reorder, published, flushed, replayed>>
        /\ rpc' = "flush" => stop'
    <3>1. CASE EofConsumed
      BY <3>1 DEF EofConsumed, NextIs, playVars
    <3>2. CASE DeadlinePassed
      <4>1. rpc = "wait" /\ UNCHANGED <<reorder, next, playVars>>
        BY <3>2 DEF DeadlinePassed
      <4>2. \/ FailAndSignal /\ rpc' \in {"done", "flush"}
            \/ UNCHANGED stop /\ ConsumerTurn
        BY <3>2 DEF DeadlinePassed
      <4> QED BY <4>1, <4>2 DEF FailAndSignal, ConsumerTurn, playVars
    <3> QED BY <1>4, <3>1, <3>2
  <2> QED BY <2>1, OrderStays DEF OrderInv, PhaseInv
<1>5. CASE ConsumerStopped \/ AckConsumed \/ HeartbeatConsumed \/ PumpEnded
           \/ UnknownReply \/ HeartbeatMissed \/ ConsumerBlocks
  <2>1. /\ rpc = "wait" /\ rpc' \in {"wait", "done", "blocked"} /\ (stop => stop')
        /\ UNCHANGED <<next, reorder, published, flushed, replayed>>
    BY <1>5 DEF ConsumerStopped, AckConsumed, HeartbeatConsumed, PumpEnded, UnknownReply,
       HeartbeatMissed, ConsumerBlocks, NextIs, AckInFlight, FailAndSignal, ConsumerTurn,
       playVars
  <2> QED BY <2>1, OrderStays DEF OrderInv, PhaseInv
<1>6. CASE NothingReady
  BY <1>6, OrderStays DEF NothingReady, playVars, OrderInv, PhaseInv
<1>7. CASE FlushFailed \/ Flushed
  <2>1. /\ rpc = "flush" /\ (rpc' = flushThen \/ (flushThen = "raised" /\ rpc' = "raised"))
        /\ stop => stop'
        /\ UNCHANGED <<flushThen, next, reorder, published, flushed, replayed>>
    BY <1>7 DEF FlushFailed, Flushed, FailAndSignal, playVars
  <2>2. flushThen \in {"done", "raised"} => OrderInv'
    BY <2>1, OrderStays DEF OrderInv, PhaseInv
  <2>3. flushThen \in {"done", "raised"}
    BY <1>7 DEF FlushFailed, Flushed
  <2> QED BY <2>2, <2>3
<1> QED BY <1>1, <1>2, <1>3, <1>4, <1>5, <1>6, <1>7, EmitKeepsOrder, FlushKeepsOrder
        DEF Consume

LEMMA OrderKept == FrameInv /\ OrderInv /\ [Next]_vars => OrderInv'
<1> SUFFICES ASSUME FrameInv, OrderInv, [Next]_vars PROVE OrderInv'
  OBVIOUS
<1>1. ASSUME UNCHANGED consumeVars, stop => stop' PROVE OrderInv'
  BY <1>1, OrderStays DEF consumeVars, playVars, OrderInv, PhaseInv
<1>2. CASE Capture
  BY <1>1, <1>2 DEF Capture, CaptureFrame, FramePut, CaptureOver, SignalStop
<1>3. ASSUME NEW w \in Workers, Encode(w) PROVE OrderInv'
  BY <1>1, <1>3 DEF Encode, GetFrame, GetNone, NonePut, GetStopped, Encoded,
     FrameForwarded, EncodeFailed
<1>4. CASE Send
  BY <1>1, <1>4 DEF Send, SenderGetFrame, SenderGetNone, SenderStopped, SenderHeartbeat,
     Admitted, FrameOut, SendFailed, Registered, DrainWaited, EofOut, EofRecorded,
     FailAndSignal
<1>5. CASE Serve \/ ServerBeats
  BY <1>1, <1>5 DEF Serve, ServerAcks, ServerAnswers, ServerReadsEof, ServerEnds,
     ServerBeats, serverUnchanged
<1>6. CASE TaskRaised
  <2>1. UNCHANGED <<next, published>> /\ stop'
    BY <1>6 DEF TaskRaised, FailAndSignal
  <2>2. CASE InTry
    <3>1. ConsumerRaises
      BY <1>6, <2>2 DEF TaskRaised
    <3> QED BY <2>1, <2>2, <3>1, RaiseKeepsOrder
  <2>3. CASE ~InTry
    <3>1. /\ rpc' = IF rpc = "flush" THEN "raised" ELSE rpc
          /\ UNCHANGED <<flushThen, reorder, replayed, flushed>>
      BY <1>6, <2>3 DEF TaskRaised
    <3> QED BY <2>1, <2>3, <3>1, OrderStays DEF OrderInv, PhaseInv, InTry
  <2> QED BY <2>2, <2>3
<1>7. CASE Finished \/ Failed
  BY <1>1, <1>7 DEF Finished, Failed
<1>8. CASE UNCHANGED vars
  BY <1>1, <1>8 DEF vars
<1> QED BY <1>2, <1>3, <1>4, <1>5, <1>6, <1>7, <1>8, ConsumeKeepsOrder DEF Next, Main

LEMMA Invariance == Spec => []IInv
<1>1. IInv /\ [Next]_vars => IInv'
  BY FramesKept, WindowKept, OrderKept DEF IInv
<1> QED BY <1>1, InitHolds, PTL DEF Spec

-----------------------------------------------------------------------------
(* Until stop_event, no more than --max-inflight frames await an ACK, for  *)
(* any choice the adaptive window makes within its limits.                 *)
THEOREM WindowIsObserved == Spec => []WindowObserved
BY Invariance, PTL DEF IInv, WindowInv

(* Frames reach playback in increasing order and once each, however the    *)
(* replies come; only after stop_event may one come once more, in the same *)
(* order: when the final flush that had published it raised or was         *)
(* cancelled.                                                              *)
THEOREM PlaybackInOrder == Spec => []PublishedInOrder
BY Invariance, PTL DEF IInv, OrderInv

-----------------------------------------------------------------------------
(* The books of the ACKs.  A frame is in one place at a time on its way to   *)
(* the server, and has one ACK at most; the rest follows.                    *)


(* The elements of a sequence, and that those in S come only once in it. *)
Elems(q) == {q[i] : i \in 1..Len(q)}
Distinct(q, S) ==
  \A i, j \in 1..Len(q) : (q[i] = q[j] /\ q[i] \in S) => i = j

LEMMA AppendElems ==
  ASSUME NEW T, NEW q \in Seq(T), NEW x \in T
  PROVE  /\ Append(q, x) \in Seq(T)
         /\ Elems(Append(q, x)) = Elems(q) \union {x}
<1>1. /\ Append(q, x) \in Seq(T) /\ Len(Append(q, x)) = Len(q) + 1 /\ Len(q) \in Nat
      /\ \A i \in 1..Len(q) : Append(q, x)[i] = q[i]
      /\ Append(q, x)[Len(q) + 1] = x
  BY AppendProperties, LenProperties
<1>2. 1..(Len(q) + 1) = (1..Len(q)) \union {Len(q) + 1}
  BY <1>1
<1> QED BY <1>1, <1>2 DEF Elems

LEMMA AppendDistinct ==
  ASSUME NEW T, NEW S, NEW q \in Seq(T), NEW x \in T, Distinct(q, S),
         x \notin S \/ x \notin Elems(q)
  PROVE  Distinct(Append(q, x), S)
<1>1. /\ Len(Append(q, x)) = Len(q) + 1 /\ Len(q) \in Nat
      /\ \A i \in 1..Len(q) : Append(q, x)[i] = q[i]
      /\ Append(q, x)[Len(q) + 1] = x
  BY AppendProperties, LenProperties
<1>2. \A i \in 1..Len(q) : q[i] \in Elems(q)
  BY DEF Elems
<1> QED BY <1>1, <1>2 DEF Distinct

LEMMA TailElems ==
  ASSUME NEW T, NEW q \in Seq(T), q # <<>>
  PROVE  /\ Tail(q) \in Seq(T) /\ Head(q) \in T
         /\ Len(q) \in Nat \ {0} /\ Len(Tail(q)) = Len(q) - 1 /\ Head(q) = q[1]
         /\ \A i \in 1..Len(Tail(q)) : Tail(q)[i] = q[i + 1]
         /\ Elems(q) = Elems(Tail(q)) \union {Head(q)}
<1>1. /\ Tail(q) \in Seq(T) /\ Head(q) \in T
      /\ Len(q) \in Nat \ {0} /\ Len(Tail(q)) = Len(q) - 1 /\ Head(q) = q[1]
      /\ \A i \in 1..Len(Tail(q)) : Tail(q)[i] = q[i + 1]
  BY HeadTailProperties, LenProperties, EmptySeq
<1>2. \A i \in 1..Len(q) : i = 1 \/ (i - 1 \in 1..Len(Tail(q)) /\ q[i] = Tail(q)[i - 1])
  BY <1>1
<1>3. (\A i \in 1..Len(Tail(q)) : i + 1 \in 1..Len(q)) /\ 1 \in 1..Len(q)
  BY <1>1
<1>4. Elems(q) \subseteq Elems(Tail(q)) \union {Head(q)}
  BY <1>1, <1>2 DEF Elems
<1>5. Elems(Tail(q)) \union {Head(q)} \subseteq Elems(q)
  BY <1>1, <1>3 DEF Elems
<1> QED BY <1>1, <1>4, <1>5

LEMMA TailDistinct ==
  ASSUME NEW T, NEW S, NEW q \in Seq(T), q # <<>>, Distinct(q, S)
  PROVE  /\ Distinct(Tail(q), S)
         /\ Head(q) \in S => Head(q) \notin Elems(Tail(q))
<1>1. /\ Len(q) \in Nat \ {0} /\ Len(Tail(q)) = Len(q) - 1 /\ Head(q) = q[1]
      /\ \A i \in 1..Len(Tail(q)) : Tail(q)[i] = q[i + 1]
  BY TailElems
<1>2. Distinct(Tail(q), S)
  <2> SUFFICES ASSUME NEW i \in 1..Len(Tail(q)), NEW j \in 1..Len(Tail(q)),
                      Tail(q)[i] = Tail(q)[j], Tail(q)[i] \in S
               PROVE  i = j
    BY DEF Distinct
  <2>1. i + 1 \in 1..Len(q) /\ j + 1 \in 1..Len(q) /\ q[i + 1] = q[j + 1] /\ q[i + 1] \in S
    BY <1>1
  <2>2. i + 1 = j + 1
    BY <2>1 DEF Distinct
  <2> QED BY <2>2
<1>3. ASSUME Head(q) \in S PROVE Head(q) \notin Elems(Tail(q))
  <2> SUFFICES ASSUME NEW i \in 1..Len(Tail(q)), Tail(q)[i] = Head(q) PROVE FALSE
    BY DEF Elems
  <2>1. 1 \in 1..Len(q) /\ i + 1 \in 1..Len(q) /\ q[i + 1] = q[1] /\ q[1] \in S
    BY <1>1, <1>3
  <2>2. i + 1 = 1
    BY <2>1 DEF Distinct
  <2> QED BY <2>2
<1> QED BY <1>2, <1>3

-----------------------------------------------------------------------------
(* The places of a frame between the capture and its registration. *)
Encoding == {eframe[w] : w \in Workers} \ {None}
ToSend == Elems(networkQ) \ {None}
InHand == {item} \ {None}

(* Where the sender holds no frame. *)
Empty == {"get", "drain", "sendEof", "eofOut"}

PlaceInv ==
  /\ captureQ \union Encoding \union ToSend \union InHand \union sent \subseteq Seen
  /\ cpc = "put" =>
       captured - 1 \notin captureQ \union Encoding \union ToSend \union InHand \union sent
  /\ captureQ \intersect (Encoding \union ToSend \union InHand \union sent) = {}
  /\ Encoding \intersect (ToSend \union InHand \union sent) = {}
  /\ ToSend \intersect (InHand \union sent) = {}
  /\ InHand \intersect sent = {}
  /\ \A v, w \in Workers : (eframe[v] = eframe[w] /\ eframe[v] # None) => v = w
  /\ Distinct(networkQ, Frames)
  /\ epc \in [Workers -> {"get", "encode", "put", "putNone", "exit"}]
  /\ \A w \in Workers : epc[w] = "get" => eframe[w] = None
  /\ npc \in Empty => item = None
  /\ item \in Frames \union {None}

LEMMA InitPlaces == Init => PlaceInv
<1> SUFFICES ASSUME Init PROVE PlaceInv
  OBVIOUS
<1>1. Encoding = {} /\ ToSend = {} /\ InHand = {} /\ sent = {} /\ captureQ = {}
  BY EmptySeq DEF Init, Encoding, ToSend, InHand, Elems
<1>2. Distinct(networkQ, Frames)
  BY EmptySeq DEF Init, Distinct
<1> QED BY <1>1, <1>2 DEF Init, PlaceInv

LEMMA CaptureKeepsPlaces == FrameInv /\ PlaceInv /\ Capture => PlaceInv'
<1> SUFFICES ASSUME FrameInv, PlaceInv, Capture PROVE PlaceInv'
  OBVIOUS
<1>1. UNCHANGED <<epc, eframe, networkQ, npc, item, sent>>
  BY DEF Capture, CaptureFrame, FramePut, CaptureOver, SignalStop, encodeVars, sendVars,
     senderLog
<1>2. UNCHANGED <<Encoding, ToSend, InHand>>
  BY <1>1 DEF Encoding, ToSend, InHand
<1> DEFINE Later == Encoding \union ToSend \union InHand \union sent
<1>3. Later' = Later
  BY <1>1, <1>2
<1>4. /\ captureQ' \union Later' \subseteq Seen'
      /\ cpc' = "put" => captured' - 1 \notin captureQ' \union Later'
      /\ captureQ' \intersect Later' = {}
  <2>0. /\ captureQ \union Later \subseteq Seen /\ captureQ \intersect Later = {}
        /\ cpc = "put" => captured - 1 \notin captureQ \union Later
        /\ captured \in Nat /\ captured \notin Seen
    BY BoundsAssumption DEF PlaceInv, FrameInv, Seen
  <2> HIDE DEF Later
  <2>1. CASE CaptureFrame
    <3>1. /\ captured' = captured + 1 /\ captured' - 1 = captured
          /\ Seen' = Seen \union {captured}
      BY <2>0, <2>1 DEF CaptureFrame, Seen
    <3> QED BY <1>3, <2>0, <2>1, <3>1 DEF CaptureFrame
  <2>2. CASE FramePut
    <3>1. Seen' = Seen /\ captured - 1 \in Seen /\ cpc = "put" /\ cpc' = "capture"
      BY <2>0, <2>2 DEF FramePut, Seen, FrameInv
    <3> QED BY <1>3, <2>0, <2>2, <3>1 DEF FramePut
  <2>3. CASE CaptureOver \/ SignalStop
    BY <1>3, <2>0, <2>3 DEF CaptureOver, SignalStop, captureQVars, Seen
  <2> QED BY <2>1, <2>2, <2>3 DEF Capture
<1> QED BY <1>1, <1>2, <1>4 DEF PlaceInv

(* What a worker takes and what it gives away. *)
LEMMA EncodingTakes ==
  ASSUME FrameInv, PlaceInv, NEW w \in Workers, NEW f \in Frames, eframe[w] = None,
         f \notin Encoding, eframe' = [eframe EXCEPT ![w] = f]
  PROVE  /\ Encoding' = Encoding \union {f}
         /\ \A u, v \in Workers : (eframe'[u] = eframe'[v] /\ eframe'[u] # None) => u = v
<1>1. \A v \in Workers : eframe'[v] = IF v = w THEN f ELSE eframe[v]
  BY DEF FrameInv
<1>2. f # None
  BY NoneAssumption
<1>3. \A v \in Workers : v # w => eframe[v] # f
  BY <1>2 DEF Encoding
<1> QED BY <1>1, <1>2, <1>3 DEF Encoding, PlaceInv

LEMMA EncodingGives ==
  ASSUME FrameInv, PlaceInv, NEW w \in Workers, eframe' = [eframe EXCEPT ![w] = None]
  PROVE  /\ Encoding' = Encoding \ {eframe[w]}
         /\ \A u, v \in Workers : (eframe'[u] = eframe'[v] /\ eframe'[u] # None) => u = v
<1>1. \A v \in Workers : eframe'[v] = IF v = w THEN None ELSE eframe[v]
  BY DEF FrameInv
<1> QED BY <1>1 DEF Encoding, PlaceInv

(* A worker that has taken a sentinel puts it on the sender's queue. *)
LEMMA NonePasses ==
  ASSUME FrameInv, PlaceInv, networkQ' = Append(networkQ, None)
  PROVE  ToSend' = ToSend /\ Distinct(networkQ', Frames)
<1>1. networkQ \in Seq(Frames \union {None}) /\ Distinct(networkQ, Frames)
  BY DEF FrameInv, PlaceInv
<1>2. Elems(networkQ') = Elems(networkQ) \union {None}
  BY <1>1, AppendElems
<1>3. Distinct(networkQ', Frames)
  BY <1>1, AppendDistinct, NoneAssumption
<1> QED BY <1>2, <1>3 DEF ToSend

LEMMA FramePasses ==
  ASSUME FrameInv, PlaceInv, NEW f \in Frames, f \notin ToSend,
         networkQ' = Append(networkQ, f)
  PROVE  ToSend' = ToSend \union {f} /\ Distinct(networkQ', Frames)
<1>1. networkQ \in Seq(Frames \union {None}) /\ Distinct(networkQ, Frames)
  BY DEF FrameInv, PlaceInv
<1>2. Elems(networkQ') = Elems(networkQ) \union {f} /\ f # None /\ f \notin Elems(networkQ)
  BY <1>1, AppendElems, NoneAssumption DEF ToSend
<1>3. Distinct(networkQ', Frames)
  BY <1>1, <1>2, AppendDistinct
<1> QED BY <1>2, <1>3 DEF ToSend

LEMMA EncodeKeepsPlaces ==
  ASSUME FrameInv, PlaceInv, NEW w \in Workers, Encode(w)
  PROVE  PlaceInv'
<1>1. UNCHANGED <<captured, cpc, npc, item, sent>> /\ UNCHANGED <<InHand, Seen>>
  BY DEF Encode, GetFrame, GetNone, NonePut, GetStopped, Encoded, FrameForwarded,
     EncodeFailed, captureVars, sendVars, senderLog, InHand, Seen
<1>2. CASE GetFrame(w)
  <2>1. PICK f \in captureQ : /\ captureQ' = captureQ \ {f}
                              /\ eframe' = [eframe EXCEPT ![w] = f]
    BY <1>2 DEF GetFrame
  <2>2. f \in Frames /\ f \notin Encoding /\ eframe[w] = None
    BY <1>2 DEF GetFrame, FrameInv, PlaceInv
  <2>3. /\ Encoding' = Encoding \union {f}
        /\ \A u, v \in Workers : (eframe'[u] = eframe'[v] /\ eframe'[u] # None) => u = v
    BY <2>1, <2>2, EncodingTakes
  <2>4. UNCHANGED <<networkQ, ToSend>>
    BY <1>2 DEF GetFrame, ToSend
  <2>5. /\ epc' \in [Workers -> {"get", "encode", "put", "putNone", "exit"}]
        /\ \A v \in Workers : epc'[v] = "get" => v # w /\ epc[v] = "get"
    BY <1>2 DEF GetFrame, PlaceInv
  <2>6. \A v \in Workers : epc'[v] = "get" => eframe'[v] = None
    BY <2>1, <2>5 DEF PlaceInv, FrameInv
  <2> QED BY <1>1, <2>1, <2>3, <2>4, <2>5, <2>6 DEF PlaceInv
<1>3. CASE GetNone(w) \/ NonePut(w) \/ GetStopped(w) \/ (Encoded(w) /\ UNCHANGED eframe)
  <2>1. UNCHANGED <<captureQ, eframe, Encoding>>
    BY <1>3 DEF GetNone, NonePut, GetStopped, Encoded, captureQVars, Encoding
  <2>2. ToSend' = ToSend /\ Distinct(networkQ', Frames)
    <3>1. CASE networkQ' = networkQ
      BY <3>1 DEF ToSend, PlaceInv
    <3>2. CASE networkQ' = Append(networkQ, None)
      BY <3>2, NonePasses
    <3>3. CASE Encoded(w) /\ UNCHANGED eframe /\ networkQ' # networkQ
      <4>1. eframe[w] = None /\ networkQ' = Append(networkQ, eframe[w])
        BY <3>3 DEF Encoded, GivenUp, Forwarded, FrameInv
      <4> QED BY <4>1, NonePasses
    <3> QED BY <1>3, <3>1, <3>2, <3>3 DEF GetNone, NonePut, GetStopped
  <2>3. /\ epc' \in [Workers -> {"get", "encode", "put", "putNone", "exit"}]
        /\ \A v \in Workers : epc'[v] = "get" => epc[v] = "get" \/ eframe[v] = None
    BY <1>3, <2>1 DEF GetNone, NonePut, GetStopped, Encoded, GivenUp, Forwarded, PlaceInv,
       FrameInv
  <2> QED BY <1>1, <2>1, <2>2, <2>3 DEF PlaceInv
<1>4. CASE (Encoded(w) /\ eframe' # eframe) \/ FrameForwarded(w) \/ EncodeFailed(w)
  <2>1. /\ eframe' = [eframe EXCEPT ![w] = None] /\ UNCHANGED captureQ
        /\ UNCHANGED networkQ \/ networkQ' = Append(networkQ, eframe[w])
    BY <1>4 DEF Encoded, FrameForwarded, EncodeFailed, GivenUp, Forwarded, captureQVars
  <2>2. /\ Encoding' = Encoding \ {eframe[w]}
        /\ \A u, v \in Workers : (eframe'[u] = eframe'[v] /\ eframe'[u] # None) => u = v
    BY <2>1, EncodingGives
  <2>3. /\ ToSend' \subseteq ToSend \union (Encoding \intersect {eframe[w]})
        /\ Distinct(networkQ', Frames)
    <3>1. CASE networkQ' = networkQ
      BY <3>1 DEF ToSend, PlaceInv
    <3>2. CASE networkQ' = Append(networkQ, eframe[w]) /\ eframe[w] = None
      BY <3>2, NonePasses
    <3>3. CASE networkQ' = Append(networkQ, eframe[w]) /\ eframe[w] # None
      <4>1. eframe[w] \in Frames /\ eframe[w] \in Encoding /\ eframe[w] \notin ToSend
        BY <3>3 DEF FrameInv, PlaceInv, Encoding
      <4> QED BY <3>3, <4>1, FramePasses
    <3> QED BY <2>1, <3>1, <3>2, <3>3
  <2>4. /\ epc' \in [Workers -> {"get", "encode", "put", "putNone", "exit"}]
        /\ \A v \in Workers : epc'[v] = "get" => eframe'[v] = None
    <3>1. \A v \in Workers : v # w => epc'[v] = epc[v]
      BY <1>4 DEF Encoded, FrameForwarded, EncodeFailed, GivenUp, Forwarded, PlaceInv
    <3>2. epc' \in [Workers -> {"get", "encode", "put", "putNone", "exit"}]
      BY <1>4 DEF Encoded, FrameForwarded, EncodeFailed, GivenUp, Forwarded, PlaceInv
    <3> QED BY <2>1, <3>1, <3>2 DEF PlaceInv, FrameInv
  <2> HIDE DEF Encoding, ToSend
  <2> QED BY <1>1, <2>1, <2>2, <2>3, <2>4 DEF PlaceInv
<1> QED BY <1>2, <1>3, <1>4 DEF Encode

LEMMA SendKeepsPlaces == FrameInv /\ PlaceInv /\ Send => PlaceInv'
<1> SUFFICES ASSUME FrameInv, PlaceInv, Send PROVE PlaceInv'
  OBVIOUS
<1>1. UNCHANGED <<captured, cpc, captureQ, epc, eframe>> /\ UNCHANGED <<Encoding, Seen>>
  BY DEF Send, SenderGetFrame, SenderGetNone, SenderStopped, SenderHeartbeat, Admitted,
     FrameOut, SendFailed, Registered, DrainWaited, EofOut, EofRecorded, captureVars,
     captureQVars, encodeVars, Encoding, Seen
<1>2. networkQ \in Seq(Frames \union {None}) /\ Distinct(networkQ, Frames)
  BY DEF FrameInv, PlaceInv
<1>3. CASE SenderGetFrame
  <2> DEFINE f == Head(networkQ)
  <2>1. /\ networkQ # <<>> /\ f # None /\ networkQ' = Tail(networkQ) /\ item' = f
        /\ item = None /\ npc' \notin Empty /\ UNCHANGED sent
    BY <1>3 DEF SenderGetFrame, PlaceInv, Empty
  <2>2. /\ f \in Frames /\ Elems(networkQ) = Elems(networkQ') \union {f}
        /\ f \notin Elems(networkQ') /\ Distinct(networkQ', Frames)
    <3>1. f \in Frames /\ Elems(networkQ) = Elems(Tail(networkQ)) \union {f}
      BY <1>2, <2>1, TailElems
    <3>2. f \notin Elems(Tail(networkQ)) /\ Distinct(Tail(networkQ), Frames)
      BY <1>2, <2>1, <3>1, TailDistinct
    <3> QED BY <2>1, <3>1, <3>2
  <2> HIDE DEF f
  <2>3. ToSend' = ToSend \ {f} /\ f \in ToSend /\ InHand' = {f}
    BY <2>1, <2>2 DEF ToSend, InHand
  <2> QED BY <1>1, <2>1, <2>2, <2>3 DEF PlaceInv
<1>4. CASE SenderGetNone
  <2>1. /\ networkQ # <<>> /\ Head(networkQ) = None /\ networkQ' = Tail(networkQ)
        /\ UNCHANGED <<item, sent>> /\ item = None
    BY <1>4 DEF SenderGetNone, PlaceInv, Empty
  <2>2. /\ Elems(networkQ) = Elems(Tail(networkQ)) \union {None}
        /\ Distinct(networkQ', Frames)
    BY <1>2, <2>1, TailElems, TailDistinct
  <2>3. ToSend' = ToSend /\ InHand' = InHand
    BY <2>1, <2>2 DEF ToSend, InHand
  <2> QED BY <1>1, <2>1, <2>2, <2>3 DEF PlaceInv
<1>5. CASE Registered
  <2>1. UNCHANGED networkQ /\ item' = None /\ sent' = sent \union {item} /\ item \in Frames
    BY <1>5 DEF Registered, FrameInv
  <2>2. ToSend' = ToSend /\ InHand' = {} /\ InHand = {item}
    BY <2>1, NoneAssumption DEF ToSend, InHand
  <2> QED BY <1>1, <1>2, <2>1, <2>2 DEF PlaceInv
<1>6. CASE ~SenderGetFrame /\ ~SenderGetNone /\ ~Registered
  <2>1. /\ UNCHANGED <<networkQ, sent>> /\ item' \in {item, None}
        /\ npc' \in Empty => npc \in Empty \/ item' = None
    BY <1>6 DEF Send, SenderStopped, SenderHeartbeat, Admitted, FrameOut, SendFailed,
       DrainWaited, EofOut, EofRecorded, SenderTurn, sendVars, senderLog, Empty
  <2>2. ToSend' = ToSend /\ InHand' \subseteq InHand
    BY <2>1 DEF ToSend, InHand
  <2> QED BY <1>1, <1>2, <2>1, <2>2 DEF PlaceInv
<1> QED BY <1>3, <1>4, <1>5, <1>6

LEMMA PlacesKept == FrameInv /\ PlaceInv /\ [Next]_vars => PlaceInv'
<1> SUFFICES ASSUME FrameInv, PlaceInv, [Next]_vars PROVE PlaceInv'
  OBVIOUS
<1>1. ASSUME UNCHANGED <<captured, captureQ, eframe, networkQ, item, sent>>,
             cpc' # "put" \/ UNCHANGED cpc,
             npc' \notin Empty \/ UNCHANGED npc,
             epc' = epc \/ epc' = [w \in Workers |-> "exit"]
      PROVE  PlaceInv'
  <2>1. UNCHANGED <<Seen, Encoding, ToSend, InHand>>
    BY <1>1 DEF Seen, Encoding, ToSend, InHand
  <2> QED BY <1>1, <2>1 DEF PlaceInv
<1>2. CASE Consume
  <2>1. UNCHANGED <<captureVars, captureQVars, encodeVars, networkQ, sendVars>>
    BY <1>2 DEF Consume, ConsumerStopped, AckConsumed, HeartbeatConsumed, PumpEnded,
       EofConsumed, UnknownReply, ErrorConsumed, DataConsumed, Emitted, NothingReady,
       EmitFailed, FlushEmitted, FlushFailed, Flushed, DeadlinePassed,
       HeartbeatMissed, ConsumerBlocks
  <2> QED BY <1>1, <2>1 DEF captureVars, captureQVars, encodeVars, sendVars, senderLog
<1>3. CASE Serve \/ ServerBeats
  <2>1. UNCHANGED <<captureVars, captureQVars, encodeVars, networkQ, sendVars>>
    BY <1>3 DEF Serve, ServerAcks, ServerAnswers, ServerReadsEof, ServerEnds, ServerBeats,
       serverUnchanged
  <2> QED BY <1>1, <2>1 DEF captureVars, captureQVars, encodeVars, sendVars, senderLog
<1>4. CASE Main
  BY <1>1, <1>4 DEF Main, Finished, TaskRaised, Failed, captureVars, captureQVars,
     encodeVars, sendVars, senderLog, Empty
<1>5. CASE UNCHANGED vars
  BY <1>1, <1>5 DEF vars, captureVars, captureQVars, encodeVars, sendVars, senderLog
<1> QED BY <1>2, <1>3, <1>4, <1>5, CaptureKeepsPlaces, EncodeKeepsPlaces, SendKeepsPlaces
        DEF Next

-----------------------------------------------------------------------------
(* The ACK of a frame comes once: it is due while the frame is on the wire, *)
(* then in reply_queue, then in ackSeen.                                    *)
Events == {e \in [kind : Kinds, seq : Frames \union {None}] :
             e.kind = "ACK" => e.seq \in Frames}
Acks == {Event("ACK", f) : f \in Frames}
OnWire == Elems(wire) \ {None}
AckQueued == {f \in Frames : Event("ACK", f) \in Elems(replyQ)}

OnceInv ==
  /\ wire \in Seq(Frames \union {None}) /\ Distinct(wire, Frames)
  /\ owed \subseteq Frames
  /\ replyQ \in Seq(Events) /\ Distinct(replyQ, Acks)
  /\ OnWire \intersect (AckQueued \union ackSeen) = {}
  /\ AckQueued \intersect ackSeen = {}
  /\ OnWire \union AckQueued \union ackSeen \subseteq sent \union InHand
  /\ npc \in {"window", "send"} => item \notin OnWire \union AckQueued \union ackSeen

LEMMA EventTyped ==
  ASSUME NEW k \in Kinds, NEW f \in Frames \union {None}
  PROVE  /\ (k # "ACK" \/ f # None) => Event(k, f) \in Events
         /\ k # "ACK" => Event(k, f) \notin Acks
         /\ k = "ACK" /\ f # None => Event(k, f) \in Acks
         /\ \A g : Event("ACK", g) = Event(k, f) <=> k = "ACK" /\ g = f
BY DEF Event, Events, Acks

LEMMA InitOnce == Init => OnceInv
<1> SUFFICES ASSUME Init PROVE OnceInv
  OBVIOUS
<1>1. OnWire = {} /\ AckQueued = {} /\ ackSeen = {}
  BY EmptySeq DEF Init, OnWire, AckQueued, Elems
<1>2. Distinct(wire, Frames) /\ Distinct(replyQ, Acks)
  BY EmptySeq DEF Init, Distinct
<1> QED BY <1>1, <1>2, EmptySeq DEF Init, OnceInv

(* A reply that is no ACK comes, or the next one is taken. *)
LEMMA ReplyComes ==
  ASSUME OnceInv, NEW k \in Kinds \ {"ACK"}, NEW f \in Frames \union {None},
         replyQ' = Append(replyQ, Event(k, f))
  PROVE  replyQ' \in Seq(Events) /\ Distinct(replyQ', Acks) /\ AckQueued' = AckQueued
<1>1. /\ replyQ \in Seq(Events) /\ Distinct(replyQ, Acks)
      /\ Event(k, f) \in Events /\ Event(k, f) \notin Acks
      /\ \A g : Event("ACK", g) # Event(k, f)
  BY EventTyped DEF OnceInv
<1>2. /\ replyQ' \in Seq(Events) /\ Elems(replyQ') = Elems(replyQ) \union {Event(k, f)}
      /\ Distinct(replyQ', Acks)
  BY <1>1, AppendElems, AppendDistinct
<1> QED BY <1>1, <1>2 DEF AckQueued

LEMMA ReplyTaken ==
  ASSUME OnceInv, replyQ # <<>>, replyQ' = Tail(replyQ)
  PROVE  /\ replyQ' \in Seq(Events) /\ Distinct(replyQ', Acks)
         /\ Head(replyQ) \in Events /\ AckQueued' \subseteq AckQueued
         /\ \A f \in Frames : Head(replyQ) = Event("ACK", f) =>
              f \in AckQueued /\ f \notin AckQueued'
<1>1. replyQ \in Seq(Events) /\ Distinct(replyQ, Acks)
  BY DEF OnceInv
<1>2. /\ replyQ' \in Seq(Events) /\ Head(replyQ) \in Events
      /\ Elems(replyQ) = Elems(replyQ') \union {Head(replyQ)}
      /\ Distinct(replyQ', Acks)
      /\ Head(replyQ) \in Acks => Head(replyQ) \notin Elems(replyQ')
  BY <1>1, TailElems, TailDistinct
<1>3. ASSUME NEW f \in Frames, Head(replyQ) = Event("ACK", f)
      PROVE  f \in AckQueued /\ f \notin AckQueued'
  BY <1>2, <1>3 DEF AckQueued, Acks
<1> QED BY <1>2, <1>3 DEF AckQueued

LEMMA SendKeepsOnce == FrameInv /\ PlaceInv /\ OnceInv /\ Send => OnceInv'
<1> SUFFICES ASSUME FrameInv, PlaceInv, OnceInv, Send PROVE OnceInv'
  OBVIOUS
<1>1. UNCHANGED <<owed, replyQ, AckQueued, ackSeen>>
  BY DEF Send, SenderGetFrame, SenderGetNone, SenderStopped, SenderHeartbeat, Admitted,
     FrameOut, SendFailed, Registered, DrainWaited, EofOut, EofRecorded, pump, server,
     history, AckQueued
<1>2. CASE FrameOut
  <2>1. /\ wire' = Append(wire, item) /\ UNCHANGED <<item, sent>> /\ npc = "send"
        /\ npc' = "sent"
    BY <1>2 DEF FrameOut, senderLog
  <2>2. item \in Frames /\ item # None /\ item \notin Elems(wire)
    BY <2>1, NoneAssumption DEF FrameInv, OnceInv, OnWire
  <2>3. /\ wire' \in Seq(Frames \union {None}) /\ Distinct(wire', Frames)
        /\ OnWire' = OnWire \union {item}
    <3>1. /\ wire' \in Seq(Frames \union {None}) /\ Elems(wire') = Elems(wire) \union {item}
          /\ Distinct(wire', Frames)
      BY <2>1, <2>2, AppendElems, AppendDistinct DEF OnceInv
    <3> QED BY <2>2, <3>1 DEF OnWire
  <2>4. InHand' = InHand /\ item \in InHand
    BY <2>1, <2>2 DEF InHand
  <2> QED BY <1>1, <2>1, <2>3, <2>4 DEF OnceInv
<1>3. CASE EofOut
  <2>1. wire' = Append(wire, None) /\ UNCHANGED <<item, sent>> /\ npc' = "eofOut"
    BY <1>3 DEF EofOut, senderLog
  <2>2. /\ wire' \in Seq(Frames \union {None}) /\ Distinct(wire', Frames) /\ OnWire' = OnWire
    <3>1. /\ wire' \in Seq(Frames \union {None}) /\ Elems(wire') = Elems(wire) \union {None}
          /\ Distinct(wire', Frames)
      BY <2>1, NoneAssumption, AppendElems, AppendDistinct DEF OnceInv
    <3> QED BY <3>1 DEF OnWire
  <2>3. InHand' = InHand
    BY <2>1 DEF InHand
  <2> QED BY <1>1, <2>1, <2>2, <2>3 DEF OnceInv
<1>4. CASE SenderGetFrame
  <2>1. /\ item' = Head(networkQ) /\ item = None /\ UNCHANGED <<wire, sent>>
        /\ item' \in ToSend
    <3>1. networkQ # <<>> /\ Head(networkQ) # None /\ item' = Head(networkQ)
      BY <1>4 DEF SenderGetFrame
    <3>2. Head(networkQ) \in Elems(networkQ)
      BY <3>1, TailElems DEF FrameInv
    <3> QED BY <1>4, <3>1, <3>2 DEF SenderGetFrame, PlaceInv, Empty, server, ToSend
  <2>2. InHand = {} /\ item' \notin sent /\ OnWire' = OnWire
    BY <2>1 DEF InHand, PlaceInv, OnWire
  <2> QED BY <1>1, <2>1, <2>2 DEF OnceInv
<1>5. CASE Registered
  <2>1. /\ npc' \notin {"window", "send"} /\ sent' = sent \union {item} /\ UNCHANGED wire
        /\ item' = None /\ OnWire' = OnWire
    BY <1>5 DEF Registered, SenderTurn, server, OnWire
  <2>2. InHand \subseteq {item}
    BY DEF InHand
  <2> QED BY <1>1, <2>1, <2>2 DEF OnceInv
<1>6. CASE Admitted \/ SendFailed
  <2>1. /\ UNCHANGED <<wire, sent, OnWire>> /\ npc' \in {"send", "done", "raised"}
        /\ \/ UNCHANGED item
           \/ item' = None /\ npc \in {"window", "send", "sendEof"} /\ npc' = "done"
        /\ npc' = "send" => npc = "window"
    BY <1>6 DEF Admitted, SendFailed, server, senderLog, OnWire
  <2>2. CASE UNCHANGED item
    BY <1>1, <2>1, <2>2 DEF OnceInv, InHand
  <2>3. CASE item' = None /\ npc \in {"window", "send", "sendEof"} /\ npc' = "done"
    <3>1. OnWire \union AckQueued \union ackSeen \subseteq sent
      <4>1. CASE npc \in {"window", "send"}
        BY <4>1 DEF OnceInv, InHand
      <4>2. CASE npc = "sendEof"
        BY <4>2 DEF OnceInv, InHand, PlaceInv, Empty
      <4> QED BY <2>3, <4>1, <4>2
    <3> QED BY <1>1, <2>1, <2>3, <3>1 DEF OnceInv
  <2> QED BY <2>1, <2>2, <2>3
<1>7. CASE SenderGetNone \/ SenderStopped \/ SenderHeartbeat \/ DrainWaited \/ EofRecorded
  <2>1. UNCHANGED <<wire, sent, item, OnWire, InHand>>
    BY <1>7 DEF SenderGetNone, SenderStopped, SenderHeartbeat, DrainWaited, EofRecorded,
       server, senderLog, sendVars, OnWire, InHand
  <2>2. npc' \in {"window", "send"} => npc' = npc
    BY <1>7 DEF SenderGetNone, SenderStopped, SenderHeartbeat, DrainWaited, EofRecorded,
       SenderTurn, sendVars
  <2> QED BY <1>1, <2>1, <2>2 DEF OnceInv
<1> QED BY <1>2, <1>3, <1>4, <1>5, <1>6, <1>7 DEF Send

(* The consumer takes an event; of the ACKs, only AckConsumed takes one.    *)
LEMMA ConsumeKeepsOnce == FrameInv /\ PlaceInv /\ OnceInv /\ Consume => OnceInv'
<1> SUFFICES ASSUME FrameInv, PlaceInv, OnceInv, Consume PROVE OnceInv'
  OBVIOUS
<1>1. UNCHANGED <<wire, owed, sent, item, npc>> /\ UNCHANGED <<OnWire, InHand>>
  BY DEF Consume, ConsumerStopped, AckConsumed, HeartbeatConsumed, PumpEnded,
     EofConsumed, UnknownReply, ErrorConsumed, DataConsumed, Emitted, NothingReady,
     EmitFailed, FlushEmitted, FlushFailed, Flushed, DeadlinePassed,
     HeartbeatMissed, ConsumerBlocks, server, sendVars,
     senderLog, OnWire, InHand
<1>2. CASE AckConsumed
  <2> DEFINE f == Head(replyQ).seq
  <2>1. /\ replyQ # <<>> /\ replyQ' = Tail(replyQ) /\ Head(replyQ).kind = "ACK"
        /\ ackSeen' = ackSeen \union {f}
    BY <1>2 DEF AckConsumed, NextIs
  <2>2. /\ replyQ' \in Seq(Events) /\ Distinct(replyQ', Acks)
        /\ Head(replyQ) \in Events /\ AckQueued' \subseteq AckQueued
        /\ \A g \in Frames : Head(replyQ) = Event("ACK", g) =>
             g \in AckQueued /\ g \notin AckQueued'
    BY <2>1, ReplyTaken
  <2>3. Head(replyQ) = Event("ACK", f)
    BY <2>1, <2>2 DEF Event, Events
  <2>4. f \in Frames
    BY <2>1, <2>2 DEF Events
  <2> HIDE DEF f
  <2>5. f \in AckQueued /\ f \notin AckQueued'
    BY <2>2, <2>3, <2>4
  <2> QED BY <1>1, <2>1, <2>2, <2>5 DEF OnceInv
<1>3. CASE ~AckConsumed
  <2>1. UNCHANGED ackSeen
    BY <1>3 DEF Consume, ConsumerStopped, HeartbeatConsumed, PumpEnded,
       EofConsumed, UnknownReply, ErrorConsumed, DataConsumed, Emitted, NothingReady,
       EmitFailed, FlushEmitted, FlushFailed, Flushed, DeadlinePassed,
       HeartbeatMissed, ConsumerBlocks, history
  <2>2. UNCHANGED replyQ \/ (replyQ # <<>> /\ replyQ' = Tail(replyQ))
    BY <1>3 DEF Consume, ConsumerStopped, HeartbeatConsumed, PumpEnded,
       EofConsumed, UnknownReply, ErrorConsumed, DataConsumed, Emitted, NothingReady,
       EmitFailed, FlushEmitted, FlushFailed, Flushed, DeadlinePassed,
       HeartbeatMissed, ConsumerBlocks, ReplyBlocks, TimerBlocks, pump, NextIs
  <2>3. CASE UNCHANGED replyQ
    BY <1>1, <2>1, <2>3 DEF OnceInv, AckQueued
  <2>4. CASE replyQ # <<>> /\ replyQ' = Tail(replyQ)
    <3>1. /\ replyQ' \in Seq(Events) /\ Distinct(replyQ', Acks)
          /\ AckQueued' \subseteq AckQueued
      BY <2>4, ReplyTaken
    <3> QED BY <1>1, <2>1, <3>1 DEF OnceInv
  <2> QED BY <2>2, <2>3, <2>4
<1> QED BY <1>2, <1>3

LEMMA ServeKeepsOnce == OnceInv /\ (Serve \/ ServerBeats) => OnceInv'
<1> SUFFICES ASSUME OnceInv, Serve \/ ServerBeats PROVE OnceInv'
  OBVIOUS
<1>1. UNCHANGED <<sent, item, npc, ackSeen, InHand>>
  BY DEF Serve, ServerAcks, ServerAnswers, ServerReadsEof, ServerEnds, ServerBeats,
     serverUnchanged, sendVars, senderLog, history, InHand
<1>2. CASE ServerAcks
  <2> DEFINE f == Head(wire)
  <2>1. /\ wire # <<>> /\ f # None /\ wire' = Tail(wire)
        /\ replyQ' = Append(replyQ, Event("ACK", f)) /\ owed' = owed \union {f}
    BY <1>2 DEF ServerAcks, Arrives
  <2>2. /\ f \in Frames /\ wire' \in Seq(Frames \union {None})
        /\ Elems(wire) = Elems(wire') \union {f}
    BY <2>1, TailElems DEF OnceInv
  <2>3. f \notin Elems(wire') /\ Distinct(wire', Frames)
    BY <2>1, <2>2, TailDistinct DEF OnceInv
  <2> HIDE DEF f
  <2>4. f \in OnWire /\ OnWire' = OnWire \ {f}
    BY <2>1, <2>2, <2>3 DEF OnWire
  <2>5. f \notin AckQueued /\ f \notin ackSeen
    BY <2>4 DEF OnceInv
  <2>6. /\ Event("ACK", f) \in Events /\ Event("ACK", f) \notin Elems(replyQ)
        /\ \A g : Event("ACK", g) = Event("ACK", f) <=> g = f
    BY <2>1, <2>2, <2>5, EventTyped DEF AckQueued, Kinds
  <2>7. /\ replyQ' \in Seq(Events) /\ Distinct(replyQ', Acks)
        /\ Elems(replyQ') = Elems(replyQ) \union {Event("ACK", f)}
    BY <2>1, <2>6, AppendElems, AppendDistinct DEF OnceInv
  <2>8. AckQueued' = AckQueued \union {f}
    BY <2>2, <2>6, <2>7 DEF AckQueued
  <2> QED BY <1>1, <2>1, <2>2, <2>3, <2>4, <2>5, <2>7, <2>8 DEF OnceInv
<1>3. CASE ServerReadsEof
  <2>1. /\ wire # <<>> /\ Head(wire) = None /\ wire' = Tail(wire) /\ UNCHANGED <<owed, replyQ>>
    BY <1>3 DEF ServerReadsEof, pump
  <2>2. /\ wire' \in Seq(Frames \union {None}) /\ Distinct(wire', Frames)
        /\ Elems(wire) = Elems(wire') \union {None}
    BY <2>1, TailElems, TailDistinct DEF OnceInv
  <2>3. OnWire' = OnWire /\ AckQueued' = AckQueued
    BY <2>1, <2>2 DEF OnWire, AckQueued
  <2> QED BY <1>1, <2>1, <2>2, <2>3 DEF OnceInv
<1>4. CASE ServerAnswers \/ ServerEnds \/ ServerBeats
  <2>1. /\ UNCHANGED <<wire, OnWire>> /\ owed' \subseteq owed
        /\ \E k \in Kinds \ {"ACK"}, f \in Frames \union {None} :
             replyQ' = Append(replyQ, Event(k, f))
    BY <1>4 DEF ServerAnswers, ServerEnds, ServerBeats, Arrives, server, OnWire, Kinds,
       OnceInv
  <2>2. replyQ' \in Seq(Events) /\ Distinct(replyQ', Acks) /\ AckQueued' = AckQueued
    BY <2>1, ReplyComes
  <2> QED BY <1>1, <2>1, <2>2 DEF OnceInv
<1> QED BY <1>2, <1>3, <1>4 DEF Serve

LEMMA OnceKept == FrameInv /\ PlaceInv /\ OnceInv /\ [Next]_vars => OnceInv'
<1> SUFFICES ASSUME FrameInv, PlaceInv, OnceInv, [Next]_vars PROVE OnceInv'
  OBVIOUS
<1>1. ASSUME UNCHANGED <<wire, owed, replyQ, ackSeen, sent, item>>,
             npc' \in {"window", "send"} => npc' = npc
      PROVE  OnceInv'
  BY <1>1 DEF OnceInv, OnWire, AckQueued, InHand
<1>2. CASE Capture
  BY <1>1, <1>2 DEF Capture, CaptureFrame, FramePut, CaptureOver, SignalStop, server, pump,
     history, sendVars, senderLog
<1>3. ASSUME NEW w \in Workers, Encode(w) PROVE OnceInv'
  BY <1>1, <1>3 DEF Encode, GetFrame, GetNone, NonePut, GetStopped, Encoded,
     FrameForwarded, EncodeFailed, server, pump, history, sendVars, senderLog
<1>4. CASE Main
  BY <1>1, <1>4 DEF Main, Finished, TaskRaised, Failed, server, pump, history, sendVars,
     senderLog
<1>5. CASE UNCHANGED vars
  BY <1>1, <1>5 DEF vars, server, pump, history, sendVars, senderLog
<1> QED BY <1>2, <1>3, <1>4, <1>5, SendKeepsOnce, ConsumeKeepsOnce, ServeKeepsOnce DEF Next

-----------------------------------------------------------------------------
(* The books.  A frame that was sent is pending at ControlPlane until its  *)
(* ACK is consumed, and from the moment it is admitted; an ACK consumed    *)
(* before its frame was registered is early.                               *)
Planes == [state : States, pending : SUBSET Frames]

BooksInv ==
  /\ cp \in Planes
  /\ inflight \subseteq sent
  /\ npc \in {"send", "sent"} => item \in cp.pending
  /\ sent \ ackSeen \subseteq cp.pending
  /\ ackSeen \ sent \subseteq early
  /\ AcksAreTracked /\ OnlyEarlyAcksLinger
  /\ mpc \in {"run", "cancelling", "failed", "finished"}

LEMMA PlaneKept ==
  ASSUME NEW p \in Planes
  PROVE  \A q \in {OnConnected(p), OnFirstData(p), OnEofSent(p), OnEofReceived(p),
                   OnError(p), OnShutdown(p), OnHeartbeat(p)} :
           q \in Planes /\ q.pending = p.pending
BY DEF Planes, OnConnected, OnFirstData, OnEofSent, OnEofReceived, OnError, OnShutdown,
   OnHeartbeat, Goto, Drained, States

LEMMA InitBooks == Init => BooksInv
<1> SUFFICES ASSUME Init PROVE BooksInv
  OBVIOUS
<1>1. NewPlane \in Planes
  BY DEF NewPlane, Planes, States
<1> QED BY <1>1, PlaneKept DEF Init, BooksInv, AcksAreTracked, OnlyEarlyAcksLinger

(* A step that sends nothing and consumes no ACK keeps the books, if what   *)
(* is pending stays so and what is taken out of flight is not awaited.      *)
LEMMA BooksStay ==
  ASSUME BooksInv, cp' \in Planes, cp.pending \subseteq cp'.pending,
         inflight' \subseteq inflight, acksPending' \subseteq acksPending,
         mpc' = "run" => mpc = "run" /\ acksPending' \subseteq inflight',
         UNCHANGED <<sent, ackSeen>>, early \subseteq early',
         npc' \in {"send", "sent"} => npc \in {"send", "sent"} /\ item' = item,
         mpc' \in {"run", "cancelling", "failed", "finished"}
  PROVE  BooksInv'
BY DEF BooksInv, AcksAreTracked, OnlyEarlyAcksLinger

LEMMA SendKeepsBooks == FrameInv /\ PlaceInv /\ BooksInv /\ Send => BooksInv'
<1> SUFFICES ASSUME FrameInv, PlaceInv, BooksInv, Send PROVE BooksInv'
  OBVIOUS
<1>1. /\ mpc = "run" /\ UNCHANGED <<mpc, ackSeen, early>>
  BY DEF Send, SenderGetFrame, SenderGetNone, SenderStopped, SenderHeartbeat, Admitted,
     FrameOut, SendFailed, Registered, DrainWaited, EofOut, EofRecorded, main, history
<1>2. CASE Registered
  <2>1. /\ npc = "sent" /\ npc' \notin {"send", "sent"} /\ UNCHANGED cp
        /\ inflight' = inflight \union {item} /\ acksPending' = acksPending \union {item}
        /\ sent' = sent \union {item}
    BY <1>2 DEF Registered, SenderTurn, session
  <2>2. item \in cp.pending /\ item \notin sent
    BY <2>1, NoneAssumption DEF BooksInv, PlaceInv, InHand, FrameInv
  <2> QED BY <1>1, <2>1, <2>2 DEF BooksInv, AcksAreTracked, OnlyEarlyAcksLinger
<1>3. CASE Admitted
  <2>1. UNCHANGED <<inflight, acksPending, sent>>
    BY <1>3 DEF Admitted, books, senderLog
  <2>2. CASE npc' = "send"
    <3>1. cp' = OnFrameSent(cp, item) /\ item' = item /\ item \in Frames
      BY <1>3, <2>2 DEF Admitted, FrameInv
    <3>2. cp' \in Planes /\ cp'.pending = cp.pending \union {item}
      BY <3>1 DEF OnFrameSent, Planes, States, BooksInv
    <3> QED BY <1>1, <2>1, <2>2, <3>1, <3>2 DEF BooksInv, AcksAreTracked,
            OnlyEarlyAcksLinger
  <2>3. CASE npc' # "send"
    <3>1. UNCHANGED cp /\ npc' \notin {"send", "sent"}
      BY <1>3, <2>3 DEF Admitted
    <3> QED BY <1>1, <2>1, <3>1, BooksStay DEF BooksInv, AcksAreTracked
  <2> QED BY <2>2, <2>3
<1>4. CASE ~Registered /\ ~Admitted
  <2>1. UNCHANGED <<inflight, acksPending, sent>>
    BY <1>4 DEF Send, SenderGetFrame, SenderGetNone, SenderStopped, SenderHeartbeat,
       FrameOut, SendFailed, DrainWaited, EofOut, EofRecorded, books, senderLog, sendVars
  <2>2. cp' \in {cp, OnEofSent(cp)}
    BY <1>4 DEF Send, SenderGetFrame, SenderGetNone, SenderStopped, SenderHeartbeat,
       FrameOut, SendFailed, DrainWaited, EofOut, EofRecorded, session
  <2>3. npc' \in {"send", "sent"} => npc \in {"send", "sent"} /\ item' = item
    BY <1>4 DEF Send, SenderGetFrame, SenderGetNone, SenderStopped, SenderHeartbeat,
       FrameOut, SendFailed, DrainWaited, EofOut, EofRecorded, SenderTurn, sendVars
  <2>4. cp' \in Planes /\ cp'.pending = cp.pending
    BY <2>2, PlaneKept DEF BooksInv
  <2> QED BY <1>1, <2>1, <2>3, <2>4, BooksStay DEF BooksInv, AcksAreTracked
<1> QED BY <1>2, <1>3, <1>4

LEMMA AckKeepsBooks ==
  FrameInv /\ PlaceInv /\ BooksInv /\ mpc = "run" /\ AckConsumed => BooksInv'
<1> SUFFICES ASSUME FrameInv, PlaceInv, BooksInv, mpc = "run", AckConsumed
             PROVE  BooksInv'
  OBVIOUS
<1> DEFINE f == Head(replyQ).seq
<1>1. /\ acksPending' = acksPending \ {f} /\ ackSeen' = ackSeen \union {f}
      /\ UNCHANGED <<inflight, sent, item, npc, mpc>>
  BY DEF AckConsumed, sendVars, senderLog, main
<1>2. CASE f \in inflight
  <2>1. /\ cp' = IF OnAckRaises(cp, f) THEN OnError(cp) ELSE OnAck(cp, f)
        /\ UNCHANGED early
    BY <1>2 DEF AckConsumed, AckInFlight
  <2> HIDE DEF f
  <2>2. cp' \in Planes /\ cp.pending \ {f} \subseteq cp'.pending
    <3>1. OnError(cp) \in Planes /\ OnError(cp).pending = cp.pending
      BY PlaneKept DEF BooksInv
    <3>2. OnAck(cp, f) \in Planes /\ OnAck(cp, f).pending = cp.pending \ {f}
      BY DEF BooksInv, OnAck, Drained, Goto, Planes, States
    <3> QED BY <2>1, <3>1, <3>2
  <2>3. npc \in {"send", "sent"} => item # f
    BY <1>2, NoneAssumption DEF BooksInv, PlaceInv, InHand, FrameInv
  <2> QED BY <1>1, <1>2, <2>1, <2>2, <2>3 DEF BooksInv, AcksAreTracked,
          OnlyEarlyAcksLinger
<1>3. CASE f \notin inflight
  <2>1. UNCHANGED cp /\ early' = early \union {f}
    BY <1>3 DEF AckConsumed, session
  <2> HIDE DEF f
  <2> QED BY <1>1, <1>3, <2>1 DEF BooksInv, AcksAreTracked, OnlyEarlyAcksLinger
<1> QED BY <1>2, <1>3

LEMMA ConsumeKeepsBooks == FrameInv /\ PlaceInv /\ BooksInv /\ Consume => BooksInv'
<1> SUFFICES ASSUME FrameInv, PlaceInv, BooksInv, Consume PROVE BooksInv'
  OBVIOUS
<1>1. CASE AckConsumed
  <2>1. mpc = "run"
    BY <1>1 DEF Consume, AckConsumed, NextIs
  <2> QED BY <1>1, <2>1, AckKeepsBooks
<1>2. CASE ~AckConsumed
  <2>1. UNCHANGED <<sent, ackSeen, npc, item, mpc>>
    BY <1>2 DEF Consume, ConsumerStopped, HeartbeatConsumed, PumpEnded, EofConsumed,
       UnknownReply, ErrorConsumed, DataConsumed, Emitted, NothingReady, EmitFailed,
       FlushEmitted, FlushFailed, Flushed, DeadlinePassed,
       HeartbeatMissed, ConsumerBlocks, sendVars, senderLog,
       history, main
  <2>2. early \subseteq early'
    BY <1>2 DEF Consume, ConsumerStopped, HeartbeatConsumed, PumpEnded, EofConsumed,
       UnknownReply, ErrorConsumed, DataConsumed, Emitted, NothingReady, EmitFailed,
       FlushEmitted, FlushFailed, Flushed, DeadlinePassed,
       HeartbeatMissed, ConsumerBlocks, history
  <2>3. /\ acksPending' \subseteq acksPending /\ inflight' \subseteq inflight
        /\ acksPending \subseteq inflight => acksPending' \subseteq inflight'
    BY <1>2 DEF Consume, ConsumerStopped, HeartbeatConsumed, PumpEnded, EofConsumed,
       UnknownReply, ErrorConsumed, DataConsumed, Emitted, NothingReady, EmitFailed,
       FlushEmitted, FlushFailed, Flushed, DeadlinePassed,
       HeartbeatMissed, ConsumerBlocks, Pop, books
  <2>4. cp' \in Planes /\ cp.pending \subseteq cp'.pending
    <3>1. CASE DeadlinePassed
      <4>1. \/ cp' \in {cp, OnError(cp)}
            \/ \E late \in SUBSET inflight : cp' = Rearmed(late)
        BY <3>1 DEF DeadlinePassed
      <4>2. \A late \in SUBSET inflight :
              Rearmed(late) \in Planes /\ cp.pending \subseteq Rearmed(late).pending
        BY DEF Rearmed, Planes, States, BooksInv, FrameInv
      <4> QED BY <4>1, <4>2, PlaneKept DEF BooksInv
    <3>2. CASE ~DeadlinePassed
      <4>1. cp' \in {cp, OnFirstData(cp), OnHeartbeat(cp), OnError(cp), OnEofReceived(cp)}
        BY <1>2, <3>2 DEF Consume, ConsumerStopped, HeartbeatConsumed, PumpEnded,
           EofConsumed, UnknownReply, ErrorConsumed, DataConsumed, Emitted, NothingReady,
           EmitFailed, FlushEmitted, FlushFailed, Flushed, HeartbeatMissed,
           ConsumerBlocks, ReplyBlocks, TimerBlocks, EofPlane, session
      <4> QED BY <4>1, PlaneKept DEF BooksInv
    <3> QED BY <3>1, <3>2
  <2> QED BY <2>1, <2>2, <2>3, <2>4, BooksStay DEF BooksInv, AcksAreTracked
<1> QED BY <1>1, <1>2

LEMMA BooksKept == FrameInv /\ PlaceInv /\ BooksInv /\ [Next]_vars => BooksInv'
<1> SUFFICES ASSUME FrameInv, PlaceInv, BooksInv, [Next]_vars PROVE BooksInv'
  OBVIOUS
<1>1. ASSUME UNCHANGED <<sendVars, books, cp, mpc, ackSeen, early>> PROVE BooksInv'
  BY <1>1 DEF BooksInv, AcksAreTracked, OnlyEarlyAcksLinger, sendVars, senderLog, books
<1>2. CASE Capture
  BY <1>1, <1>2 DEF Capture, CaptureFrame, FramePut, CaptureOver, SignalStop, session, main,
     history
<1>3. ASSUME NEW w \in Workers, Encode(w) PROVE BooksInv'
  BY <1>1, <1>3 DEF Encode, GetFrame, GetNone, NonePut, GetStopped, Encoded,
     FrameForwarded, EncodeFailed, session, main, history
<1>4. CASE Serve \/ ServerBeats
  BY <1>1, <1>4 DEF Serve, ServerAcks, ServerAnswers, ServerReadsEof, ServerEnds,
     ServerBeats, serverUnchanged, session, main, history
<1>5. CASE Main
  <2>1. /\ cp' \in {cp, OnShutdown(cp)} /\ inflight' \subseteq inflight
        /\ acksPending' \subseteq acksPending /\ UNCHANGED <<sent, ackSeen, early, item>>
        /\ mpc' \in {"cancelling", "failed", "finished"}
        /\ npc' \in {"send", "sent"} => npc' = npc
    BY <1>5 DEF Main, Finished, TaskRaised, Failed, session, books, history, sendVars,
       senderLog
  <2>2. cp' \in Planes /\ cp'.pending = cp.pending
    BY <2>1, PlaneKept DEF BooksInv
  <2> QED BY <2>1, <2>2, BooksStay
<1>6. CASE UNCHANGED vars
  BY <1>1, <1>6 DEF vars, session, main, history
<1> QED BY <1>2, <1>3, <1>4, <1>5, <1>6, SendKeepsBooks, ConsumeKeepsBooks DEF Next

-----------------------------------------------------------------------------
(* A report is written once, when every task has ended. *)
ReportInv ==
  /\ ReportHonest
  /\ report # NoReport => mpc = "finished"
  /\ IsFiniteSet(ackSeen)

LEMMA FramesFinite == ASSUME NEW S, S \subseteq Frames PROVE IsFiniteSet(S)
<1>1. IsFiniteSet(Frames)
  BY FS_Interval, BoundsAssumption DEF Frames
<1> QED BY <1>1, FS_Subset

LEMMA WrittenIsHonest ==
  ASSUME FrameInv, WindowInv, PlaceInv, BooksInv, ReportInv, Finished,
         report' # NoReport
  PROVE  /\ report'.acked <= Cardinality(ackSeen)
         /\ report'.state = "TERMINATED" => sent \subseteq ackSeen
<1> DEFINE p == Cardinality(cp.pending)
           a == Cardinality(acksPending)
           s == Cardinality(sent)
<1>1. cp'.pending = cp.pending /\ cp'.pending \subseteq Frames
  BY PlaneKept DEF Finished, BooksInv, Planes
<1>2. sent \subseteq Frames
  BY BoundsAssumption DEF PlaceInv, Seen, FrameInv, Frames
<1>3. p \in Nat /\ s \in Nat /\ Cardinality(ackSeen) \in Nat
  BY <1>1, <1>2, FramesFinite, FS_CardinalityType DEF ReportInv
<1>4. s <= Cardinality(ackSeen) + p
  <2>1. IsFiniteSet(cp.pending \union ackSeen) /\ sent \subseteq cp.pending \union ackSeen
    BY <1>1, FramesFinite, FS_Union DEF BooksInv, ReportInv
  <2>2. s <= Cardinality(cp.pending \union ackSeen)
    BY <2>1, FS_Subset
  <2>3. Cardinality(cp.pending \union ackSeen) <= p + Cardinality(ackSeen)
    <3>1. /\ IsFiniteSet(cp.pending) /\ IsFiniteSet(ackSeen)
          /\ IsFiniteSet(cp.pending \intersect ackSeen)
      BY <1>1, FramesFinite, FS_Intersection DEF ReportInv
    <3>2. Cardinality(cp.pending \union ackSeen) =
            p + Cardinality(ackSeen) - Cardinality(cp.pending \intersect ackSeen)
      BY <3>1, FS_Union
    <3>3. Cardinality(cp.pending \intersect ackSeen) \in Nat
      BY <3>1, FS_CardinalityType
    <3> QED BY <1>3, <3>2, <3>3
  <2>4. Cardinality(cp.pending \union ackSeen) \in Nat
    BY <2>1, FS_CardinalityType
  <2> QED BY <1>3, <2>2, <2>3, <2>4
<1>5. a \in Nat /\ (a > p => s - a <= s - p)
  BY <1>3, FS_CardinalityType DEF WindowInv
<1>6. /\ report' = Report(cp'.state, p, Cardinality(inflight), a, s)
      /\ ~ExportRaises(cp'.state, p, Cardinality(inflight), a)
      /\ report'.acked = IF s > Awaited(p, a) THEN s - Awaited(p, a) ELSE 0
      /\ report'.state = cp'.state
  <2>1. report' = Report(cp'.state, p, Cardinality(inflight), a, s)
    BY <1>1 DEF Finished
  <2> QED BY <2>1 DEF Report
<1>7. report'.acked <= Cardinality(ackSeen)
  <2> HIDE DEF p, a, s
  <2> QED BY <1>3, <1>4, <1>5, <1>6 DEF Awaited
<1>8. ASSUME report'.state = "TERMINATED" PROVE sent \subseteq ackSeen
  <2>1. p = 0
    BY <1>6, <1>8 DEF ExportRaises
  <2>2. cp.pending = {}
    BY <1>1, <2>1, FramesFinite, FS_EmptySet
  <2> QED BY <2>2 DEF BooksInv
<1> QED BY <1>7, <1>8

LEMMA ReportKept ==
  FrameInv /\ WindowInv /\ PlaceInv /\ BooksInv /\ ReportInv /\ [Next]_vars => ReportInv'
<1> SUFFICES ASSUME FrameInv, WindowInv, PlaceInv, BooksInv, ReportInv, [Next]_vars
             PROVE  ReportInv'
  OBVIOUS
<1>1. ASSUME UNCHANGED <<mpc, report, sent, ackSeen>> PROVE ReportInv'
  BY <1>1 DEF ReportInv, ReportHonest
<1>2. CASE Capture
  BY <1>1, <1>2 DEF Capture, CaptureFrame, FramePut, CaptureOver, SignalStop, main, history,
     sendVars, senderLog
<1>3. ASSUME NEW w \in Workers, Encode(w) PROVE ReportInv'
  BY <1>1, <1>3 DEF Encode, GetFrame, GetNone, NonePut, GetStopped, Encoded,
     FrameForwarded, EncodeFailed, main, history, sendVars, senderLog
<1>4. CASE Serve \/ ServerBeats
  BY <1>1, <1>4 DEF Serve, ServerAcks, ServerAnswers, ServerReadsEof, ServerEnds,
     ServerBeats, serverUnchanged, main, history, sendVars, senderLog
<1>5. CASE UNCHANGED vars
  BY <1>1, <1>5 DEF vars, main, history, sendVars, senderLog
<1>6. CASE Finished
  <2>1. /\ mpc = "run" /\ mpc' = "finished" /\ UNCHANGED <<sent, ackSeen>>
    BY <1>6 DEF Finished, sendVars, senderLog, history
  <2> QED BY <1>6, <2>1, WrittenIsHonest DEF ReportInv, ReportHonest
<1>7. CASE TaskRaised \/ Failed
  <2>1. /\ mpc # "finished" /\ UNCHANGED <<report, ackSeen>>
    BY <1>7 DEF TaskRaised, Failed, history
  <2> QED BY <2>1 DEF ReportInv, ReportHonest
<1>8. ASSUME mpc # "finished", UNCHANGED <<mpc, report>>, IsFiniteSet(ackSeen')
      PROVE  ReportInv'
  BY <1>8 DEF ReportInv, ReportHonest
<1>9. CASE Send
  <2>1. mpc = "run" /\ UNCHANGED <<mpc, report, ackSeen>>
    BY <1>9 DEF Send, SenderGetFrame, SenderGetNone, SenderStopped, SenderHeartbeat,
       Admitted, FrameOut, SendFailed, Registered, DrainWaited, EofOut, EofRecorded, main,
       history
  <2> QED BY <1>8, <2>1 DEF ReportInv
<1>10. CASE Consume
  <2>1. /\ mpc # "finished" /\ UNCHANGED <<mpc, report>>
        /\ ackSeen' = ackSeen \/ \E f : ackSeen' = ackSeen \union {f}
    BY <1>10 DEF Consume, ConsumerStopped, AckConsumed, HeartbeatConsumed, PumpEnded,
       EofConsumed, UnknownReply, ErrorConsumed, DataConsumed, Emitted, NothingReady,
       EmitFailed, FlushEmitted, FlushFailed, Flushed, DeadlinePassed,
       HeartbeatMissed, ConsumerBlocks, main, history
  <2>2. IsFiniteSet(ackSeen')
    BY <2>1, FS_AddElement DEF ReportInv
  <2> QED BY <1>8, <2>1, <2>2
<1> QED BY <1>2, <1>3, <1>4, <1>5, <1>6, <1>7, <1>9, <1>10 DEF Next, Main

-----------------------------------------------------------------------------
AckInv == IInv /\ PlaceInv /\ OnceInv /\ BooksInv /\ ReportInv

LEMMA AckInvariance == Spec => []AckInv
<1>1. Init => AckInv
  <2>1. Init => ReportInv
    BY FS_EmptySet DEF Init, ReportInv, ReportHonest
  <2> QED BY <2>1, InitHolds, InitPlaces, InitOnce, InitBooks DEF AckInv
<1>2. AckInv /\ [Next]_vars => AckInv'
  BY FramesKept, WindowKept, OrderKept, PlacesKept, OnceKept, BooksKept, ReportKept
     DEF AckInv, IInv
<1> QED BY <1>1, <1>2, PTL DEF Spec

(* While the session runs, a frame whose ACK is awaited is in flight and    *)
(* pending at ControlPlane: the three books agree.                          *)
THEOREM BooksAgree == Spec => []AcksAreTracked
BY AckInvariance, PTL DEF AckInv, BooksInv

(* A frame is still awaited after its ACK only if the ACK was consumed      *)
(* before the sender had registered the frame.                              *)
THEOREM LingeringIsEarly == Spec => []OnlyEarlyAcksLinger
BY AckInvariance, PTL DEF AckInv, BooksInv

(* on_ack is never asked for a sequence it does not hold: the client's own  *)
(* bookkeeping cannot fail a session.                                       *)
THEOREM NoAckIsRefused == Spec => []AckNeverRefused
<1>1. AckInv => AckNeverRefused
  <2> SUFFICES ASSUME AckInv, NEW f \in Queued("ACK"), f \in inflight
               PROVE  f \in cp.pending
    BY DEF AckNeverRefused
  <2>1. PICK i \in DOMAIN replyQ : replyQ[i].kind = "ACK" /\ f = replyQ[i].seq
    BY DEF Queued
  <2>2. i \in 1..Len(replyQ) /\ replyQ[i] \in Events /\ f \in Frames
    BY <2>1 DEF AckInv, OnceInv, IInv, FrameInv
  <2>3. replyQ[i] = Event("ACK", f)
    BY <2>1, <2>2 DEF Events, Event
  <2>4. f \in AckQueued
    BY <2>2, <2>3 DEF AckQueued, Elems
  <2> QED BY <2>4 DEF AckInv, OnceInv, BooksInv
<1> QED BY <1>1, AckInvariance, PTL

(* What a client reports of itself is true: it counts no frame as           *)
(* acknowledged that was not, and one that reports TERMINATED has had the   *)
(* ACK of every frame it sent.                                              *)
THEOREM ReportIsHonest == Spec => []ReportHonest
BY AckInvariance, PTL DEF AckInv, ReportInv

-----------------------------------------------------------------------------
(* The end.  MSG_EOF goes out behind everything else, and a session that    *)
(* has ended is not served.                                                 *)

(* Nobody clears stop_event. *)
LEMMA StopStays == [Next]_vars => (stop => stop')
<1> SUFFICES ASSUME [Next]_vars, stop PROVE stop'
  OBVIOUS
<1>1. CASE Capture
  BY <1>1 DEF Capture, CaptureFrame, FramePut, CaptureOver, SignalStop
<1>2. ASSUME NEW w \in Workers, Encode(w) PROVE stop'
  BY <1>2 DEF Encode, GetFrame, GetNone, NonePut, GetStopped, Encoded, FrameForwarded,
     EncodeFailed
<1>3. CASE Send
  BY <1>3 DEF Send, SenderGetFrame, SenderGetNone, SenderStopped, SenderHeartbeat,
     Admitted, FrameOut, SendFailed, Registered, DrainWaited, EofOut, EofRecorded,
     FailAndSignal
<1>4. CASE Consume
  <2>1. CASE AckConsumed \/ DataConsumed \/ EmitFailed \/ DeadlinePassed
    BY <2>1 DEF AckConsumed, DataConsumed, EmitFailed, DeadlinePassed, AckInFlight,
       ConsumerRaises, FailAndSignal
  <2>2. CASE ConsumerStopped \/ HeartbeatConsumed \/ PumpEnded \/ EofConsumed
             \/ UnknownReply \/ ErrorConsumed \/ Emitted \/ NothingReady
             \/ FlushEmitted \/ FlushFailed \/ Flushed \/ HeartbeatMissed
             \/ ConsumerBlocks
    BY <2>2 DEF ConsumerStopped, HeartbeatConsumed, PumpEnded, EofConsumed,
       UnknownReply, ErrorConsumed, Emitted, NothingReady, FlushEmitted, FlushFailed,
       Flushed, HeartbeatMissed, ConsumerBlocks, FailAndSignal
  <2> QED BY <1>4, <2>1, <2>2 DEF Consume
<1>5. CASE Serve \/ ServerBeats
  BY <1>5 DEF Serve, ServerAcks, ServerAnswers, ServerReadsEof, ServerEnds, ServerBeats,
     serverUnchanged
<1>6. CASE Main
  BY <1>6 DEF Main, Finished, TaskRaised, Failed, FailAndSignal
<1>7. CASE UNCHANGED vars
  BY <1>7 DEF vars
<1> QED BY <1>1, <1>2, <1>3, <1>4, <1>5, <1>6, <1>7 DEF Next

(* run_client leaves its wait for the tasks only with stop_event set. *)
StopInv == mpc # "run" => stop

LEMMA StopKept == StopInv /\ [Next]_vars => StopInv'
<1> SUFFICES ASSUME StopInv, [Next]_vars PROVE StopInv'
  OBVIOUS
<1>0. stop => stop'
  BY StopStays
<1>1. ASSUME UNCHANGED mpc PROVE StopInv'
  BY <1>0, <1>1 DEF StopInv
<1>2. CASE Main
  BY <1>0, <1>2 DEF Main, Finished, TaskRaised, Failed, FailAndSignal, StopInv
<1>3. CASE Capture
  BY <1>1, <1>3 DEF Capture, CaptureFrame, FramePut, CaptureOver, SignalStop, main
<1>4. ASSUME NEW w \in Workers, Encode(w) PROVE StopInv'
  BY <1>1, <1>4 DEF Encode, GetFrame, GetNone, NonePut, GetStopped, Encoded, FrameForwarded,
     EncodeFailed, main
<1>5. CASE Send
  BY <1>1, <1>5 DEF Send, SenderGetFrame, SenderGetNone, SenderStopped, SenderHeartbeat,
     Admitted, FrameOut, SendFailed, Registered, DrainWaited, EofOut, EofRecorded, main
<1>6. CASE Consume
  BY <1>1, <1>6 DEF Consume, ConsumerStopped, AckConsumed, HeartbeatConsumed, PumpEnded,
     EofConsumed, UnknownReply, ErrorConsumed, DataConsumed, Emitted, NothingReady,
     EmitFailed, FlushEmitted, FlushFailed, Flushed, DeadlinePassed,
     HeartbeatMissed, ConsumerBlocks, main
<1>7. CASE Serve \/ ServerBeats
  BY <1>1, <1>7 DEF Serve, ServerAcks, ServerAnswers, ServerReadsEof, ServerEnds,
     ServerBeats, serverUnchanged, main
<1>8. CASE UNCHANGED vars
  BY <1>1, <1>8 DEF vars, main
<1> QED BY <1>2, <1>3, <1>4, <1>5, <1>6, <1>7, <1>8 DEF Next

-----------------------------------------------------------------------------
(* The sentinels.  Each one the sender counts has a worker that left behind *)
(* it, and without a stop the last one is behind every frame.               *)
Exited(pc) == {w \in Workers : pc[w] = "exit"}
Nones(q) == {i \in 1..Len(q) : q[i] = None}
EndsInNone(q) == q # <<>> => q[Len(q)] = None
CaptureEmpty == cpc \in {"signal", "done"} /\ captureQ = {}

SentinelInv ==
  /\ captureNones \in Nat /\ (captureNones > 0 => cpc \in {"signal", "done"})
  /\ finished \in Nat
  /\ finished + Cardinality(Nones(networkQ)) <= Cardinality(Exited(epc))
  /\ npc = "drain" => AllFinished(finished)
  /\ \A w \in Workers : epc[w] \in {"encode", "put"} => eframe[w] \in Frames
  /\ ~stop =>
       /\ \A w \in Workers : epc[w] \in {"putNone", "exit"} => eframe[w] = None /\ CaptureEmpty
       /\ Exited(epc) = Workers => EndsInNone(networkQ)

LEMMA ExitedFinite ==
  ASSUME NEW pc
  PROVE  /\ IsFiniteSet(Exited(pc)) /\ Cardinality(Exited(pc)) \in Nat
         /\ Cardinality(Exited(pc)) <= Cardinality(Workers)
         /\ Cardinality(Exited(pc)) = Cardinality(Workers) => Exited(pc) = Workers
         /\ Cardinality(Workers) \in Nat \ {0}
<1>1. Exited(pc) \subseteq Workers
  BY DEF Exited
<1>2. Cardinality(Workers) \in Nat \ {0}
  BY WorkersAssumption, FS_CardinalityType, FS_EmptySet
<1> QED BY <1>1, <1>2, WorkersAssumption, FS_Subset, FS_CardinalityType

LEMMA ExitedGrow ==
  ASSUME NEW pc, NEW pd, Exited(pc) \subseteq Exited(pd)
  PROVE  Cardinality(Exited(pc)) <= Cardinality(Exited(pd))
BY ExitedFinite, FS_Subset

LEMMA OneMoreExits ==
  ASSUME NEW pc \in [Workers -> {"get", "encode", "put", "putNone", "exit"}],
         NEW w \in Workers, pc[w] # "exit"
  PROVE  /\ Exited([pc EXCEPT ![w] = "exit"]) = Exited(pc) \union {w}
         /\ Cardinality(Exited([pc EXCEPT ![w] = "exit"])) = Cardinality(Exited(pc)) + 1
<1>1. /\ Exited([pc EXCEPT ![w] = "exit"]) = Exited(pc) \union {w}
      /\ w \notin Exited(pc)
  BY DEF Exited
<1> QED BY <1>1, ExitedFinite, FS_AddElement

LEMMA NonesFinite ==
  ASSUME NEW S, NEW q \in Seq(S)
  PROVE  IsFiniteSet(Nones(q)) /\ Cardinality(Nones(q)) \in Nat
<1>1. Nones(q) \subseteq 1..Len(q) /\ Len(q) \in Nat
  BY LenProperties DEF Nones
<1>2. IsFiniteSet(1..Len(q))
  BY <1>1, FS_Interval
<1> QED BY <1>1, <1>2, FS_Subset, FS_CardinalityType

LEMMA NonesAppended ==
  ASSUME NEW S, NEW q \in Seq(S), NEW x \in S
  PROVE  /\ Cardinality(Nones(Append(q, x)))
              = Cardinality(Nones(q)) + (IF x = None THEN 1 ELSE 0)
         /\ x = None => EndsInNone(Append(q, x))
<1>1. /\ Len(Append(q, x)) = Len(q) + 1 /\ Len(q) \in Nat
      /\ \A i \in 1..Len(q) : Append(q, x)[i] = q[i]
      /\ Append(q, x)[Len(q) + 1] = x
  BY AppendProperties, LenProperties
<1>2. CASE x = None
  <2>1. Nones(Append(q, x)) = Nones(q) \union {Len(q) + 1} /\ Len(q) + 1 \notin Nones(q)
    BY <1>1, <1>2 DEF Nones
  <2>2. EndsInNone(Append(q, x))
    BY <1>1, <1>2 DEF EndsInNone
  <2> QED BY <1>2, <2>1, <2>2, NonesFinite, FS_AddElement
<1>3. CASE x # None
  <2>1. Nones(Append(q, x)) = Nones(q)
    BY <1>1, <1>3 DEF Nones
  <2> QED BY <1>3, <2>1, NonesFinite
<1> QED BY <1>2, <1>3

LEMMA NonesTail ==
  ASSUME NEW S, NEW q \in Seq(S), q # <<>>
  PROVE  /\ Cardinality(Nones(Tail(q)))
              = Cardinality(Nones(q)) - (IF Head(q) = None THEN 1 ELSE 0)
         /\ EndsInNone(q) => EndsInNone(Tail(q))
<1>1. /\ Len(q) \in Nat \ {0} /\ Len(Tail(q)) = Len(q) - 1 /\ Head(q) = q[1]
      /\ \A i \in 1..Len(Tail(q)) : Tail(q)[i] = q[i + 1]
      /\ Tail(q) \in Seq(S)
  BY TailElems
<1> DEFINE rest == Nones(q) \ {1}
           shift == [i \in Nones(Tail(q)) |-> i + 1]
<1>2. shift \in Bijection(Nones(Tail(q)), rest)
  <2>1. \A i \in Nones(Tail(q)) : i \in Nat /\ i + 1 \in rest
    BY <1>1 DEF Nones
  <2>2. \A k \in rest : k - 1 \in Nones(Tail(q)) /\ shift[k - 1] = k
    BY <1>1 DEF Nones
  <2>3. shift \in [Nones(Tail(q)) -> rest]
    BY <2>1
  <2>4. \A i, k \in Nones(Tail(q)) : shift[i] = shift[k] => i = k
    BY <2>1
  <2>5. shift \in Injection(Nones(Tail(q)), rest)
    BY <2>3, <2>4, Fun_IsInj
  <2>6. shift \in Surjection(Nones(Tail(q)), rest)
    BY <2>2, <2>3, Fun_IsSurj
  <2> QED BY <2>5, <2>6, Fun_IsBij
<1>3. Cardinality(rest) = Cardinality(Nones(Tail(q)))
  <2>1. ExistsBijection(Nones(Tail(q)), rest)
    BY <1>2 DEF ExistsBijection
  <2> QED BY <1>1, <2>1, NonesFinite, FS_Bijection
<1>4. 1 \in Nones(q) <=> Head(q) = None
  BY <1>1 DEF Nones
<1>5. Cardinality(rest) = IF 1 \in Nones(q) THEN Cardinality(Nones(q)) - 1
                                           ELSE Cardinality(Nones(q))
  BY NonesFinite, FS_RemoveElement
<1>6. EndsInNone(q) => EndsInNone(Tail(q))
  <2>1. Tail(q) # <<>> => Len(Tail(q)) \in 1..Len(Tail(q))
    BY <1>1, EmptySeq
  <2> QED BY <1>1, <2>1 DEF EndsInNone
<1> HIDE DEF rest
<1> QED BY <1>3, <1>4, <1>5, <1>6, NonesFinite

LEMMA InitSentinels == Init => SentinelInv
<1> SUFFICES ASSUME Init PROVE SentinelInv
  OBVIOUS
<1>1. Nones(networkQ) = {} /\ Exited(epc) = {}
  BY EmptySeq DEF Init, Nones, Exited
<1>2. Exited(epc) # Workers
  BY <1>1, WorkersAssumption
<1>3. Cardinality(Nones(networkQ)) = 0 /\ Cardinality(Exited(epc)) = 0
  BY <1>1, FS_EmptySet
<1>4. \A w \in Workers : epc[w] = "get"
  BY DEF Init
<1> QED BY <1>2, <1>3, <1>4 DEF Init, SentinelInv

(* A step after which no fewer workers have left and no frame is held by    *)
(* another keeps the account, if the sender and its queue stay.             *)
LEMMA SentinelsStay ==
  ASSUME FrameInv, SentinelInv, UNCHANGED <<networkQ, finished, captureQ, captureNones, eframe>>,
         epc' = epc \/ (epc' = [w \in Workers |-> "exit"] /\ stop'),
         npc' = "drain" => npc = "drain", stop => stop',
         cpc \in {"signal", "done"} => cpc' \in {"signal", "done"}
  PROVE  SentinelInv'
<1>1. Exited(epc) \subseteq Exited(epc')
  BY DEF Exited
<1>2. Cardinality(Exited(epc)) <= Cardinality(Exited(epc'))
  BY <1>1, ExitedGrow
<1>3. /\ finished' \in Nat
      /\ finished' + Cardinality(Nones(networkQ')) <= Cardinality(Exited(epc'))
      /\ npc' = "drain" => AllFinished(finished')
  <2>1. Cardinality(Exited(epc)) \in Nat /\ Cardinality(Exited(epc')) \in Nat
    BY ExitedFinite
  <2>2. Cardinality(Nones(networkQ)) \in Nat
    BY NonesFinite DEF FrameInv
  <2>3. Nones(networkQ') = Nones(networkQ) /\ AllFinished(finished') = AllFinished(finished)
    OBVIOUS
  <2> QED BY <1>2, <2>1, <2>2, <2>3 DEF SentinelInv
<1> QED BY <1>3 DEF SentinelInv, CaptureEmpty

(* A worker takes, forwards or gives up a frame, and keeps working or stops. *)
LEMMA WorkerGoesOn ==
  ASSUME FrameInv, PlaceInv, SentinelInv, NEW w \in Workers,
         UNCHANGED <<captureVars, captureNones, finished, npc>>, captureQ' \subseteq captureQ,
         stop => stop', epc[w] # "exit",
         epc' \in [Workers -> {"get", "encode", "put", "putNone", "exit"}],
         \A v \in Workers : v # w => epc'[v] = epc[v] /\ eframe'[v] = eframe[v],
         epc'[w] \in {"get", "encode", "put"} \/ stop',
         epc'[w] \in {"encode", "put"} => eframe'[w] \in Frames,
         networkQ' = networkQ
           \/ \E f \in Frames : networkQ' = Append(networkQ, f)
  PROVE  SentinelInv'
<1>1. Cardinality(Exited(epc)) <= Cardinality(Exited(epc'))
  <2>1. Exited(epc) \subseteq Exited(epc')
    BY DEF Exited
  <2> QED BY <2>1, ExitedGrow
<1>2. Cardinality(Nones(networkQ')) = Cardinality(Nones(networkQ))
  <2>1. ASSUME NEW f \in Frames, networkQ' = Append(networkQ, f)
        PROVE  Cardinality(Nones(networkQ')) = Cardinality(Nones(networkQ))
    <3>1. networkQ \in Seq(Frames \union {None}) /\ f # None
      BY NoneAssumption DEF FrameInv
    <3>2. Cardinality(Nones(Append(networkQ, f))) = Cardinality(Nones(networkQ)) + 0
      BY <3>1, NonesAppended
    <3> QED BY <2>1, <3>1, <3>2, NonesFinite
  <2> QED BY <2>1
<1>3. Cardinality(Exited(epc)) \in Nat /\ Cardinality(Exited(epc')) \in Nat
      /\ Cardinality(Nones(networkQ)) \in Nat
  BY ExitedFinite, NonesFinite DEF FrameInv
<1>4. /\ finished' \in Nat
      /\ finished' + Cardinality(Nones(networkQ')) <= Cardinality(Exited(epc'))
      /\ npc' = "drain" => AllFinished(finished')
  <2>1. AllFinished(finished') = AllFinished(finished)
    OBVIOUS
  <2> QED BY <1>1, <1>2, <1>3, <2>1 DEF SentinelInv
<1>5. \A v \in Workers : epc'[v] \in {"encode", "put"} => eframe'[v] \in Frames
  BY DEF SentinelInv
<1>6. ASSUME ~stop'
      PROVE  /\ Exited(epc') # Workers
             /\ \A v \in Workers : epc'[v] \in {"putNone", "exit"} =>
                  eframe'[v] = None /\ CaptureEmpty'
  BY <1>6 DEF SentinelInv, Exited, CaptureEmpty, captureVars
<1> QED BY <1>4, <1>5, <1>6 DEF SentinelInv, captureVars

(* A worker takes a sentinel, or passes the one it has taken. *)
LEMMA WorkerPassesNone ==
  ASSUME FrameInv, PlaceInv, SentinelInv, NEW w \in Workers, GetNone(w) \/ NonePut(w)
  PROVE  SentinelInv'
<1>1. /\ UNCHANGED <<captureVars, captureQ, eframe, finished, npc, stop>>
      /\ epc[w] \in {"get", "putNone"}
      /\ \/ networkQ' = networkQ /\ epc' = [epc EXCEPT ![w] = "putNone"]
         \/ networkQ' = Append(networkQ, None) /\ epc' = [epc EXCEPT ![w] = "exit"]
      /\ captureNones' = captureNones
           \/ (captureNones > 0 /\ captureNones' = captureNones - 1)
  BY DEF GetNone, NonePut, captureQVars, sendVars, senderLog
<1>2. /\ captureNones' \in Nat /\ (captureNones' > 0 => cpc' \in {"signal", "done"})
      /\ finished' \in Nat
  BY <1>1 DEF SentinelInv, captureVars
<1>3. ~stop => CaptureEmpty /\ eframe[w] = None
  <2>1. CASE GetNone(w)
    BY <2>1 DEF GetNone, SentinelInv, CaptureEmpty, PlaceInv
  <2>2. CASE NonePut(w)
    BY <2>2 DEF NonePut, SentinelInv
  <2> QED BY <2>1, <2>2
<1>4. \A v \in Workers : v # w => epc'[v] = epc[v]
  BY <1>1 DEF PlaceInv
<1>5. epc'[w] \in {"putNone", "exit"}
  BY <1>1 DEF PlaceInv
<1>6. /\ \A v \in Workers : epc'[v] \in {"encode", "put"} => eframe'[v] \in Frames
      /\ ~stop' => \A v \in Workers : epc'[v] \in {"putNone", "exit"} =>
                                        eframe'[v] = None /\ CaptureEmpty'
  BY <1>1, <1>3, <1>4, <1>5 DEF SentinelInv, CaptureEmpty, captureVars
<1>7. AllFinished(finished') = AllFinished(finished)
  BY <1>1
<1>8. /\ networkQ \in Seq(Frames \union {None}) /\ Cardinality(Nones(networkQ)) \in Nat
      /\ Cardinality(Exited(epc)) \in Nat
  BY ExitedFinite, NonesFinite DEF FrameInv
<1>9. CASE networkQ' = networkQ /\ epc' = [epc EXCEPT ![w] = "putNone"]
  <2>1. Exited(epc') = Exited(epc) /\ Exited(epc') # Workers
    BY <1>1, <1>4, <1>9, <1>5 DEF Exited, PlaceInv
  <2>2. Nones(networkQ') = Nones(networkQ)
    BY <1>9
  <2> QED BY <1>1, <1>2, <1>6, <1>7, <2>1, <2>2 DEF SentinelInv
<1>10. CASE networkQ' = Append(networkQ, None) /\ epc' = [epc EXCEPT ![w] = "exit"]
  <2>1. Cardinality(Exited(epc')) = Cardinality(Exited(epc)) + 1
    BY <1>1, <1>10, OneMoreExits DEF PlaceInv
  <2>2. /\ Cardinality(Nones(networkQ')) = Cardinality(Nones(networkQ)) + 1
        /\ EndsInNone(networkQ')
    BY <1>8, <1>10, NonesAppended
  <2>3. finished' + Cardinality(Nones(networkQ')) <= Cardinality(Exited(epc'))
    BY <1>1, <1>8, <2>1, <2>2 DEF SentinelInv
  <2> QED BY <1>1, <1>2, <1>6, <1>7, <2>2, <2>3 DEF SentinelInv
<1> QED BY <1>1, <1>9, <1>10

LEMMA EncodeKeepsSentinels ==
  ASSUME FrameInv, PlaceInv, SentinelInv, NEW w \in Workers, Encode(w)
  PROVE  SentinelInv'
<1>1. CASE GetNone(w) \/ NonePut(w)
  BY <1>1, WorkerPassesNone
<1>2. CASE GetFrame(w)
  <2>1. PICK f \in captureQ : /\ captureQ' = captureQ \ {f}
                              /\ eframe' = [eframe EXCEPT ![w] = f]
    BY <1>2 DEF GetFrame
  <2>2. /\ UNCHANGED <<captureVars, captureNones, finished, npc, stop, networkQ>>
        /\ epc[w] = "get" /\ epc' = [epc EXCEPT ![w] = "encode"]
    BY <1>2 DEF GetFrame, sendVars, senderLog
  <2>3. /\ epc' \in [Workers -> {"get", "encode", "put", "putNone", "exit"}]
        /\ epc'[w] = "encode" /\ eframe'[w] \in Frames
        /\ \A v \in Workers : v # w => epc'[v] = epc[v] /\ eframe'[v] = eframe[v]
    BY <2>1, <2>2 DEF PlaceInv, FrameInv
  <2> QED BY <2>1, <2>2, <2>3, WorkerGoesOn
<1>3. CASE GetStopped(w)
  <2>1. /\ UNCHANGED <<captureVars, captureQ, captureNones, finished, npc, stop, networkQ, eframe>>
        /\ epc[w] = "get" /\ stop /\ epc' = [epc EXCEPT ![w] = "exit"]
    BY <1>3 DEF GetStopped, sendVars, senderLog, captureQVars
  <2>2. /\ epc' \in [Workers -> {"get", "encode", "put", "putNone", "exit"}]
        /\ epc'[w] = "exit" /\ \A v \in Workers : v # w => epc'[v] = epc[v]
    BY <2>1 DEF PlaceInv
  <2> QED BY <2>1, <2>2, WorkerGoesOn
<1>4. CASE Encoded(w) \/ FrameForwarded(w) \/ EncodeFailed(w)
  <2>1. /\ UNCHANGED <<captureVars, captureQ, captureNones, finished, npc>>
        /\ epc[w] \in {"encode", "put"} /\ (stop => stop')
        /\ networkQ' = networkQ \/ networkQ' = Append(networkQ, eframe[w])
    BY <1>4 DEF Encoded, FrameForwarded, EncodeFailed, GivenUp, Forwarded, sendVars,
       senderLog, captureQVars
  <2>2. /\ \/ epc' = [epc EXCEPT ![w] = "exit"] /\ stop'
           \/ epc' = [epc EXCEPT ![w] = "get"]
           \/ epc' = [epc EXCEPT ![w] = "put"] /\ eframe' = eframe
        /\ eframe' = eframe \/ eframe' = [eframe EXCEPT ![w] = None]
    BY <1>4 DEF Encoded, FrameForwarded, EncodeFailed, GivenUp, Forwarded
  <2>3. eframe[w] \in Frames
    BY <2>1 DEF SentinelInv
  <2>4. /\ epc' \in [Workers -> {"get", "encode", "put", "putNone", "exit"}]
        /\ \A v \in Workers : v # w => epc'[v] = epc[v] /\ eframe'[v] = eframe[v]
        /\ epc'[w] \in {"get", "put"} \/ stop'
        /\ epc'[w] \in {"encode", "put"} => eframe'[w] \in Frames
    BY <2>2, <2>3 DEF PlaceInv, FrameInv
  <2> QED BY <2>1, <2>3, <2>4, WorkerGoesOn
<1> QED BY <1>1, <1>2, <1>3, <1>4 DEF Encode

LEMMA SentinelsKept == FrameInv /\ PlaceInv /\ SentinelInv /\ [Next]_vars => SentinelInv'
<1> SUFFICES ASSUME FrameInv, PlaceInv, SentinelInv, [Next]_vars PROVE SentinelInv'
  OBVIOUS
<1>0. stop => stop'
  BY StopStays
<1>1. ASSUME UNCHANGED <<networkQ, finished, npc, captureVars, captureQVars, encodeVars>>
      PROVE  SentinelInv'
  BY <1>0, <1>1, SentinelsStay DEF captureVars, captureQVars, encodeVars
<1>2. CASE Capture
  <2>1. UNCHANGED <<networkQ, finished, npc, eframe, epc, stop>>
    BY <1>2 DEF Capture, CaptureFrame, FramePut, CaptureOver, SignalStop, sendVars,
       senderLog, encodeVars
  <2>2. /\ captureNones' \in Nat /\ (captureNones' > 0 => cpc' \in {"signal", "done"})
        /\ CaptureEmpty => CaptureEmpty'
    BY <1>2 DEF Capture, CaptureFrame, FramePut, CaptureOver, SignalStop, SentinelInv,
       CaptureEmpty, captureQVars
  <2> QED BY <2>1, <2>2 DEF SentinelInv
<1>3. CASE Send
  <2>1. UNCHANGED <<captureVars, captureQVars, encodeVars>>
    BY <1>3 DEF Send, SenderGetFrame, SenderGetNone, SenderStopped, SenderHeartbeat,
       Admitted, FrameOut, SendFailed, Registered, DrainWaited, EofOut, EofRecorded
  <2>2. CASE SenderGetFrame \/ SenderGetNone
    <3>1. /\ networkQ # <<>> /\ networkQ' = Tail(networkQ) /\ UNCHANGED stop
          /\ finished' = finished + (IF Head(networkQ) = None THEN 1 ELSE 0)
          /\ npc' = "drain" => AllFinished(finished')
      BY <2>2 DEF SenderGetFrame, SenderGetNone, SentinelInv
    <3>2. networkQ \in Seq(Frames \union {None})
      BY DEF FrameInv
    <3>3. /\ Cardinality(Nones(networkQ'))
               = Cardinality(Nones(networkQ)) - (IF Head(networkQ) = None THEN 1 ELSE 0)
          /\ EndsInNone(networkQ) => EndsInNone(networkQ')
          /\ Cardinality(Nones(networkQ)) \in Nat
      BY <3>1, <3>2, NonesTail, NonesFinite
    <3>4. /\ finished' \in Nat
          /\ finished' + Cardinality(Nones(networkQ')) <= Cardinality(Exited(epc))
      BY <3>1, <3>3 DEF SentinelInv
    <3> QED BY <2>1, <3>1, <3>3, <3>4 DEF SentinelInv, captureVars, captureQVars, encodeVars,
            CaptureEmpty
  <2>3. CASE ~SenderGetFrame /\ ~SenderGetNone
    <3>1. UNCHANGED <<networkQ, finished>> /\ (npc' = "drain" => npc = "drain")
      BY <1>3, <2>3 DEF Send, SenderStopped, SenderHeartbeat, Admitted, FrameOut, SendFailed,
         Registered, DrainWaited, EofOut, EofRecorded, SenderTurn, sendVars, senderLog
    <3> QED BY <1>0, <2>1, <3>1, SentinelsStay DEF captureVars, captureQVars, encodeVars
  <2> QED BY <2>2, <2>3
<1>4. CASE Consume
  BY <1>1, <1>4 DEF Consume, ConsumerStopped, AckConsumed, HeartbeatConsumed, PumpEnded,
     EofConsumed, UnknownReply, ErrorConsumed, DataConsumed, Emitted, NothingReady,
     EmitFailed, FlushEmitted, FlushFailed, Flushed, DeadlinePassed,
     HeartbeatMissed, ConsumerBlocks, sendVars, senderLog
<1>5. CASE Serve \/ ServerBeats
  BY <1>1, <1>5 DEF Serve, ServerAcks, ServerAnswers, ServerReadsEof, ServerEnds,
     ServerBeats, serverUnchanged, sendVars, senderLog
<1>6. CASE Main
  <2>1. /\ UNCHANGED <<networkQ, finished, captureQ, captureNones, eframe>>
        /\ epc' = epc \/ (epc' = [w \in Workers |-> "exit"] /\ stop')
        /\ npc' = "drain" => npc = "drain"
        /\ cpc \in {"signal", "done"} => cpc' \in {"signal", "done"}
    BY <1>6 DEF Main, Finished, TaskRaised, Failed, FailAndSignal, captureVars, captureQVars,
       encodeVars, sendVars, senderLog
  <2> QED BY <1>0, <2>1, SentinelsStay
<1>7. CASE UNCHANGED vars
  BY <1>1, <1>7 DEF vars, sendVars, senderLog
<1> QED BY <1>2, <1>3, <1>4, <1>5, <1>6, <1>7, EncodeKeepsSentinels DEF Next

-----------------------------------------------------------------------------
(* Without a stop no frame is lost on its way to the server. *)
Putting == IF cpc = "put" THEN {captured - 1} ELSE {}

FlowInv ==
  ~stop => Seen \subseteq captureQ \union Putting \union Encoding \union ToSend
                            \union InHand \union sent

LEMMA FlowKept ==
  FrameInv /\ PlaceInv /\ SentinelInv /\ FlowInv /\ [Next]_vars => FlowInv'
<1> SUFFICES ASSUME FrameInv, PlaceInv, SentinelInv, FlowInv, [Next]_vars, ~stop'
             PROVE  Seen' \subseteq captureQ' \union Putting' \union Encoding' \union ToSend'
                                      \union InHand' \union sent'
  BY DEF FlowInv
<1>0. ~stop /\ Seen \subseteq captureQ \union Putting \union Encoding \union ToSend
                                \union InHand \union sent
  BY StopStays DEF FlowInv
<1>1. CASE Capture
  <2>1. UNCHANGED <<Encoding, ToSend, InHand, sent>>
    BY <1>1 DEF Capture, CaptureFrame, FramePut, CaptureOver, SignalStop, encodeVars,
       sendVars, senderLog, Encoding, ToSend, InHand
  <2>2. CASE CaptureFrame
    <3>1. /\ captured \in Nat /\ captured' = captured + 1 /\ captured' - 1 = captured
          /\ cpc = "capture"
      BY <2>2, BoundsAssumption DEF CaptureFrame, FrameInv
    <3>2. Seen' \subseteq Seen \union {captured} /\ Putting = {}
      BY <3>1 DEF Seen, Putting
    <3>3. captureQ' \union Putting' = captureQ \union {captured}
      BY <2>2, <3>1 DEF CaptureFrame, Putting
    <3> QED BY <1>0, <2>1, <3>2, <3>3
  <2>3. CASE FramePut
    <3>1. Seen' = Seen /\ captureQ' \union Putting' = captureQ \union Putting
      BY <1>0, <2>3 DEF FramePut, Seen, Putting
    <3> QED BY <1>0, <2>1, <3>1
  <2>4. CASE CaptureOver \/ SignalStop
    <3>1. Seen' = Seen /\ captureQ' = captureQ /\ Putting' = Putting
      BY <2>4 DEF CaptureOver, SignalStop, captureQVars, Seen, Putting
    <3> QED BY <1>0, <2>1, <3>1
  <2> QED BY <1>1, <2>2, <2>3, <2>4 DEF Capture
<1>2. ASSUME NEW w \in Workers, Encode(w)
      PROVE  Seen' \subseteq captureQ' \union Putting' \union Encoding' \union ToSend'
                               \union InHand' \union sent'
  <2>1. UNCHANGED <<Seen, Putting, InHand, sent>>
    BY <1>2 DEF Encode, GetFrame, GetNone, NonePut, GetStopped, Encoded, FrameForwarded,
       EncodeFailed, captureVars, sendVars, senderLog, Seen, Putting, InHand
  <2>2. CASE GetFrame(w)
    <3>1. PICK f \in captureQ : /\ captureQ' = captureQ \ {f}
                                /\ eframe' = [eframe EXCEPT ![w] = f]
      BY <2>2 DEF GetFrame
    <3>2. f \in Frames /\ f \notin Encoding /\ eframe[w] = None
      BY <2>2 DEF GetFrame, FrameInv, PlaceInv
    <3>3. Encoding' = Encoding \union {f}
      BY <3>1, <3>2, EncodingTakes
    <3>4. ToSend' = ToSend
      BY <2>2 DEF GetFrame, ToSend
    <3> QED BY <1>0, <2>1, <3>1, <3>3, <3>4
  <2>3. CASE GetNone(w) \/ NonePut(w) \/ GetStopped(w) \/ (Encoded(w) /\ UNCHANGED eframe)
    <3>1. UNCHANGED <<captureQ, Encoding>>
      BY <2>3 DEF GetNone, NonePut, GetStopped, Encoded, captureQVars, Encoding
    <3>2. \/ networkQ' = networkQ
          \/ networkQ' = Append(networkQ, None)
      BY <2>3, <1>0 DEF GetNone, NonePut, GetStopped, Encoded, GivenUp, Forwarded, FrameInv
    <3>3. ToSend' = ToSend
      BY <3>2, NonePasses DEF ToSend
    <3> QED BY <1>0, <2>1, <3>1, <3>3
  <2>4. CASE (Encoded(w) /\ eframe' # eframe) \/ FrameForwarded(w) \/ EncodeFailed(w)
    <3>1. /\ eframe' = [eframe EXCEPT ![w] = None] /\ UNCHANGED captureQ
          /\ networkQ' = Append(networkQ, eframe[w]) /\ epc[w] \in {"encode", "put"}
      BY <1>0, <2>4 DEF Encoded, FrameForwarded, EncodeFailed, GivenUp, Forwarded,
         captureQVars
    <3>2. eframe[w] \in Frames /\ eframe[w] \in Encoding /\ eframe[w] \notin ToSend
      BY <3>1, NoneAssumption DEF SentinelInv, Encoding, PlaceInv
    <3>3. Encoding' = Encoding \ {eframe[w]} /\ ToSend' = ToSend \union {eframe[w]}
      BY <3>1, <3>2, EncodingGives, FramePasses
    <3> HIDE DEF Encoding, ToSend
    <3> QED BY <1>0, <2>1, <3>1, <3>3
  <2> QED BY <1>2, <2>2, <2>3, <2>4 DEF Encode
<1>3. CASE Send
  <2>1. UNCHANGED <<Seen, Putting, captureQ, Encoding>>
    BY <1>3 DEF Send, SenderGetFrame, SenderGetNone, SenderStopped, SenderHeartbeat,
       Admitted, FrameOut, SendFailed, Registered, DrainWaited, EofOut, EofRecorded,
       captureVars, captureQVars, encodeVars, Seen, Putting, Encoding
  <2>2. ToSend \union InHand \union sent \subseteq ToSend' \union InHand' \union sent'
    <3>1. CASE SenderGetFrame
      <4>1. /\ networkQ # <<>> /\ networkQ' = Tail(networkQ) /\ item' = Head(networkQ)
            /\ Head(networkQ) # None /\ item = None /\ UNCHANGED sent
        BY <3>1 DEF SenderGetFrame, PlaceInv, Empty
      <4>2. Elems(networkQ) = Elems(networkQ') \union {item'}
        BY <4>1, TailElems DEF FrameInv
      <4> QED BY <4>1, <4>2 DEF ToSend, InHand
    <3>2. CASE SenderGetNone
      <4>1. /\ networkQ # <<>> /\ networkQ' = Tail(networkQ) /\ Head(networkQ) = None
            /\ UNCHANGED <<item, sent>>
        BY <3>2 DEF SenderGetNone
      <4>2. Elems(networkQ) = Elems(networkQ') \union {None}
        BY <4>1, TailElems DEF FrameInv
      <4> QED BY <4>1, <4>2 DEF ToSend, InHand
    <3>3. CASE Registered
      BY <3>3 DEF Registered, ToSend, InHand
    <3>4. CASE ~SenderGetFrame /\ ~SenderGetNone /\ ~Registered
      BY <1>3, <3>4 DEF Send, SenderStopped, SenderHeartbeat, Admitted, FrameOut, SendFailed,
         DrainWaited, EofOut, EofRecorded, FailAndSignal, sendVars, senderLog, ToSend, InHand
    <3> QED BY <3>1, <3>2, <3>3, <3>4
  <2> QED BY <1>0, <2>1, <2>2
<1>4. ASSUME UNCHANGED <<captureVars, captureQVars, encodeVars, networkQ, item, sent>>
      PROVE  Seen' \subseteq captureQ' \union Putting' \union Encoding' \union ToSend'
                               \union InHand' \union sent'
  BY <1>0, <1>4 DEF captureVars, captureQVars, encodeVars, Seen, Putting, Encoding, ToSend,
     InHand
<1>5. CASE Consume
  BY <1>4, <1>5 DEF Consume, ConsumerStopped, AckConsumed, HeartbeatConsumed, PumpEnded,
     EofConsumed, UnknownReply, ErrorConsumed, DataConsumed, Emitted, NothingReady,
     EmitFailed, FlushEmitted, FlushFailed, Flushed, DeadlinePassed,
     HeartbeatMissed, ConsumerBlocks, sendVars, senderLog
<1>6. CASE Serve \/ ServerBeats
  BY <1>4, <1>6 DEF Serve, ServerAcks, ServerAnswers, ServerReadsEof, ServerEnds,
     ServerBeats, serverUnchanged, sendVars, senderLog
<1>7. CASE Main
  BY <1>4, <1>7 DEF Main, Finished, TaskRaised, Failed, FailAndSignal, sendVars, senderLog
<1>8. CASE UNCHANGED vars
  BY <1>4, <1>8 DEF vars, sendVars, senderLog
<1> QED BY <1>1, <1>2, <1>3, <1>5, <1>6, <1>7, <1>8 DEF Next

-----------------------------------------------------------------------------
(* The answers.  A frame is answered once, behind its ACK; without a stop   *)
(* one whose answer is still to come is in flight, or about to be.          *)
Answers == {"DATA", "ERROR"}
IsAnswer(e) == e.kind \in Answers
AnsweredIn(q) == {q[i].seq : i \in {j \in 1..Len(q) : IsAnswer(q[j])}}
OnceIn(q) ==
  \A i, j \in 1..Len(q) : IsAnswer(q[i]) /\ IsAnswer(q[j]) /\ q[i].seq = q[j].seq => i = j
BehindAck(q, seen) ==
  \A i \in 1..Len(q) : IsAnswer(q[i]) =>
    /\ q[i].seq \in Frames
    /\ \/ q[i].seq \in seen
       \/ \E j \in 1..Len(q) : j < i /\ q[j] = Event("ACK", q[i].seq)

AnswerBooks ==
  /\ BehindAck(replyQ, ackSeen) /\ OnceIn(replyQ)
  /\ owed \subseteq AckQueued \union ackSeen
  /\ owed \intersect AnsweredIn(replyQ) = {}
  /\ ~stop => /\ OnWire \union owed \union AnsweredIn(replyQ) \subseteq inflight \union InHand
              /\ sent \subseteq acksPending \union ackSeen

(* A consumer that is blocked waits for the lock of a sender that is stuck; *)
(* the event it has taken is in no book.                                    *)
AnswerInv ==
  /\ rpc = "blocked" => npc = "stuck"
  /\ rpc # "blocked" => AnswerBooks

LEMMA AnswersAreAcked == OnceInv /\ AnswerBooks => AnsweredIn(replyQ) \subseteq AckQueued \union ackSeen
<1> SUFFICES ASSUME OnceInv, AnswerBooks, NEW i \in 1..Len(replyQ), IsAnswer(replyQ[i]),
                    replyQ[i].seq \notin ackSeen
             PROVE  replyQ[i].seq \in AckQueued
  BY DEF AnsweredIn
<1>1. /\ replyQ[i].seq \in Frames
      /\ \E j \in 1..Len(replyQ) : replyQ[j] = Event("ACK", replyQ[i].seq)
  BY DEF AnswerBooks, BehindAck
<1> QED BY <1>1 DEF AckQueued, Elems

LEMMA AnsweredAppended ==
  ASSUME NEW q \in Seq(Events), NEW e \in Events
  PROVE  AnsweredIn(Append(q, e)) = AnsweredIn(q) \union (IF IsAnswer(e) THEN {e.seq} ELSE {})
<1> DEFINE r == Append(q, e)
<1>1. /\ Len(r) = Len(q) + 1 /\ Len(q) \in Nat
      /\ \A i \in 1..Len(q) : r[i] = q[i]
      /\ r[Len(q) + 1] = e
  BY AppendProperties, LenProperties
<1> HIDE DEF r
<1>2. 1..Len(r) = 1..Len(q) \union {Len(q) + 1}
  BY <1>1
<1>3. AnsweredIn(r) = AnsweredIn(q) \union (IF IsAnswer(e) THEN {e.seq} ELSE {})
  BY <1>1, <1>2 DEF AnsweredIn
<1> QED BY <1>3 DEF r

LEMMA EventComes ==
  ASSUME NEW q \in Seq(Events), NEW e \in Events, NEW seen,
         BehindAck(q, seen), OnceIn(q),
         IsAnswer(e) => /\ e.seq \in Frames /\ e.seq \notin AnsweredIn(q)
                        /\ e.seq \in seen \/ Event("ACK", e.seq) \in Elems(q)
  PROVE  /\ BehindAck(Append(q, e), seen) /\ OnceIn(Append(q, e))
         /\ AnsweredIn(Append(q, e)) = AnsweredIn(q) \union (IF IsAnswer(e) THEN {e.seq} ELSE {})
<1> DEFINE r == Append(q, e)
<1>1. /\ Len(r) = Len(q) + 1 /\ Len(q) \in Nat
      /\ \A i \in 1..Len(q) : r[i] = q[i]
      /\ r[Len(q) + 1] = e
  BY AppendProperties, LenProperties
<1> HIDE DEF r
<1>2. BehindAck(r, seen)
  <2> SUFFICES ASSUME NEW i \in 1..Len(r), IsAnswer(r[i])
               PROVE  /\ r[i].seq \in Frames
                      /\ \/ r[i].seq \in seen
                         \/ \E j \in 1..Len(r) : j < i /\ r[j] = Event("ACK", r[i].seq)
    BY DEF BehindAck
  <2>1. CASE i \in 1..Len(q)
    <3>1. /\ q[i].seq \in Frames
          /\ \/ q[i].seq \in seen
             \/ \E j \in 1..Len(q) : j < i /\ q[j] = Event("ACK", q[i].seq)
      BY <1>1, <2>1 DEF BehindAck
    <3> QED BY <1>1, <2>1, <3>1
  <2>2. CASE i = Len(q) + 1
    <3>1. /\ e.seq \in Frames
          /\ e.seq \in seen \/ \E j \in 1..Len(q) : q[j] = Event("ACK", e.seq)
      BY <1>1, <2>2 DEF Elems
    <3> QED BY <1>1, <2>2, <3>1
  <2> QED BY <1>1, <2>1, <2>2
<1>3. OnceIn(r)
  BY <1>1 DEF OnceIn, AnsweredIn
<1> QED BY <1>2, <1>3, AnsweredAppended DEF r

LEMMA EventTaken ==
  ASSUME NEW q \in Seq(Events), q # <<>>, NEW seen, NEW later, seen \subseteq later,
         \A f : Head(q) = Event("ACK", f) => f \in later,
         BehindAck(q, seen), OnceIn(q)
  PROVE  /\ BehindAck(Tail(q), later) /\ OnceIn(Tail(q))
         /\ AnsweredIn(Tail(q)) \subseteq AnsweredIn(q)
         /\ IsAnswer(Head(q)) => /\ Head(q).seq \in AnsweredIn(q) /\ Head(q).seq \in seen
                                 /\ Head(q).seq \notin AnsweredIn(Tail(q))
<1> DEFINE r == Tail(q)
<1>1. /\ Len(q) \in Nat \ {0} /\ Len(r) = Len(q) - 1 /\ Head(q) = q[1]
      /\ \A i \in 1..Len(r) : r[i] = q[i + 1]
  BY TailElems
<1> HIDE DEF r
<1>2. BehindAck(r, later)
  <2> SUFFICES ASSUME NEW i \in 1..Len(r), IsAnswer(r[i])
               PROVE  /\ r[i].seq \in Frames
                      /\ \/ r[i].seq \in later
                         \/ \E j \in 1..Len(r) : j < i /\ r[j] = Event("ACK", r[i].seq)
    BY DEF BehindAck
  <2>1. i + 1 \in 1..Len(q) /\ r[i] = q[i + 1]
    BY <1>1
  <2>2. /\ r[i].seq \in Frames
        /\ \/ r[i].seq \in seen
           \/ \E j \in 1..Len(q) : j < i + 1 /\ q[j] = Event("ACK", r[i].seq)
    BY <2>1 DEF BehindAck
  <2>3. ASSUME NEW j \in 1..Len(q), j < i + 1, q[j] = Event("ACK", r[i].seq)
        PROVE  \/ r[i].seq \in later
               \/ \E k \in 1..Len(r) : k < i /\ r[k] = Event("ACK", r[i].seq)
    <3>1. CASE j = 1
      BY <1>1, <2>3, <3>1
    <3>2. CASE j # 1
      <4>1. j - 1 \in 1..Len(r) /\ j - 1 < i /\ r[j - 1] = q[j]
        BY <1>1, <2>3, <3>2
      <4> QED BY <2>3, <4>1
    <3> QED BY <3>1, <3>2
  <2> QED BY <2>2, <2>3
<1>3. \A i \in 1..Len(r) : i + 1 \in 1..Len(q) /\ r[i] = q[i + 1]
  BY <1>1
<1>4. OnceIn(r) /\ AnsweredIn(r) \subseteq AnsweredIn(q)
  <2>1. OnceIn(r)
    <3> SUFFICES ASSUME NEW i \in 1..Len(r), NEW j \in 1..Len(r), IsAnswer(r[i]), IsAnswer(r[j]),
                        r[i].seq = r[j].seq
                 PROVE  i = j
      BY DEF OnceIn
    <3>1. i + 1 = j + 1
      BY <1>3 DEF OnceIn
    <3> QED BY <3>1
  <2> QED BY <1>3, <2>1 DEF AnsweredIn
<1>5. ASSUME IsAnswer(Head(q))
      PROVE  /\ Head(q).seq \in AnsweredIn(q) /\ Head(q).seq \in seen
             /\ Head(q).seq \notin AnsweredIn(r)
  <2>1. 1 \in 1..Len(q) /\ IsAnswer(q[1]) /\ ~ \E j \in 1..Len(q) : j < 1
    BY <1>1, <1>5
  <2>2. Head(q).seq \in AnsweredIn(q) /\ Head(q).seq \in seen
    BY <1>1, <2>1 DEF AnsweredIn, BehindAck
  <2>3. ASSUME NEW i \in 1..Len(r), IsAnswer(r[i]), r[i].seq = q[1].seq PROVE FALSE
    <3>1. i + 1 = 1
      BY <1>3, <2>1, <2>3 DEF OnceIn
    <3> QED BY <3>1
  <2> QED BY <1>1, <2>2, <2>3 DEF AnsweredIn
<1> QED BY <1>2, <1>4, <1>5 DEF r

LEMMA InitAnswers == Init => AnswerInv
<1> SUFFICES ASSUME Init PROVE AnswerInv
  OBVIOUS
<1>1. OnWire = {} /\ AnsweredIn(replyQ) = {} /\ InHand = {}
  BY EmptySeq DEF Init, OnWire, AnsweredIn, InHand, Elems
<1>2. BehindAck(replyQ, ackSeen) /\ OnceIn(replyQ)
  BY EmptySeq DEF Init, BehindAck, OnceIn
<1> QED BY <1>1, <1>2 DEF Init, AnswerInv, AnswerBooks

LEMMA SendKeepsAnswers ==
  FrameInv /\ PlaceInv /\ OnceInv /\ AnswerBooks /\ Send => AnswerBooks'
<1> SUFFICES ASSUME FrameInv, PlaceInv, OnceInv, AnswerBooks, Send PROVE AnswerBooks'
  OBVIOUS
<1>0. stop => stop'
  BY StopStays DEF Next
<1>1. UNCHANGED <<owed, replyQ, AckQueued, ackSeen>>
  BY DEF Send, SenderGetFrame, SenderGetNone, SenderStopped, SenderHeartbeat, Admitted,
     FrameOut, SendFailed, Registered, DrainWaited, EofOut, EofRecorded, pump, server,
     history, AckQueued
<1>2. /\ BehindAck(replyQ, ackSeen)' /\ OnceIn(replyQ)'
      /\ owed' \subseteq AckQueued' \union ackSeen'
      /\ owed' \intersect AnsweredIn(replyQ') = {} /\ AnsweredIn(replyQ') = AnsweredIn(replyQ)
  BY <1>1 DEF AnswerBooks, BehindAck, OnceIn
<1>3. ASSUME ~stop'
      PROVE  /\ OnWire' \union owed' \union AnsweredIn(replyQ') \subseteq inflight' \union InHand'
             /\ sent' \subseteq acksPending' \union ackSeen'
  <2>0. /\ ~stop /\ OnWire \union owed \union AnsweredIn(replyQ) \subseteq inflight \union InHand
        /\ sent \subseteq acksPending \union ackSeen
    BY <1>0, <1>3 DEF AnswerBooks
  <2>1. CASE FrameOut
    <3>1. /\ wire' = Append(wire, item) /\ UNCHANGED <<item, sent, inflight, acksPending>>
          /\ item \in Frames
      BY <2>1 DEF FrameOut, senderLog, books, FrameInv
    <3>2. OnWire' = OnWire \union {item} /\ InHand' = InHand /\ item \in InHand
      BY <3>1, AppendElems, NoneAssumption DEF OnceInv, OnWire, InHand
    <3> QED BY <1>1, <1>2, <2>0, <3>1, <3>2
  <2>2. CASE EofOut
    <3>1. wire' = Append(wire, None) /\ UNCHANGED <<item, sent, inflight, acksPending>>
      BY <2>2 DEF EofOut, senderLog, books
    <3>2. OnWire' = OnWire /\ InHand' = InHand
      BY <3>1, AppendElems DEF OnceInv, OnWire, InHand
    <3> QED BY <1>1, <1>2, <2>0, <3>1, <3>2
  <2>3. CASE Registered
    <3>1. /\ inflight' = inflight \union {item} /\ acksPending' = acksPending \union {item}
          /\ sent' = sent \union {item} /\ OnWire' = OnWire
      BY <2>3 DEF Registered, server, OnWire
    <3> QED BY <1>1, <1>2, <2>0, <3>1 DEF InHand
  <2>4. CASE SenderGetFrame
    <3>1. item = None /\ UNCHANGED <<wire, sent, inflight, acksPending>>
      BY <2>4 DEF SenderGetFrame, PlaceInv, Empty, server, books
    <3> QED BY <1>1, <1>2, <2>0, <3>1 DEF InHand, OnWire
  <2>5. CASE ~FrameOut /\ ~EofOut /\ ~Registered /\ ~SenderGetFrame
    <3>1. UNCHANGED <<item, wire, sent, inflight, acksPending>>
      BY <1>3, <2>5 DEF Send, SenderGetNone, SenderStopped, SenderHeartbeat, Admitted,
         SendFailed, DrainWaited, EofRecorded, FailAndSignal, sendVars, senderLog, server, books
    <3> QED BY <1>1, <1>2, <2>0, <3>1 DEF InHand, OnWire
  <2> QED BY <2>1, <2>2, <2>3, <2>4, <2>5
<1> QED BY <1>2, <1>3 DEF AnswerBooks

LEMMA ConsumeKeepsAnswers ==
  FrameInv /\ OnceInv /\ AnswerBooks /\ Consume /\ ~ConsumerBlocks => AnswerBooks'
<1> SUFFICES ASSUME FrameInv, OnceInv, AnswerBooks, Consume, ~ConsumerBlocks
             PROVE  AnswerBooks'
  OBVIOUS
<1>0. stop => stop'
  BY StopStays DEF Next
<1>1. UNCHANGED <<wire, owed, sent, item>> /\ UNCHANGED <<OnWire, InHand>>
  BY DEF Consume, ConsumerStopped, AckConsumed, HeartbeatConsumed, PumpEnded,
     EofConsumed, UnknownReply, ErrorConsumed, DataConsumed, Emitted, NothingReady,
     EmitFailed, FlushEmitted, FlushFailed, Flushed, DeadlinePassed,
     HeartbeatMissed, ConsumerBlocks, server, sendVars,
     senderLog, OnWire, InHand
<1>2. AnsweredIn(replyQ) \subseteq AckQueued \union ackSeen
  BY AnswersAreAcked
<1> DEFINE e == Head(replyQ)
<1>3. ASSUME replyQ # <<>>, replyQ' = Tail(replyQ),
             IF e.kind = "ACK" THEN ackSeen' = ackSeen \union {e.seq} ELSE ackSeen' = ackSeen
      PROVE  /\ BehindAck(replyQ', ackSeen') /\ OnceIn(replyQ')
             /\ owed' \subseteq AckQueued' \union ackSeen'
             /\ AnsweredIn(replyQ') \subseteq AnsweredIn(replyQ)
             /\ owed' \intersect AnsweredIn(replyQ') = {}
             /\ IsAnswer(e) => /\ e.seq \notin AnsweredIn(replyQ') /\ e.seq \in ackSeen
                               /\ e.seq \notin owed /\ e.seq \notin OnWire
  <2>1. \A f : e = Event("ACK", f) => f \in ackSeen'
    BY <1>3 DEF Event
  <2>2. /\ BehindAck(replyQ', ackSeen') /\ OnceIn(replyQ')
        /\ AnsweredIn(replyQ') \subseteq AnsweredIn(replyQ)
        /\ IsAnswer(e) => /\ e.seq \in AnsweredIn(replyQ) /\ e.seq \in ackSeen
                          /\ e.seq \notin AnsweredIn(replyQ')
    <3>1. /\ replyQ \in Seq(Events) /\ ackSeen \subseteq ackSeen'
          /\ BehindAck(replyQ, ackSeen) /\ OnceIn(replyQ)
      BY <1>3 DEF OnceInv, AnswerBooks
    <3> HIDE DEF e
    <3> QED BY <1>3, <2>1, <3>1, EventTaken DEF e
  <2>3. AckQueued \subseteq AckQueued' \union ackSeen'
    <3>1. Elems(replyQ) = Elems(replyQ') \union {e}
      BY <1>3, TailElems DEF OnceInv
    <3> QED BY <2>1, <3>1 DEF AckQueued
  <2>4. ackSeen \subseteq ackSeen'
    BY <1>3
  <2> HIDE DEF e
  <2> QED BY <1>1, <2>2, <2>3, <2>4 DEF AnswerBooks, OnceInv
<1>4. CASE AckConsumed
  <2>1. /\ replyQ # <<>> /\ replyQ' = Tail(replyQ) /\ e.kind = "ACK"
        /\ ackSeen' = ackSeen \union {e.seq} /\ acksPending' = acksPending \ {e.seq}
        /\ UNCHANGED inflight
    BY <1>4 DEF AckConsumed, NextIs
  <2> QED BY <1>0, <1>1, <1>3, <2>1 DEF AnswerBooks
<1>5. CASE DataConsumed \/ ErrorConsumed \/ UnknownReply
  <2>1. /\ replyQ # <<>> /\ replyQ' = Tail(replyQ) /\ IsAnswer(e) /\ e.kind # "ACK"
        /\ ackSeen' = ackSeen /\ acksPending' = acksPending \ {e.seq}
        /\ inflight' = inflight \ {e.seq}
    BY <1>5 DEF DataConsumed, ErrorConsumed, UnknownReply, NextIs, Pop, history, IsAnswer, Answers
  <2> HIDE DEF e
  <2> QED BY <1>0, <1>1, <1>3, <2>1 DEF AnswerBooks, IsAnswer, Answers
<1>6. CASE HeartbeatConsumed \/ PumpEnded \/ EofConsumed
  <2>1. /\ replyQ # <<>> /\ replyQ' = Tail(replyQ) /\ e.kind # "ACK"
        /\ UNCHANGED <<ackSeen, inflight>> /\ (stop' \/ UNCHANGED acksPending)
    BY <1>6 DEF HeartbeatConsumed, PumpEnded, EofConsumed, NextIs, history, books, FailAndSignal
  <2> QED BY <1>0, <1>1, <1>3, <2>1 DEF AnswerBooks
<1>7. CASE ~AckConsumed /\ ~DataConsumed /\ ~ErrorConsumed /\ ~UnknownReply
           /\ ~HeartbeatConsumed /\ ~PumpEnded /\ ~EofConsumed
  <2>1. UNCHANGED <<replyQ, ackSeen, inflight, AckQueued>> /\ (stop' \/ UNCHANGED acksPending)
    BY <1>7 DEF Consume, ConsumerStopped, Emitted, NothingReady, EmitFailed, FlushEmitted,
       FlushFailed, Flushed, DeadlinePassed, HeartbeatMissed, pump, history, books, FailAndSignal, AckQueued
  <2>2. BehindAck(replyQ', ackSeen') /\ OnceIn(replyQ')
    BY <2>1 DEF AnswerBooks
  <2> QED BY <1>0, <1>1, <2>1, <2>2 DEF AnswerBooks
<1> QED BY <1>4, <1>5, <1>6, <1>7

LEMMA ServeKeepsAnswers == OnceInv /\ AnswerBooks /\ (Serve \/ ServerBeats) => AnswerBooks'
<1> SUFFICES ASSUME OnceInv, AnswerBooks, Serve \/ ServerBeats PROVE AnswerBooks'
  OBVIOUS
<1>1. UNCHANGED <<sent, ackSeen, inflight, acksPending, stop, InHand>>
  BY DEF Serve, ServerAcks, ServerAnswers, ServerReadsEof, ServerEnds, ServerBeats,
     serverUnchanged, sendVars, senderLog, history, InHand, books
<1>2. AnsweredIn(replyQ) \subseteq AckQueued \union ackSeen
  BY AnswersAreAcked
<1>3. /\ replyQ \in Seq(Events) /\ BehindAck(replyQ, ackSeen) /\ OnceIn(replyQ)
  BY DEF OnceInv, AnswerBooks
<1>4. CASE ServerAcks
  <2> DEFINE f == Head(wire)
  <2>1. /\ wire # <<>> /\ f # None /\ wire' = Tail(wire)
        /\ replyQ' = Append(replyQ, Event("ACK", f)) /\ owed' = owed \union {f}
    BY <1>4 DEF ServerAcks, Arrives
  <2>2. f \in Frames /\ Elems(wire) = Elems(wire') \union {f}
    BY <2>1, TailElems DEF OnceInv
  <2> HIDE DEF f
  <2>3. f \in OnWire /\ OnWire' \subseteq OnWire
    BY <2>1, <2>2 DEF OnWire
  <2>4. /\ Event("ACK", f) \in Events /\ ~IsAnswer(Event("ACK", f))
    BY <2>1, <2>2, EventTyped DEF Kinds, IsAnswer, Answers, Event
  <2>5. /\ BehindAck(replyQ', ackSeen) /\ OnceIn(replyQ')
        /\ AnsweredIn(replyQ') = AnsweredIn(replyQ)
    BY <1>3, <2>1, <2>4, EventComes
  <2>6. AckQueued' = AckQueued \union {f}
    <3>1. Elems(replyQ') = Elems(replyQ) \union {Event("ACK", f)}
      BY <1>3, <2>1, <2>4, AppendElems
    <3> QED BY <2>2, <3>1 DEF AckQueued, Event
  <2>7. f \notin AnsweredIn(replyQ)
    BY <1>2, <2>3 DEF OnceInv
  <2> QED BY <1>1, <2>1, <2>3, <2>5, <2>6, <2>7 DEF AnswerBooks
<1>5. CASE ServerAnswers
  <2>1. PICK f \in owed, k \in Answers :
          /\ owed' = owed \ {f} /\ UNCHANGED wire
          /\ replyQ' = Append(replyQ, Event(k, f))
    BY <1>5 DEF ServerAnswers, Arrives, Answers
  <2>2. /\ Event(k, f) \in Events /\ IsAnswer(Event(k, f)) /\ f \in Frames
        /\ Event(k, f).seq = f
    BY <2>1, EventTyped DEF OnceInv, Kinds, IsAnswer, Answers, Event
  <2>3. f \notin AnsweredIn(replyQ) /\ f \in AckQueued \union ackSeen
    BY <2>1 DEF AnswerBooks
  <2>4. f \in ackSeen \/ Event("ACK", f) \in Elems(replyQ)
    BY <2>3 DEF AckQueued
  <2>5. /\ BehindAck(replyQ', ackSeen) /\ OnceIn(replyQ')
        /\ AnsweredIn(replyQ') = AnsweredIn(replyQ) \union {f}
    BY <1>3, <2>1, <2>2, <2>3, <2>4, EventComes
  <2>6. AckQueued' = AckQueued
    BY <2>1, <2>2, ReplyComes DEF Answers, Kinds
  <2> QED BY <1>1, <2>1, <2>5, <2>6 DEF AnswerBooks, OnWire
<1>6. CASE ServerEnds \/ ServerBeats
  <2>1. PICK k \in {"EOF", "CLOSED", "HEARTBEAT"} :
          UNCHANGED <<wire, owed>> /\ replyQ' = Append(replyQ, Event(k, None))
    BY <1>6 DEF ServerEnds, ServerBeats, Arrives, server
  <2>2. Event(k, None) \in Events /\ ~IsAnswer(Event(k, None))
    BY <2>1, EventTyped DEF Kinds, IsAnswer, Answers, Event
  <2>3. /\ BehindAck(replyQ', ackSeen) /\ OnceIn(replyQ')
        /\ AnsweredIn(replyQ') = AnsweredIn(replyQ)
    BY <1>3, <2>1, <2>2, EventComes
  <2>4. AckQueued' = AckQueued
    BY <2>1, ReplyComes DEF Kinds
  <2> QED BY <1>1, <2>1, <2>3, <2>4 DEF AnswerBooks, OnWire
<1>7. CASE ServerReadsEof
  <2>1. wire # <<>> /\ Head(wire) = None /\ wire' = Tail(wire) /\ UNCHANGED <<owed, replyQ>>
    BY <1>7 DEF ServerReadsEof, pump
  <2>2. OnWire' \subseteq OnWire /\ AckQueued' = AckQueued
    BY <2>1, TailElems DEF OnceInv, OnWire, AckQueued
  <2> QED BY <1>1, <1>3, <2>1, <2>2 DEF AnswerBooks
<1> QED BY <1>4, <1>5, <1>6, <1>7 DEF Serve

LEMMA AnswerBooksKept ==
  /\ FrameInv /\ PlaceInv /\ OnceInv /\ StopInv /\ AnswerBooks
  /\ [Next]_vars /\ rpc' # "blocked"
  => AnswerBooks'
<1> SUFFICES ASSUME FrameInv, PlaceInv, OnceInv, StopInv, AnswerBooks, [Next]_vars,
                    rpc' # "blocked"
             PROVE  AnswerBooks'
  OBVIOUS
<1>0. stop => stop'
  BY StopStays
<1>1. ASSUME UNCHANGED <<wire, owed, replyQ, ackSeen, sent, item>>,
             stop' \/ UNCHANGED <<inflight, acksPending>>
      PROVE  AnswerBooks'
  <2>1. UNCHANGED <<AckQueued, OnWire, InHand>>
    BY <1>1 DEF AckQueued, OnWire, InHand
  <2>2. BehindAck(replyQ', ackSeen') /\ OnceIn(replyQ')
    BY <1>1 DEF AnswerBooks
  <2> QED BY <1>0, <1>1, <2>1, <2>2 DEF AnswerBooks
<1>2. CASE Capture
  BY <1>1, <1>2 DEF Capture, CaptureFrame, FramePut, CaptureOver, SignalStop, server, pump,
     history, sendVars, senderLog, books
<1>3. ASSUME NEW w \in Workers, Encode(w) PROVE AnswerBooks'
  BY <1>1, <1>3 DEF Encode, GetFrame, GetNone, NonePut, GetStopped, Encoded,
     FrameForwarded, EncodeFailed, server, pump, history, sendVars, senderLog, books
<1>4. CASE Main
  <2>1. UNCHANGED <<wire, owed, replyQ, ackSeen, sent, item>>
    BY <1>4 DEF Main, Finished, TaskRaised, Failed, server, pump, history, sendVars,
       senderLog
  <2>2. CASE Finished \/ TaskRaised
    BY <1>1, <2>1, <2>2 DEF Finished, TaskRaised, FailAndSignal
  <2>3. CASE Failed
    BY <1>0, <1>1, <2>1, <2>3 DEF Failed, StopInv
  <2> QED BY <1>4, <2>2, <2>3 DEF Main
<1>5. CASE UNCHANGED vars
  BY <1>1, <1>5 DEF vars, server, pump, history, sendVars, senderLog, books
<1>6. ~ConsumerBlocks
  BY DEF ConsumerBlocks
<1> QED BY <1>2, <1>3, <1>4, <1>5, <1>6, SendKeepsAnswers, ConsumeKeepsAnswers,
        ServeKeepsAnswers DEF Next

(* A blocked consumer stays so, and so does the sender it waits for. *)
LEMMA BlockedStays ==
  [Next]_vars => /\ rpc = "blocked" => rpc' = "blocked"
                 /\ npc = "stuck" => npc' = "stuck"
                 /\ rpc' = "blocked" => rpc = "blocked" \/ npc = "stuck"
<1> SUFFICES ASSUME [Next]_vars
             PROVE  /\ rpc = "blocked" => rpc' = "blocked"
                    /\ npc = "stuck" => npc' = "stuck"
                    /\ rpc' = "blocked" => rpc = "blocked" \/ npc = "stuck"
  OBVIOUS
<1>1. CASE Capture
  BY <1>1 DEF Capture, CaptureFrame, FramePut, CaptureOver, SignalStop, sendVars, consumeVars
<1>2. ASSUME NEW w \in Workers, Encode(w) PROVE UNCHANGED <<rpc, npc>>
  BY <1>2 DEF Encode, GetFrame, GetNone, NonePut, GetStopped, Encoded, FrameForwarded,
     EncodeFailed, sendVars, consumeVars
<1>3. CASE Send
  BY <1>3 DEF Send, SenderGetFrame, SenderGetNone, SenderStopped, SenderHeartbeat,
     Admitted, FrameOut, SendFailed, Registered, DrainWaited, EofOut, EofRecorded,
     sendVars, consumeVars
<1>4. CASE Consume
  <2>1. UNCHANGED npc /\ rpc # "blocked"
    BY <1>4 DEF Consume, ConsumerStopped, AckConsumed, HeartbeatConsumed, PumpEnded,
       EofConsumed, UnknownReply, ErrorConsumed, DataConsumed, Emitted, NothingReady,
       EmitFailed, FlushEmitted, FlushFailed, Flushed, DeadlinePassed,
       HeartbeatMissed, ConsumerBlocks, NextIs, sendVars
  <2>2. CASE ConsumerBlocks
    BY <2>1, <2>2 DEF ConsumerBlocks, LockFree
  <2>3. CASE ~ConsumerBlocks
    <3>1. rpc' \in {"wait", "emit", "flush", "done", "raised"}
      <4>1. CASE DeadlinePassed
        BY <4>1 DEF DeadlinePassed, ConsumerTurn
      <4>2. CASE ~DeadlinePassed
        BY <1>4, <2>1, <2>3, <4>2 DEF Consume, ConsumerStopped, AckConsumed,
           HeartbeatConsumed, PumpEnded, EofConsumed, UnknownReply, ErrorConsumed,
           DataConsumed, Emitted, NothingReady, EmitFailed, FlushEmitted, FlushFailed,
           Flushed, HeartbeatMissed, ConsumerRaises, ConsumerTurn, NextIs
      <4> QED BY <4>1, <4>2
    <3> QED BY <2>1, <3>1
  <2> QED BY <2>2, <2>3
<1>5. CASE Serve \/ ServerBeats
  BY <1>5 DEF Serve, ServerAcks, ServerAnswers, ServerReadsEof, ServerEnds, ServerBeats,
     serverUnchanged, sendVars, consumeVars
<1>6. CASE Main
  BY <1>6 DEF Main, Finished, TaskRaised, Failed, InTry, ConsumerRaises, LockFree, sendVars,
     consumeVars
<1>7. CASE UNCHANGED vars
  BY <1>7 DEF vars, sendVars, consumeVars
<1> QED BY <1>1, <1>2, <1>3, <1>4, <1>5, <1>6, <1>7 DEF Next

LEMMA AnswersKept ==
  FrameInv /\ PlaceInv /\ OnceInv /\ StopInv /\ AnswerInv /\ [Next]_vars => AnswerInv'
BY BlockedStays, AnswerBooksKept DEF AnswerInv

-----------------------------------------------------------------------------
(* From the decision to send MSG_EOF on, nothing is left anywhere.          *)
Closing == npc \in {"sendEof", "eofOut"} \/ eofSent

Quiet ==
  /\ CaptureEmpty /\ Exited(epc) = Workers /\ networkQ = <<>> /\ item = None
  /\ Seen \subseteq ackSeen
  /\ OnWire = {} /\ owed = {} /\ AnsweredIn(replyQ) = {}
  /\ inflight = {} /\ acksPending = {}

ClosingInv == (Closing => Quiet) /\ (npc = "eofOut" => eofSent)

(* The sender may begin to close when it has counted every sentinel. *)
LEMMA DrainedIsQuiet ==
  ASSUME FrameInv, PlaceInv, SentinelInv, FlowInv, AnswerInv,
         ~stop, npc = "drain", NothingInFlight
  PROVE  Quiet
<1>1. item = None /\ InHand = {}
  BY DEF PlaceInv, Empty, InHand
<1>2. /\ networkQ \in Seq(Frames \union {None})
      /\ IsFiniteSet(Nones(networkQ)) /\ Cardinality(Nones(networkQ)) \in Nat
  BY NonesFinite DEF FrameInv
<1>3. Exited(epc) = Workers /\ Nones(networkQ) = {}
  <2>1. /\ finished >= Cardinality(Workers) /\ finished \in Nat
        /\ finished + Cardinality(Nones(networkQ)) <= Cardinality(Exited(epc))
    BY DEF SentinelInv, AllFinished
  <2>2. /\ Cardinality(Exited(epc)) = Cardinality(Workers)
        /\ Cardinality(Nones(networkQ)) = 0
    BY <1>2, <2>1, ExitedFinite
  <2> QED BY <1>2, <2>2, ExitedFinite, FS_EmptySet
<1>4. networkQ = <<>> /\ ToSend = {}
  <2>1. ASSUME networkQ # <<>> PROVE FALSE
    <3>1. networkQ[Len(networkQ)] = None
      BY <1>3, <2>1 DEF SentinelInv, EndsInNone
    <3>2. Len(networkQ) \in 1..Len(networkQ)
      BY <1>2, <2>1, TailElems
    <3> QED BY <1>3, <3>1, <3>2 DEF Nones
  <2> QED BY <2>1, EmptySeq DEF ToSend, Elems
<1>5. CaptureEmpty /\ Encoding = {} /\ Putting = {}
  <2>1. \A w \in Workers : eframe[w] = None /\ CaptureEmpty
    BY <1>3 DEF SentinelInv, Exited
  <2>2. CaptureEmpty
    BY <2>1, WorkersAssumption
  <2> QED BY <2>1, <2>2 DEF Encoding, Putting, CaptureEmpty
<1>6. Seen \subseteq sent
  BY <1>1, <1>4, <1>5 DEF FlowInv, CaptureEmpty
<1>7. /\ inflight = {} /\ acksPending = {} /\ sent \subseteq ackSeen
      /\ OnWire = {} /\ owed = {} /\ AnsweredIn(replyQ) = {}
  BY <1>1 DEF NothingInFlight, AnswerInv, AnswerBooks
<1> QED BY <1>1, <1>3, <1>4, <1>5, <1>6, <1>7 DEF Quiet

LEMMA SendKeepsQuiet == FrameInv /\ OnceInv /\ Quiet /\ Send => Quiet'
<1> SUFFICES ASSUME FrameInv, OnceInv, Quiet, Send PROVE Quiet'
  OBVIOUS
<1>1. ~SenderGetFrame /\ ~SenderGetNone
  BY DEF Quiet, SenderGetFrame, SenderGetNone
<1>2. ~Admitted /\ ~FrameOut /\ ~Registered
  <2>1. npc \notin {"window", "send", "sent"}
    BY NoneAssumption DEF FrameInv, Quiet
  <2> QED BY <2>1 DEF Admitted, FrameOut, Registered
<1>3. /\ UNCHANGED <<captureVars, captureQVars, encodeVars, networkQ, books, history, owed, replyQ>>
      /\ item' \in {item, None}
      /\ wire' = wire \/ wire' = Append(wire, None)
  <2>1. CASE EofOut
    BY <2>1 DEF EofOut, pump
  <2>2. CASE ~EofOut
    BY <1>1, <1>2, <2>2 DEF Send, SenderStopped, SenderHeartbeat, SendFailed, DrainWaited,
       EofRecorded, sendVars, server, pump
  <2> QED BY <2>1, <2>2
<1>4. OnWire' = OnWire
  <2>1. wire \in Seq(Frames \union {None})
    BY DEF OnceInv
  <2>2. ASSUME wire' = Append(wire, None) PROVE Elems(wire') = Elems(wire) \union {None}
    BY <2>1, <2>2, AppendElems
  <2> QED BY <1>3, <2>2 DEF OnWire
<1> QED BY <1>3, <1>4 DEF Quiet, CaptureEmpty, captureVars, captureQVars, encodeVars, books,
        history, Seen

LEMMA ConsumeKeepsQuiet == OnceInv /\ Quiet /\ Consume => Quiet'
<1> SUFFICES ASSUME OnceInv, Quiet, Consume PROVE Quiet'
  OBVIOUS
<1>1. UNCHANGED <<captureVars, captureQVars, encodeVars, networkQ, sendVars, wire, owed>>
  BY DEF Consume, ConsumerStopped, AckConsumed, HeartbeatConsumed, PumpEnded,
     EofConsumed, UnknownReply, ErrorConsumed, DataConsumed, Emitted, NothingReady,
     EmitFailed, FlushEmitted, FlushFailed, Flushed, DeadlinePassed,
     HeartbeatMissed, ConsumerBlocks, server
<1>2. inflight' \subseteq inflight /\ acksPending' \subseteq acksPending
  BY DEF Consume, ConsumerStopped, AckConsumed, HeartbeatConsumed, PumpEnded,
     EofConsumed, UnknownReply, ErrorConsumed, DataConsumed, Emitted, NothingReady,
     EmitFailed, FlushEmitted, FlushFailed, Flushed, DeadlinePassed,
     HeartbeatMissed, ConsumerBlocks, Pop, books
<1>3. ackSeen \subseteq ackSeen'
  BY DEF Consume, ConsumerStopped, AckConsumed, HeartbeatConsumed, PumpEnded,
     EofConsumed, UnknownReply, ErrorConsumed, DataConsumed, Emitted, NothingReady,
     EmitFailed, FlushEmitted, FlushFailed, Flushed, DeadlinePassed,
     HeartbeatMissed, ConsumerBlocks, history
<1>4. replyQ' = replyQ \/ (replyQ # <<>> /\ replyQ' = Tail(replyQ))
  BY DEF Consume, ConsumerStopped, AckConsumed, HeartbeatConsumed, PumpEnded,
     EofConsumed, UnknownReply, ErrorConsumed, DataConsumed, Emitted, NothingReady,
     EmitFailed, FlushEmitted, FlushFailed, Flushed, DeadlinePassed,
     HeartbeatMissed, ConsumerBlocks, ReplyBlocks, TimerBlocks, pump, NextIs
<1>5. AnsweredIn(replyQ') = {}
  <2>1. CASE replyQ # <<>> /\ replyQ' = Tail(replyQ)
    <3>1. \A i \in 1..Len(replyQ') : i + 1 \in 1..Len(replyQ) /\ replyQ'[i] = replyQ[i + 1]
      BY <2>1, TailElems DEF OnceInv
    <3>2. \A i \in 1..Len(replyQ) : ~IsAnswer(replyQ[i])
      BY DEF Quiet, AnsweredIn
    <3> QED BY <3>1, <3>2 DEF AnsweredIn
  <2>2. CASE replyQ' = replyQ
    BY <2>2 DEF Quiet
  <2> QED BY <1>4, <2>1, <2>2
<1> QED BY <1>1, <1>2, <1>3, <1>5 DEF Quiet, CaptureEmpty, captureVars, captureQVars, encodeVars,
        sendVars, Seen, OnWire

LEMMA ServeKeepsQuiet == OnceInv /\ Quiet /\ (Serve \/ ServerBeats) => Quiet'
<1> SUFFICES ASSUME OnceInv, Quiet, Serve \/ ServerBeats PROVE Quiet'
  OBVIOUS
<1>1. ~ServerAnswers
  BY DEF ServerAnswers, Quiet
<1>2. ~ServerAcks
  <2> SUFFICES ASSUME ServerAcks PROVE FALSE
    OBVIOUS
  <2>1. wire # <<>> /\ Head(wire) # None
    BY DEF ServerAcks
  <2>2. Head(wire) \in Elems(wire)
    BY <2>1, TailElems DEF OnceInv
  <2> QED BY <2>1, <2>2 DEF Quiet, OnWire
<1>3. /\ UNCHANGED <<captureVars, captureQVars, encodeVars, networkQ, sendVars, books, history, owed>>
      /\ wire' = wire \/ (wire # <<>> /\ wire' = Tail(wire))
      /\ \/ replyQ' = replyQ
         \/ \E k \in {"EOF", "CLOSED", "HEARTBEAT"} : replyQ' = Append(replyQ, Event(k, None))
  <2>1. CASE ServerReadsEof
    BY <2>1 DEF ServerReadsEof, serverUnchanged, pump
  <2>2. CASE ServerEnds
    BY <2>2 DEF ServerEnds, serverUnchanged, Arrives, server
  <2>3. CASE ServerBeats
    BY <2>3 DEF ServerBeats, serverUnchanged, Arrives, server
  <2> QED BY <1>1, <1>2, <2>1, <2>2, <2>3 DEF Serve
<1>4. OnWire' \subseteq OnWire
  <2>1. wire \in Seq(Frames \union {None})
    BY DEF OnceInv
  <2>2. ASSUME wire # <<>>, wire' = Tail(wire) PROVE Elems(wire') \subseteq Elems(wire)
    BY <2>1, <2>2, TailElems
  <2> QED BY <1>3, <2>2 DEF OnWire
<1>5. AnsweredIn(replyQ') = AnsweredIn(replyQ)
  <2>1. ASSUME NEW k \in {"EOF", "CLOSED", "HEARTBEAT"}, replyQ' = Append(replyQ, Event(k, None))
        PROVE  AnsweredIn(replyQ') = AnsweredIn(replyQ)
    <3>1. Event(k, None) \in Events /\ ~IsAnswer(Event(k, None))
      BY <2>1, EventTyped DEF Kinds, IsAnswer, Answers, Event
    <3>2. replyQ \in Seq(Events)
      BY DEF OnceInv
    <3> QED BY <2>1, <3>1, <3>2, AnsweredAppended
  <2> QED BY <1>3, <2>1
<1> QED BY <1>3, <1>4, <1>5 DEF Quiet, CaptureEmpty, captureVars, captureQVars, encodeVars, books,
        history, sendVars, Seen

LEMMA ClosingKept ==
  /\ FrameInv /\ PlaceInv /\ OnceInv /\ SentinelInv /\ FlowInv /\ AnswerInv
  /\ ClosingInv /\ [Next]_vars
  => ClosingInv'
<1> SUFFICES ASSUME FrameInv, PlaceInv, OnceInv, SentinelInv, FlowInv, AnswerInv,
                    ClosingInv, [Next]_vars
             PROVE  ClosingInv'
  OBVIOUS
<1>1. ASSUME npc' = npc \/ npc' \notin {"sendEof", "eofOut"}, UNCHANGED eofSent, Quiet => Quiet'
      PROVE  ClosingInv'
  BY <1>1 DEF ClosingInv, Closing
<1>2. ASSUME UNCHANGED <<wire, owed, replyQ, ackSeen, networkQ, item, captured>>,
             captureQ' \subseteq captureQ,
             cpc \in {"signal", "done"} => cpc' \in {"signal", "done"},
             Exited(epc) = Workers => Exited(epc') = Workers,
             inflight' \subseteq inflight, acksPending' \subseteq acksPending
      PROVE  Quiet => Quiet'
  BY <1>2 DEF Quiet, CaptureEmpty, OnWire, Seen
<1>3. CASE Capture
  <2>1. /\ UNCHANGED <<epc, networkQ, sendVars, books, server, pump, history, eofSent>>
        /\ CaptureEmpty => CaptureEmpty' /\ UNCHANGED captured
    BY <1>3 DEF Capture, CaptureFrame, FramePut, CaptureOver, SignalStop, encodeVars,
       CaptureEmpty
  <2>2. Quiet => Quiet'
    BY <2>1 DEF Quiet, sendVars, books, server, pump, history, OnWire, Seen
  <2> QED BY <1>1, <2>1, <2>2 DEF sendVars
<1>4. ASSUME NEW w \in Workers, Encode(w) PROVE ClosingInv'
  <2>1. ~Quiet
    BY <1>4 DEF Encode, GetFrame, GetNone, NonePut, GetStopped, Encoded, FrameForwarded,
       EncodeFailed, Quiet, Exited
  <2>2. UNCHANGED <<npc, eofSent>>
    BY <1>4 DEF Encode, GetFrame, GetNone, NonePut, GetStopped, Encoded, FrameForwarded,
       EncodeFailed, sendVars
  <2> QED BY <1>1, <2>1, <2>2
<1>5. CASE Send
  <2>1. Quiet => Quiet'
    BY <1>5, SendKeepsQuiet
  <2>2. CASE DrainWaited
    <3>1. npc' = "sendEof" => ~stop /\ npc = "drain" /\ NothingInFlight
      BY <2>2 DEF DrainWaited
    <3>2. npc' = "sendEof" => Quiet
      BY <3>1, DrainedIsQuiet
    <3>3. npc' # "eofOut" /\ UNCHANGED eofSent
      BY <2>2 DEF DrainWaited
    <3> QED BY <2>1, <3>2, <3>3 DEF ClosingInv, Closing
  <2>3. CASE EofOut
    BY <2>1, <2>3 DEF EofOut, ClosingInv, Closing
  <2>4. CASE ~DrainWaited /\ ~EofOut
    <3>1. UNCHANGED eofSent /\ (npc' = npc \/ npc' \notin {"sendEof", "eofOut"})
      BY <1>5, <2>4 DEF Send, SenderGetFrame, SenderGetNone, SenderStopped, SenderHeartbeat,
         Admitted, FrameOut, SendFailed, Registered, EofRecorded, SenderTurn, sendVars
    <3> QED BY <1>1, <2>1, <3>1
  <2> QED BY <2>2, <2>3, <2>4
<1>6. CASE Consume
  <2>1. UNCHANGED <<npc, eofSent>>
    BY <1>6 DEF Consume, ConsumerStopped, AckConsumed, HeartbeatConsumed, PumpEnded,
       EofConsumed, UnknownReply, ErrorConsumed, DataConsumed, Emitted, NothingReady,
       EmitFailed, FlushEmitted, FlushFailed, Flushed, DeadlinePassed,
       HeartbeatMissed, ConsumerBlocks, sendVars
  <2> QED BY <1>1, <1>6, <2>1, ConsumeKeepsQuiet
<1>7. CASE Serve \/ ServerBeats
  <2>1. UNCHANGED <<npc, eofSent>>
    BY <1>7 DEF Serve, ServerAcks, ServerAnswers, ServerReadsEof, ServerEnds, ServerBeats,
       serverUnchanged, sendVars
  <2> QED BY <1>1, <1>7, <2>1, ServeKeepsQuiet
<1>8. CASE Main
  <2>1. /\ UNCHANGED <<wire, owed, replyQ, ackSeen, networkQ, item, captured, captureQ, eofSent>>
        /\ cpc \in {"signal", "done"} => cpc' \in {"signal", "done"}
        /\ inflight' \subseteq inflight /\ acksPending' \subseteq acksPending
        /\ npc' = npc \/ npc' \notin {"sendEof", "eofOut"}
    BY <1>8 DEF Main, Finished, TaskRaised, Failed, captureVars, captureQVars, sendVars,
       senderLog, books, server, pump, history
  <2>2. epc' = epc \/ epc' = [w \in Workers |-> "exit"]
    BY <1>8 DEF Main, Finished, TaskRaised, Failed, encodeVars
  <2>3. Exited(epc) = Workers => Exited(epc') = Workers
    BY <2>2 DEF Exited
  <2> QED BY <1>1, <1>2, <2>1, <2>3
<1>9. CASE UNCHANGED vars
  BY <1>1, <1>2, <1>9 DEF vars, captureVars, captureQVars, encodeVars, sendVars, senderLog,
     books, server, pump, history
<1> QED BY <1>3, <1>4, <1>5, <1>6, <1>7, <1>8, <1>9 DEF Next

-----------------------------------------------------------------------------
(* The three views of the end.  ControlPlane drains while the consumer      *)
(* serves only after MSG_EOF, when no ACK can be missing any more.          *)
Serving == rpc \in {"wait", "emit"}

StateInv ==
  /\ EndedIsNotServed
  /\ cp.state = "DRAINING" => eofSent \/ ~Serving
  /\ cp.state = "TERMINATED" => cp.pending = {}
  /\ lifecycle = "TERMINATED" => cp.state = "TERMINATED"

(* A step that leaves ControlPlane alone, or moves it by a call that ends   *)
(* nothing, and does not end the lifecycle.                                 *)
LEMMA StateStays ==
  ASSUME StateInv, cp' = cp, lifecycle' = lifecycle \/ lifecycle' # "TERMINATED",
         Serving' => Serving, eofSent => eofSent'
  PROVE  StateInv'
BY DEF StateInv, EndedIsNotServed, Serving

LEMMA SendKeepsStates == BooksInv /\ ClosingInv /\ StateInv /\ Send => StateInv'
<1> SUFFICES ASSUME BooksInv, ClosingInv, StateInv, Send PROVE StateInv'
  OBVIOUS
<1>1. UNCHANGED rpc /\ (eofSent => eofSent')
  BY DEF Send, SenderGetFrame, SenderGetNone, SenderStopped, SenderHeartbeat,
     Admitted, FrameOut, SendFailed, Registered, DrainWaited, EofOut, EofRecorded,
     consumeVars
<1>2. CASE Admitted
  <2>1. lifecycle' \in {lifecycle, "FAILED"} /\ UNCHANGED eofSent
    BY <1>2 DEF Admitted, FailAndSignal
  <2>2. CASE cp' = cp
    BY <1>1, <2>1, <2>2, StateStays DEF Serving
  <2>3. CASE cp' # cp
    <3>1. ~OnFrameSentRaises(cp) /\ cp' = OnFrameSent(cp, item)
      BY <1>2, <2>3 DEF Admitted
    <3>2. /\ cp.state \notin Terminal /\ cp'.state \notin Terminal
          /\ cp'.state = "DRAINING" => cp.state = "DRAINING"
      BY <3>1 DEF OnFrameSentRaises, OnFirstDataRaises, OnFrameSent, Terminal, BooksInv,
         Planes, States
    <3> QED BY <1>1, <2>1, <3>2 DEF StateInv, EndedIsNotServed, Serving, Terminal
  <2> QED BY <2>2, <2>3
<1>3. CASE EofRecorded
  <2>1. eofSent' /\ UNCHANGED rpc
    BY <1>1, <1>3 DEF EofRecorded, ClosingInv
  <2>2. lifecycle' \in {"FAILED", "DRAINING"}
    BY <1>3 DEF EofRecorded, FailAndSignal, Transition
  <2>3. CASE cp' = cp
    BY <2>1, <2>2, <2>3, StateStays DEF Serving
  <2>4. CASE cp' # cp
    <3>1. cp' = OnEofSent(cp)
      BY <1>3, <2>4 DEF EofRecorded
    <3>2. cp'.state = "DRAINING"
      BY <3>1 DEF OnEofSent, Goto, BooksInv, Planes
    <3> QED BY <2>1, <2>2, <3>2 DEF StateInv, EndedIsNotServed, Terminal
  <2> QED BY <2>3, <2>4
<1>4. CASE ~Admitted /\ ~EofRecorded
  <2>1. UNCHANGED cp /\ (lifecycle' = lifecycle \/ lifecycle' # "TERMINATED")
    BY <1>4 DEF Send, SenderGetFrame, SenderGetNone, SenderStopped, SenderHeartbeat,
       FrameOut, SendFailed, Registered, DrainWaited, EofOut, FailAndSignal, Transition,
       session
  <2> QED BY <1>1, <2>1, StateStays DEF Serving
<1> QED BY <1>2, <1>3, <1>4

LEMMA ConsumeKeepsStates == BooksInv /\ ClosingInv /\ StateInv /\ Consume => StateInv'
<1> SUFFICES ASSUME BooksInv, ClosingInv, StateInv, Consume PROVE StateInv'
  OBVIOUS
<1>1. UNCHANGED eofSent
  BY DEF Consume, ConsumerStopped, AckConsumed, HeartbeatConsumed, PumpEnded,
     EofConsumed, UnknownReply, ErrorConsumed, DataConsumed, Emitted, NothingReady,
     EmitFailed, FlushEmitted, FlushFailed, Flushed, DeadlinePassed,
     HeartbeatMissed, ConsumerBlocks
<1>2. cp \in Planes
  BY DEF BooksInv
<1>3. ASSUME cp'.state = "FAILED", ~Serving', lifecycle' = "FAILED" PROVE StateInv'
  BY <1>3 DEF StateInv, EndedIsNotServed, Serving, Terminal
<1>4. ASSUME rpc = "wait", cp'.state \notin Terminal, UNCHANGED lifecycle,
             cp'.state = "DRAINING" => cp.state = "DRAINING"
      PROVE  StateInv'
  BY <1>1, <1>4 DEF StateInv, EndedIsNotServed, Serving, Terminal
<1>5. rpc = "wait" => cp.state \notin Terminal
  BY DEF StateInv, EndedIsNotServed
<1>6. CASE AckConsumed
  <2> DEFINE f == Head(replyQ).seq
  <2>1. rpc = "wait" /\ rpc' = IF stop' THEN "done" ELSE "wait"
    BY <1>6 DEF AckConsumed, NextIs, ConsumerTurn
  <2>2. CASE f \notin inflight
    <3>1. UNCHANGED <<cp, lifecycle>>
      BY <1>6, <2>2 DEF AckConsumed, session
    <3> QED BY <1>1, <2>1, <3>1, StateStays DEF Serving
  <2>3. CASE f \in inflight
    <3>1. cp.state \notin Terminal \union {"DRAINING"}
      BY <1>5, <2>1, <2>3 DEF ClosingInv, Closing, Quiet, StateInv, Serving
    <3>2. AckInFlight(f)
      BY <1>6, <2>3 DEF AckConsumed
    <3> HIDE DEF f
    <3>3. CASE OnAckRaises(cp, f)
      <4>1. cp' = OnError(cp) /\ lifecycle' = "FAILED" /\ stop'
        BY <3>2, <3>3 DEF AckInFlight, FailAndSignal
      <4>2. cp'.state = "FAILED"
        BY <1>2, <4>1 DEF OnError, Goto, Planes
      <4> QED BY <1>3, <2>1, <4>1, <4>2 DEF Serving
    <3>4. CASE ~OnAckRaises(cp, f)
      <4>1. cp' = OnAck(cp, f)
        BY <3>2, <3>4 DEF AckInFlight
      <4>2. cp'.state = cp.state
        BY <1>2, <3>1, <4>1 DEF OnAck, Drained, Planes
      <4>3. UNCHANGED lifecycle
        BY <3>1, <3>2, <3>4, <4>2 DEF AckInFlight, Terminal
      <4> QED BY <1>4, <2>1, <3>1, <4>2, <4>3
    <3> QED BY <3>3, <3>4
  <2> QED BY <2>2, <2>3
<1>7. CASE EofConsumed
  <2>1. /\ rpc = "wait" /\ rpc' = "flush" /\ lifecycle' = EofLifecycle(cp'.state)
        /\ cp' = IF OnEofReceivedRaises(cp) THEN OnError(cp) ELSE OnEofReceived(cp)
    BY <1>7 DEF EofConsumed, EofPlane, NextIs
  <2>2. cp'.state = "TERMINATED" => cp'.pending = {}
    BY <1>2, <1>5, <2>1 DEF OnError, OnEofReceived, Drained, Goto, Planes, Terminal
  <2>3. lifecycle' = "TERMINATED" => cp'.state = "TERMINATED"
    BY <2>1 DEF EofLifecycle, Transition
  <2> QED BY <2>1, <2>2, <2>3 DEF StateInv, EndedIsNotServed, Serving
<1>8. CASE PumpEnded \/ ErrorConsumed
  <2>1. cp' = OnError(cp) /\ lifecycle' = "FAILED" /\ rpc' \in {"done", "flush"}
    BY <1>8 DEF PumpEnded, ErrorConsumed, FailAndSignal
  <2>2. cp'.state = "FAILED"
    BY <1>2, <2>1 DEF OnError, Goto, Planes
  <2> QED BY <1>3, <2>1, <2>2 DEF Serving
<1>9. CASE HeartbeatMissed
  <2>1. cp' \in {OnError(cp), cp} /\ lifecycle' = "FAILED" /\ rpc' = "done"
    BY <1>9 DEF HeartbeatMissed, FailAndSignal
  <2>2. OnError(cp).state = "FAILED"
    BY <1>2 DEF OnError, Goto, Planes
  <2> QED BY <1>1, <1>3, <2>1, <2>2, StateStays DEF Serving
<1>10. CASE HeartbeatConsumed
  <2>1. rpc = "wait" /\ cp' = OnHeartbeat(cp) /\ UNCHANGED lifecycle
    BY <1>10 DEF HeartbeatConsumed, NextIs
  <2>2. cp'.state = cp.state \/ cp'.state = "STREAMING"
    BY <1>2, <2>1 DEF OnHeartbeat, Goto, Planes
  <2> QED BY <1>4, <1>5, <2>1, <2>2 DEF Terminal
<1>11. CASE DataConsumed
  <2>1. rpc = "wait" /\ cp' \in {cp, OnFirstData(cp)} /\ UNCHANGED lifecycle
    BY <1>11 DEF DataConsumed, NextIs, session
  <2>2. cp'.state = cp.state \/ cp'.state = "STREAMING"
    BY <1>2, <2>1 DEF OnFirstData, Goto, Planes
  <2> QED BY <1>4, <1>5, <2>1, <2>2 DEF Terminal
<1>12. CASE DeadlinePassed
  <2>1. rpc = "wait"
    BY <1>12 DEF DeadlinePassed
  <2>2. CASE LastStrike(strikes')
    <3>1. cp' = OnError(cp) /\ lifecycle' = "FAILED" /\ rpc' \in {"done", "flush"}
      BY <1>12, <2>2 DEF DeadlinePassed, FailAndSignal
    <3>2. cp'.state = "FAILED"
      BY <1>2, <3>1 DEF OnError, Goto, Planes
    <3> QED BY <1>3, <3>1, <3>2 DEF Serving
  <2>3. CASE ~LastStrike(strikes')
    <3>1. UNCHANGED lifecycle /\ (cp' = cp \/ \E late : cp' = Rearmed(late))
      BY <1>12, <2>3 DEF DeadlinePassed
    <3>2. /\ cp'.state = cp.state \/ cp'.state = "STREAMING"
      BY <3>1 DEF Rearmed
    <3> QED BY <1>4, <1>5, <2>1, <3>1, <3>2 DEF Terminal
  <2> QED BY <2>2, <2>3
<1>13. CASE \/ ConsumerStopped \/ UnknownReply \/ Emitted \/ NothingReady \/ EmitFailed
            \/ FlushEmitted \/ FlushFailed
  <2>1. UNCHANGED <<cp, lifecycle>>
    BY <1>13 DEF ConsumerStopped, UnknownReply, Emitted, NothingReady, EmitFailed,
       FlushEmitted, FlushFailed, ConsumerRaises, session
  <2>2. Serving' => Serving
    BY <1>13 DEF ConsumerStopped, UnknownReply, NextIs, Emitted, NothingReady, EmitFailed,
       FlushEmitted, FlushFailed, ConsumerRaises, Serving
  <2> QED BY <1>1, <2>1, <2>2, StateStays
<1>14. CASE Flushed
  <2>1. UNCHANGED cp /\ (lifecycle' = lifecycle \/ lifecycle' = "FAILED") /\ ~Serving'
    BY <1>14 DEF Flushed, FailAndSignal, Serving
  <2> QED BY <1>1, <2>1, StateStays
<1>15. CASE ConsumerBlocks
  <2>1. /\ rpc = "wait" /\ ~Serving' /\ UNCHANGED lifecycle
        /\ cp' \in {cp, OnHeartbeat(cp), OnError(cp), EofPlane}
    BY <1>15 DEF ConsumerBlocks, ReplyBlocks, TimerBlocks, Serving
  <2>2. lifecycle' # "TERMINATED"
    BY <1>5, <2>1 DEF StateInv, Terminal
  <2>3. cp'.state = "TERMINATED" => cp'.pending = {}
    BY <1>2, <1>5, <2>1 DEF OnHeartbeat, OnError, EofPlane, OnEofReceived, Drained, Goto,
       Planes, Terminal
  <2> QED BY <2>1, <2>2, <2>3 DEF StateInv, EndedIsNotServed, Serving
<1> QED BY <1>6, <1>7, <1>8, <1>9, <1>10, <1>11, <1>12, <1>13, <1>14, <1>15 DEF Consume

LEMMA StatesKept == BooksInv /\ ClosingInv /\ StateInv /\ [Next]_vars => StateInv'
<1> SUFFICES ASSUME BooksInv, ClosingInv, StateInv, [Next]_vars PROVE StateInv'
  OBVIOUS
<1>1. ASSUME UNCHANGED <<cp, lifecycle, rpc, eofSent>> PROVE StateInv'
  BY <1>1, StateStays DEF Serving
<1>2. CASE Capture
  BY <1>1, <1>2 DEF Capture, CaptureFrame, FramePut, CaptureOver, SignalStop, session,
     consumeVars
<1>3. ASSUME NEW w \in Workers, Encode(w) PROVE StateInv'
  BY <1>1, <1>3 DEF Encode, GetFrame, GetNone, NonePut, GetStopped, Encoded,
     FrameForwarded, EncodeFailed, session, consumeVars
<1>4. CASE Serve \/ ServerBeats
  BY <1>1, <1>4 DEF Serve, ServerAcks, ServerAnswers, ServerReadsEof, ServerEnds,
     ServerBeats, serverUnchanged, session, consumeVars
<1>5. CASE Finished
  <2>1. /\ cp' = OnShutdown(cp) /\ UNCHANGED <<lifecycle, rpc>> /\ rpc = "done"
    BY <1>5 DEF Finished, TasksOver, consumeVars
  <2>2. cp' = cp \/ (cp'.state = "FAILED" /\ cp.state \notin Terminal)
    BY <2>1 DEF OnShutdown, Goto, BooksInv, Planes
  <2> QED BY <2>1, <2>2 DEF StateInv, EndedIsNotServed, Serving, Terminal
<1>6. CASE TaskRaised \/ Failed
  <2>1. /\ UNCHANGED <<cp, eofSent>> /\ (lifecycle' = lifecycle \/ lifecycle' = "FAILED")
        /\ Serving' => Serving
    BY <1>6 DEF TaskRaised, Failed, FailAndSignal, ConsumerRaises, session, consumeVars,
       Serving
  <2> QED BY <2>1, StateStays
<1>7. CASE UNCHANGED vars
  BY <1>1, <1>7 DEF vars, session, consumeVars
<1> QED BY <1>2, <1>3, <1>4, <1>5, <1>6, <1>7, SendKeepsStates, ConsumeKeepsStates
        DEF Next, Main

-----------------------------------------------------------------------------
EndInv == StopInv /\ SentinelInv /\ FlowInv /\ AnswerInv /\ ClosingInv /\ StateInv

LEMMA EndInvariance == Spec => []EndInv
<1>1. Init => EndInv
  <2> SUFFICES ASSUME Init PROVE EndInv
    OBVIOUS
  <2>1. StopInv /\ ClosingInv
    BY DEF Init, StopInv, ClosingInv, Closing
  <2>2. FlowInv
    BY BoundsAssumption DEF Init, FlowInv, Seen
  <2>3. StateInv
    BY DEF Init, StateInv, EndedIsNotServed, Terminal, OnConnected, Goto, NewPlane
  <2> QED BY <2>1, <2>2, <2>3, InitSentinels, InitAnswers DEF EndInv
<1>2. AckInv /\ EndInv /\ [Next]_vars => EndInv'
  <2> SUFFICES ASSUME AckInv, EndInv, [Next]_vars PROVE EndInv'
    OBVIOUS
  <2>1. FrameInv /\ PlaceInv /\ OnceInv /\ BooksInv
    BY DEF AckInv, IInv
  <2>2. StopInv' /\ SentinelInv' /\ FlowInv' /\ AnswerInv' /\ ClosingInv' /\ StateInv'
    BY <2>1, StopKept, SentinelsKept, FlowKept, AnswersKept, ClosingKept, StatesKept DEF EndInv
  <2> QED BY <2>2 DEF EndInv
<1> QED BY <1>1, <1>2, AckInvariance, PTL DEF Spec

(* MSG_EOF is the last word: when it is on the wire every frame captured    *)
(* was sent, acknowledged and answered, and its answer consumed.            *)
THEOREM EofComesLast == Spec => []EofMeansAllAnswered
<1>1. OnceInv /\ ClosingInv => EofMeansAllAnswered
  <2> SUFFICES ASSUME OnceInv, ClosingInv, eofSent PROVE EofMeansAllAnswered
    BY DEF EofMeansAllAnswered
  <2>1. Quiet /\ DOMAIN replyQ = 1..Len(replyQ)
    BY DEF ClosingInv, Closing, OnceInv
  <2>2. ASSUME NEW i \in DOMAIN replyQ, replyQ[i].kind = "DATA" PROVE FALSE
    <3>1. IsAnswer(replyQ[i]) /\ i \in 1..Len(replyQ)
      BY <2>1, <2>2 DEF IsAnswer, Answers
    <3>2. replyQ[i].seq \in AnsweredIn(replyQ)
      BY <3>1 DEF AnsweredIn
    <3> QED BY <2>1, <3>2 DEF Quiet
  <2>3. Queued("DATA") = {}
    BY <2>2 DEF Queued
  <2> QED BY <2>1, <2>3 DEF Quiet, EofMeansAllAnswered
<1> QED BY <1>1, AckInvariance, EndInvariance, PTL DEF AckInv, EndInv

(* The process calls itself TERMINATED only when ControlPlane is, with no   *)
(* ACK outstanding, and a session that has ended consumes no reply.         *)
THEOREM TerminationIsClean == Spec => []TerminatedIsClean
<1>1. StateInv => TerminatedIsClean
  BY DEF StateInv, TerminatedIsClean
<1> QED BY <1>1, EndInvariance, PTL DEF EndInv

-----------------------------------------------------------------------------
(* Types.  What the invariants above leave to say: where the tasks and the  *)
(* session are, and the values that no argument so far has been about.      *)
TaskTypes ==
  /\ cpc \in {"capture", "put", "signal", "done"}
  /\ npc \in {"get", "window", "send", "sent", "drain", "sendEof", "eofOut",
              "stuck", "done", "raised"}
  /\ rpc \in {"wait", "emit", "flush", "blocked", "done", "raised"}
  /\ flushThen \in {"done", "raised"}
  /\ lifecycle \in States
  /\ health \in {"OK", "SOFT_DEGRADED", "DEGRADED", "CLOSING"}
  /\ started \in BOOLEAN /\ stop \in BOOLEAN /\ pumpOver \in BOOLEAN
  /\ eofSeen \in BOOLEAN /\ eofSent \in BOOLEAN

(* While the consumer serves it has a strike left: the last one ends it. *)
ValueTypes ==
  /\ signalled \in Nat
  /\ acksPending \subseteq Frames /\ armed \subseteq Frames /\ early \subseteq Frames
  /\ next <= MaxFrame /\ unread \subseteq Frames
  /\ strikes \in 0..MaxStrikes /\ (Serving => strikes < MaxStrikes)
  /\ report \in {NoReport} \union
                [state : States, sent : Nat, acked : Nat, pending : Nat]

LEMMA LifecycleTyped ==
  ASSUME NEW target \in States, lifecycle \in States
  PROVE  Transition(lifecycle, target) \in States
BY DEF Transition, States

LEMMA HealthTyped ==
  ASSUME TaskTypes, NEW target \in {"OK", "SOFT_DEGRADED", "DEGRADED", "CLOSING"}
  PROVE  Tracked(health, target) \in {"OK", "SOFT_DEGRADED", "DEGRADED", "CLOSING"}
BY DEF Tracked, TaskTypes

LEMMA SendKeepsTasks == TaskTypes /\ Send => TaskTypes'
<1> SUFFICES ASSUME TaskTypes, Send PROVE TaskTypes'
  OBVIOUS
<1> USE DEF TaskTypes
<1>1. UNCHANGED <<cpc, rpc, flushThen, pumpOver, eofSeen>>
  BY DEF Send, SenderGetFrame, SenderGetNone, SenderStopped, SenderHeartbeat, Admitted,
     FrameOut, SendFailed, Registered, DrainWaited, EofOut, EofRecorded, captureVars,
     consumeVars, pump, server
<1>2. stop' \in BOOLEAN /\ started' \in BOOLEAN /\ eofSent' \in BOOLEAN
  BY DEF Send, SenderGetFrame, SenderGetNone, SenderStopped, SenderHeartbeat, Admitted,
     FrameOut, SendFailed, Registered, DrainWaited, EofOut, EofRecorded, FailAndSignal,
     sendVars, senderLog
<1>3. lifecycle' \in States
  BY LifecycleTyped
     DEF Send, SenderGetFrame, SenderGetNone, SenderStopped, SenderHeartbeat, Admitted,
     FrameOut, SendFailed, Registered, DrainWaited, EofOut, EofRecorded, FailAndSignal,
     session, States
<1>4. health' \in {"OK", "SOFT_DEGRADED", "DEGRADED", "CLOSING"}
  BY HealthTyped
     DEF Send, SenderGetFrame, SenderGetNone, SenderStopped, SenderHeartbeat, Admitted,
     FrameOut, SendFailed, Registered, DrainWaited, EofOut, EofRecorded, session
<1>5. npc' \in {"get", "window", "send", "sent", "drain", "sendEof", "eofOut",
                "stuck", "done", "raised"}
  BY DEF Send, SenderGetFrame, SenderGetNone, SenderStopped, SenderHeartbeat, Admitted,
     FrameOut, SendFailed, Registered, DrainWaited, EofOut, EofRecorded, SenderTurn,
     sendVars
<1> QED BY <1>1, <1>2, <1>3, <1>4, <1>5

LEMMA ConsumeKeepsTasks == TaskTypes /\ Consume => TaskTypes'
<1> SUFFICES ASSUME TaskTypes, Consume PROVE TaskTypes'
  OBVIOUS
<1> USE DEF TaskTypes
<1>1. UNCHANGED <<cpc, npc, started, pumpOver, eofSeen, eofSent>>
  BY DEF Consume, ConsumerStopped, AckConsumed, HeartbeatConsumed, PumpEnded,
     EofConsumed, UnknownReply, ErrorConsumed, DataConsumed, Emitted, NothingReady,
     EmitFailed, FlushEmitted, FlushFailed, Flushed, DeadlinePassed,
     HeartbeatMissed, ConsumerBlocks, captureVars,
     sendVars, senderLog, pump, server
<1>2. stop' \in BOOLEAN
  BY DEF Consume, ConsumerStopped, AckConsumed, HeartbeatConsumed, PumpEnded,
     EofConsumed, UnknownReply, ErrorConsumed, DataConsumed, Emitted, NothingReady,
     EmitFailed, FlushEmitted, FlushFailed, Flushed, DeadlinePassed,
     HeartbeatMissed, ConsumerBlocks, AckInFlight,
     ConsumerRaises, FailAndSignal
<1>3. lifecycle' \in States
  <2>1. CASE AckConsumed
    BY <2>1, LifecycleTyped DEF AckConsumed, AckInFlight, FailAndSignal, session, States
  <2>2. CASE EofConsumed
    BY <2>2, LifecycleTyped DEF EofConsumed, EofLifecycle, States
  <2>3. CASE ~AckConsumed /\ ~EofConsumed
    BY <2>3 DEF Consume, ConsumerStopped, HeartbeatConsumed, PumpEnded, UnknownReply,
       ErrorConsumed, DataConsumed, Emitted, NothingReady, EmitFailed, FlushEmitted,
       FlushFailed, Flushed, DeadlinePassed, HeartbeatMissed, ConsumerBlocks,
       ConsumerRaises, FailAndSignal, session, States
  <2> QED BY <2>1, <2>2, <2>3
<1>4. health' \in {"OK", "SOFT_DEGRADED", "DEGRADED", "CLOSING"}
  BY HealthTyped
     DEF Consume, ConsumerStopped, AckConsumed, HeartbeatConsumed, PumpEnded,
     EofConsumed, UnknownReply, ErrorConsumed, DataConsumed, Emitted, NothingReady,
     EmitFailed, FlushEmitted, FlushFailed, Flushed, DeadlinePassed,
     HeartbeatMissed, ConsumerBlocks, ReplyBlocks, TimerBlocks, AckInFlight,
     ConsumerRaises, session
<1>5. /\ rpc' \in {"wait", "emit", "flush", "blocked", "done", "raised"}
      /\ flushThen' \in {"done", "raised"}
  BY DEF Consume, ConsumerStopped, AckConsumed, HeartbeatConsumed, PumpEnded,
     EofConsumed, UnknownReply, ErrorConsumed, DataConsumed, Emitted, NothingReady,
     EmitFailed, FlushEmitted, FlushFailed, Flushed, DeadlinePassed,
     HeartbeatMissed, ConsumerBlocks, ConsumerRaises,
     ConsumerTurn
<1> QED BY <1>1, <1>2, <1>3, <1>4, <1>5

LEMMA TasksKept == TaskTypes /\ [Next]_vars => TaskTypes'
<1> SUFFICES ASSUME TaskTypes, [Next]_vars PROVE TaskTypes'
  OBVIOUS
<1> USE DEF TaskTypes
<1>1. CASE Capture
  <2>1. UNCHANGED <<sendVars, consumeVars, session, server, pump, stop, eofSent>>
    BY <1>1 DEF Capture, CaptureFrame, FramePut, CaptureOver, SignalStop
  <2>2. cpc' \in {"capture", "put", "signal", "done"}
    BY <1>1 DEF Capture, CaptureFrame, FramePut, CaptureOver, SignalStop
  <2> QED BY <2>1, <2>2 DEF sendVars, senderLog, consumeVars, session, server, pump
<1>2. ASSUME NEW w \in Workers, Encode(w) PROVE TaskTypes'
  <2>1. UNCHANGED <<captureVars, sendVars, consumeVars, session, server, pump, eofSent>>
    BY <1>2 DEF Encode, GetFrame, GetNone, NonePut, GetStopped, Encoded,
       FrameForwarded, EncodeFailed
  <2>2. stop' \in BOOLEAN
    BY <1>2 DEF Encode, GetFrame, GetNone, NonePut, GetStopped, Encoded,
       FrameForwarded, EncodeFailed
  <2> QED BY <2>1, <2>2 DEF captureVars, sendVars, senderLog, consumeVars, session,
                            server, pump
<1>3. CASE Serve \/ ServerBeats
  <2>1. UNCHANGED serverUnchanged
    BY <1>3 DEF Serve, ServerAcks, ServerAnswers, ServerReadsEof, ServerEnds, ServerBeats
  <2>2. pumpOver' \in BOOLEAN /\ eofSeen' \in BOOLEAN
    BY <1>3 DEF Serve, ServerAcks, ServerAnswers, ServerReadsEof, ServerEnds, ServerBeats,
       server, pump
  <2> QED BY <2>1, <2>2 DEF serverUnchanged, captureVars, sendVars, senderLog,
                            consumeVars, session
<1>4. CASE Main
  <2>1. /\ UNCHANGED <<started, pumpOver, eofSeen, eofSent>>
        /\ flushThen' \in {"done", "raised"}
    BY <1>4 DEF Main, Finished, TaskRaised, Failed, ConsumerRaises, sendVars, senderLog,
       consumeVars, server, pump
  <2>2. stop' \in BOOLEAN /\ lifecycle' \in States
    BY <1>4 DEF Main, Finished, TaskRaised, Failed, FailAndSignal, session, States
  <2>3. health' \in {"OK", "SOFT_DEGRADED", "DEGRADED", "CLOSING"}
    BY <1>4, HealthTyped DEF Main, Finished, TaskRaised, Failed, ConsumerRaises, session
  <2>4. /\ cpc' \in {"capture", "put", "signal", "done"}
        /\ npc' \in {"get", "window", "send", "sent", "drain", "sendEof", "eofOut",
                     "stuck", "done", "raised"}
        /\ rpc' \in {"wait", "emit", "flush", "blocked", "done", "raised"}
    BY <1>4 DEF Main, Finished, TaskRaised, Failed, ConsumerRaises, captureVars, sendVars,
       consumeVars
  <2> QED BY <2>1, <2>2, <2>3, <2>4
<1>5. CASE UNCHANGED vars
  BY <1>5 DEF vars, captureVars, sendVars, senderLog, consumeVars, session, server, pump
<1> QED BY <1>1, <1>2, <1>3, <1>4, <1>5, SendKeepsTasks, ConsumeKeepsTasks DEF Next

(* What the next reply names, whatever its kind, is a frame if it has one. *)
LEMMA ReplyNames ==
  ASSUME OnceInv, AnswerInv, NextIs("ACK") \/ NextIs("DATA") \/ NextIs("ERROR")
  PROVE  Head(replyQ).seq \in Frames
<1>1. /\ replyQ \in Seq(Events) /\ replyQ # <<>>
      /\ Head(replyQ).kind \in {"ACK", "DATA", "ERROR"}
  BY DEF OnceInv, NextIs
<1>2. Head(replyQ) = replyQ[1] /\ Head(replyQ) \in Events /\ 1 \in 1..Len(replyQ)
  BY <1>1, HeadTailProperties, EmptySeq, LenProperties
<1>3. CASE Head(replyQ).kind = "ACK"
  BY <1>2, <1>3 DEF Events
<1>4. CASE Head(replyQ).kind # "ACK"
  BY <1>1, <1>2, <1>4 DEF AnswerInv, AnswerBooks, BehindAck, IsAnswer, Answers, NextIs
<1> QED BY <1>3, <1>4

LEMMA SendKeepsValues == FrameInv /\ ValueTypes /\ Send => ValueTypes'
<1> SUFFICES ASSUME FrameInv, ValueTypes, Send PROVE ValueTypes'
  OBVIOUS
<1>1. UNCHANGED <<signalled, early, next, unread, strikes, Serving, report>>
  BY DEF Send, SenderGetFrame, SenderGetNone, SenderStopped, SenderHeartbeat, Admitted,
     FrameOut, SendFailed, Registered, DrainWaited, EofOut, EofRecorded, captureVars,
     consumeVars, playVars, history, main, Serving
<1>2. acksPending' \subseteq Frames /\ armed' \subseteq Frames
  <2>1. CASE Registered
    BY <2>1 DEF Registered, FrameInv, ValueTypes
  <2>2. CASE ~Registered
    BY <2>2 DEF Send, SenderGetFrame, SenderGetNone, SenderStopped, SenderHeartbeat,
       Admitted, FrameOut, SendFailed, DrainWaited, EofOut, EofRecorded, books, ValueTypes
  <2> QED BY <2>1, <2>2
<1> QED BY <1>1, <1>2 DEF ValueTypes

LEMMA ConsumeKeepsValues ==
  OrderInv /\ OnceInv /\ AnswerInv /\ FrameInv /\ ValueTypes /\ Consume => ValueTypes'
<1> SUFFICES ASSUME OrderInv, OnceInv, AnswerInv, FrameInv, ValueTypes, Consume
             PROVE  ValueTypes'
  OBVIOUS
<1>1. UNCHANGED <<signalled, report>>
  BY DEF Consume, ConsumerStopped, AckConsumed, HeartbeatConsumed, PumpEnded,
     EofConsumed, UnknownReply, ErrorConsumed, DataConsumed, Emitted, NothingReady,
     EmitFailed, FlushEmitted, FlushFailed, Flushed, DeadlinePassed,
     HeartbeatMissed, ConsumerBlocks, captureVars, main
<1>2. acksPending' \subseteq Frames
  BY DEF Consume, ConsumerStopped, AckConsumed, HeartbeatConsumed, PumpEnded,
     EofConsumed, UnknownReply, ErrorConsumed, DataConsumed, Emitted, NothingReady,
     EmitFailed, FlushEmitted, FlushFailed, Flushed, DeadlinePassed,
     HeartbeatMissed, ConsumerBlocks, Pop, books,
     ValueTypes
<1>3. armed' \subseteq Frames
  <2>1. CASE DeadlinePassed
    <3>1. PICK due \in SUBSET armed \ {{}} :
            armed' \subseteq (armed \ due) \union (due \intersect inflight)
      BY <2>1 DEF DeadlinePassed
    <3> QED BY <3>1 DEF ValueTypes
  <2>2. CASE ~DeadlinePassed
    BY <2>2 DEF Consume, ConsumerStopped, AckConsumed, HeartbeatConsumed, PumpEnded,
       EofConsumed, UnknownReply, ErrorConsumed, DataConsumed, Emitted, NothingReady,
       EmitFailed, FlushEmitted, FlushFailed, Flushed, HeartbeatMissed,
       ConsumerBlocks, ReplyBlocks, TimerBlocks, books, ValueTypes
  <2> QED BY <2>1, <2>2
<1>4. early' \subseteq Frames
  <2>1. CASE AckConsumed \/ UnknownReply
    <3>1. Head(replyQ).seq \in Frames
      BY <2>1, ReplyNames DEF AckConsumed, UnknownReply
    <3> QED BY <2>1, <3>1 DEF AckConsumed, UnknownReply, ValueTypes
  <2>2. CASE ~AckConsumed /\ ~UnknownReply
    BY <2>2 DEF Consume, ConsumerStopped, HeartbeatConsumed, PumpEnded,
       EofConsumed, ErrorConsumed, DataConsumed, Emitted, NothingReady,
       EmitFailed, FlushEmitted, FlushFailed, Flushed, DeadlinePassed,
       HeartbeatMissed, ConsumerBlocks, history,
       ValueTypes
  <2> QED BY <2>1, <2>2
<1>5. next' <= MaxFrame
  <2>1. next' = next \/ (next \in reorder \union inflight /\ next' = next + 1)
    <3>1. CASE FlushEmitted
      BY <3>1 DEF FlushEmitted, FlushNext, Unshown
    <3>2. CASE ~FlushEmitted
      BY <3>2 DEF Consume, ConsumerStopped, AckConsumed, HeartbeatConsumed, PumpEnded,
         EofConsumed, UnknownReply, ErrorConsumed, DataConsumed, Emitted, NothingReady,
         EmitFailed, FlushFailed, Flushed, DeadlinePassed, HeartbeatMissed,
         ConsumerBlocks
    <3> QED BY <3>1, <3>2
  <2>2. next \in Nat /\ next <= MaxFrame /\ reorder \union inflight \subseteq Frames
    BY DEF OrderInv, HoldInv, FrameInv, ValueTypes
  <2> QED BY <2>1, <2>2, BoundsAssumption DEF Frames
<1>6. strikes' \in 0..MaxStrikes /\ (Serving' => strikes' < MaxStrikes)
  <2>0. MaxStrikes \in Nat \ {0}
    BY BoundsAssumption
  <2>1. CASE AckConsumed
    <3>1. Serving /\ (strikes' = strikes \/ strikes' = 0)
      BY <2>1 DEF AckConsumed, NextIs, AckInFlight, Serving
    <3> QED BY <3>1, <2>0 DEF ValueTypes
  <2>2. CASE DeadlinePassed
    <3>1. /\ Serving /\ strikes' = strikes + 1
          /\ LastStrike(strikes') => ~Serving'
      BY <2>2 DEF DeadlinePassed, Serving
    <3> QED BY <3>1, <2>0 DEF LastStrike, ValueTypes
  <2>3. CASE ConsumerBlocks
    <3>1. Serving /\ ~Serving' /\ strikes' \in {strikes, strikes + 1}
      BY <2>3 DEF ConsumerBlocks, ReplyBlocks, TimerBlocks, Serving
    <3> QED BY <3>1, <2>0 DEF ValueTypes
  <2>4. CASE ~AckConsumed /\ ~DeadlinePassed /\ ~ConsumerBlocks
    <3>1. strikes' = strikes
      BY <2>4 DEF Consume, ConsumerStopped, HeartbeatConsumed, PumpEnded,
         EofConsumed, UnknownReply, ErrorConsumed, DataConsumed, Emitted, NothingReady,
         EmitFailed, FlushEmitted, FlushFailed, Flushed, HeartbeatMissed
    <3>2. Serving' => Serving \/ (Flushed /\ flushThen \in {"wait", "emit"})
      BY <2>4 DEF Consume, ConsumerStopped, HeartbeatConsumed, PumpEnded,
         EofConsumed, UnknownReply, ErrorConsumed, DataConsumed, Emitted, NothingReady,
         EmitFailed, FlushEmitted, FlushFailed, Flushed, HeartbeatMissed,
         ConsumerRaises, NextIs, Serving
    <3> QED BY <3>1, <3>2 DEF Flushed, ValueTypes
  <2> QED BY <2>1, <2>2, <2>3, <2>4
<1>7. unread' \subseteq Frames
  <2>1. CASE DataConsumed
    BY <2>1 DEF DataConsumed, FrameInv, ValueTypes
  <2>2. CASE ~DataConsumed
    BY <2>2 DEF Consume, ConsumerStopped, AckConsumed, HeartbeatConsumed, PumpEnded,
       EofConsumed, UnknownReply, ErrorConsumed, Emitted, NothingReady, EmitFailed,
       FlushEmitted, FlushFailed, Flushed, DeadlinePassed, HeartbeatMissed,
       ConsumerBlocks, playVars, ValueTypes
  <2> QED BY <2>1, <2>2
<1> QED BY <1>1, <1>2, <1>3, <1>4, <1>5, <1>6, <1>7 DEF ValueTypes

(* A report counts finite sets. *)
LEMMA ReportTyped ==
  ASSUME FrameInv, WindowInv, PlaceInv, BooksInv, Finished
  PROVE  report' \in {NoReport} \union
                      [state : States, sent : Nat, acked : Nat, pending : Nat]
<1>1. cp'.pending = cp.pending /\ cp'.pending \subseteq Frames /\ cp'.state \in States
  BY PlaneKept DEF Finished, BooksInv, Planes
<1>2. sent \subseteq Frames /\ inflight \subseteq Frames
  BY BoundsAssumption DEF PlaceInv, Seen, FrameInv, Frames
<1>3. /\ Cardinality(cp'.pending) \in Nat /\ Cardinality(sent) \in Nat
      /\ Cardinality(inflight) \in Nat /\ Cardinality(acksPending) \in Nat
  BY <1>1, <1>2, FramesFinite, FS_CardinalityType DEF WindowInv
<1>4. ASSUME NEW p \in Nat, NEW i \in Nat, NEW a \in Nat, NEW s \in Nat, NEW st \in States
      PROVE  Report(st, p, i, a, s) \in {NoReport} \union
               [state : States, sent : Nat, acked : Nat, pending : Nat]
  BY DEF Report, Awaited
<1> QED BY <1>1, <1>3, <1>4 DEF Finished

LEMMA ValuesKept ==
  AckInv /\ AnswerInv /\ ValueTypes /\ [Next]_vars => ValueTypes'
<1> SUFFICES ASSUME AckInv, AnswerInv, ValueTypes, [Next]_vars PROVE ValueTypes'
  OBVIOUS
<1>0. FrameInv /\ WindowInv /\ OrderInv /\ PlaceInv /\ OnceInv /\ BooksInv
  BY DEF AckInv, IInv
<1>1. ASSUME UNCHANGED <<books, early, next, unread, strikes, Serving, report>>, signalled' \in Nat
      PROVE  ValueTypes'
  BY <1>1 DEF ValueTypes, books
<1>2. CASE Capture
  <2>1. UNCHANGED <<books, history, consumeVars, main>>
    BY <1>2 DEF Capture, CaptureFrame, FramePut, CaptureOver, SignalStop
  <2>2. signalled' = signalled \/ signalled' = signalled + 1
    BY <1>2 DEF Capture, CaptureFrame, FramePut, CaptureOver, SignalStop
  <2> QED BY <1>1, <2>1, <2>2 DEF history, consumeVars, playVars, main, Serving, ValueTypes
<1>3. ASSUME NEW w \in Workers, Encode(w) PROVE ValueTypes'
  <2>1. UNCHANGED <<captureVars, books, history, consumeVars, main>>
    BY <1>3 DEF Encode, GetFrame, GetNone, NonePut, GetStopped, Encoded,
       FrameForwarded, EncodeFailed
  <2> QED BY <1>1, <2>1 DEF captureVars, history, consumeVars, playVars, main, Serving, ValueTypes
<1>4. CASE Serve \/ ServerBeats
  <2>1. UNCHANGED <<captureVars, books, history, consumeVars, main>>
    BY <1>4 DEF Serve, ServerAcks, ServerAnswers, ServerReadsEof, ServerEnds, ServerBeats,
       serverUnchanged
  <2> QED BY <1>1, <2>1 DEF captureVars, history, consumeVars, playVars, main, Serving, ValueTypes
<1>5. CASE Main
  <2>1. /\ UNCHANGED <<signalled, armed, early, next, unread, strikes>>
        /\ acksPending' \subseteq acksPending /\ (Serving' => Serving)
    BY <1>5 DEF Main, Finished, TaskRaised, Failed, ConsumerRaises, captureVars, books,
       history, consumeVars, playVars, Serving
  <2>2. report' = report \/ Finished
    BY <1>5 DEF Main, TaskRaised, Failed
  <2> QED BY <1>0, <2>1, <2>2, ReportTyped DEF ValueTypes
<1>6. CASE UNCHANGED vars
  BY <1>1, <1>6 DEF vars, captureVars, history, consumeVars, playVars, main, Serving, ValueTypes
<1> QED BY <1>0, <1>2, <1>3, <1>4, <1>5, <1>6, SendKeepsValues, ConsumeKeepsValues DEF Next

(* Every variable keeps its type. *)
THEOREM TypeCorrect == Spec => []TypeOK
<1>1. Init => TaskTypes /\ ValueTypes
  <2> SUFFICES ASSUME Init PROVE TaskTypes /\ ValueTypes
    OBVIOUS
  <2>1. TaskTypes
    BY DEF Init, TaskTypes, States
  <2>2. MaxFrame \in Nat /\ MaxStrikes \in Nat \ {0}
    BY BoundsAssumption
  <2>3. ValueTypes
    BY <2>2 DEF Init, ValueTypes, Serving
  <2> QED BY <2>1, <2>3
<1>2. AckInv /\ EndInv /\ TaskTypes /\ ValueTypes /\ [Next]_vars => (TaskTypes /\ ValueTypes)'
  BY TasksKept, ValuesKept DEF EndInv
<1>3. AckInv /\ EndInv /\ TaskTypes /\ ValueTypes => TypeOK
  <2> SUFFICES ASSUME AckInv, EndInv, TaskTypes, ValueTypes PROVE TypeOK
    OBVIOUS
  <2>1. /\ captured \in 0..MaxFrame /\ captureQ \subseteq Frames /\ inflight \subseteq Frames
        /\ eframe \in [Workers -> Frames \union {None}]
        /\ networkQ \in Seq(Frames \union {None})
    BY DEF AckInv, IInv, FrameInv
  <2>2. /\ epc \in [Workers -> {"get", "encode", "put", "putNone", "exit"}]
        /\ item \in Frames \union {None} /\ sent \subseteq Frames
    BY <2>1, BoundsAssumption DEF AckInv, PlaceInv, Seen, Frames
  <2>3. /\ wire \in Seq(Frames \union {None}) /\ owed \subseteq Frames
        /\ replyQ \in Seq(Events) /\ ackSeen \subseteq Frames
    BY <2>2 DEF AckInv, OnceInv, InHand
  <2>4. replyQ \in Seq([kind : Kinds, seq : Frames \union {None}])
    <3>1. Events \subseteq [kind : Kinds, seq : Frames \union {None}]
      BY DEF Events
    <3> QED BY <2>3, <3>1, SeqMonotonic
  <2>5. /\ limit \in Limits /\ next \in 0..MaxFrame /\ reorder \subseteq Frames
        /\ published \in Seq(Frames) /\ {flushed, replayed} \subseteq SUBSET DOMAIN published
    <3>1. limit \in Limits
      BY DEF AckInv, IInv, WindowInv
    <3>2. next \in 0..MaxFrame
      BY BoundsAssumption DEF AckInv, IInv, OrderInv, HoldInv, ValueTypes
    <3> QED BY <3>1, <3>2 DEF AckInv, IInv, OrderInv, HoldInv
  <2>6. /\ cp \in [state : States, pending : SUBSET Frames]
        /\ mpc \in {"run", "cancelling", "failed", "finished"}
    BY DEF AckInv, BooksInv, Planes
  <2>7. captureNones \in Nat /\ finished \in Nat
    BY DEF EndInv, SentinelInv
  <2> QED BY <2>1, <2>2, <2>3, <2>4, <2>5, <2>6, <2>7 DEF TypeOK, TaskTypes, ValueTypes
<1> QED BY <1>1, <1>2, <1>3, AckInvariance, EndInvariance, PTL DEF Spec
=============================================================================
