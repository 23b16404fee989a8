---------------------------- MODULE FrameSupply ----------------------------
(***************************************************************************)
(* How frames reach the client: the recorder process (io/bag_recorder.py), *)
(* one of the two transports, capture_stage, and the life of a FrameHandle *)
(* until it is consumed.  Composes SpoolWatcher and SharedMemoryChannel;   *)
(* the transport that a run does not use stays in its initial state.       *)
(*                                                                         *)
(* Frame n comes from the n-th cloud the recorder keeps.  A file is named  *)
(* by its frame; a descriptor carries the recorder's index, so a frame     *)
(* whose publication failed gives its name to the next one.  The encode    *)
(* workers and all that follows them (ClientPipeline) are the holders of   *)
(* at most MaxHeld handles, which they consume in any order.               *)
(***************************************************************************)
EXTENDS SpoolWatcher, SharedMemoryChannel

CONSTANTS
  Capacity,    \* --capture-queue
  MaxHeld,     \* bound on the handles taken from the queue and not consumed
  IdleRounds,  \* idle_rounds
  Transports   \* the values of --capture-transport to look at

ASSUME FramesAssumption == Files = Segments /\ Files \subseteq Nat \ {0}
ASSUME SupplyAssumption ==
  /\ Capacity \in Nat \ {0} /\ MaxHeld \in Nat \ {0} /\ IdleRounds \in Nat
  /\ Transports \subseteq {"filesystem", "shared-memory"}

VARIABLES
  transport,  \* --capture-transport
  recorder,   \* the recorder process: up, closed (its publisher is), down
  frame,      \* the number of the cloud the recorder is at
  idx,        \* its index of the next name
  capture,    \* capture_stage: [at, batch, handles, rounds]
  queued,     \* how many handles of each frame are in capture_queue
  working,    \* how many were taken from it and are not consumed
  copied,     \* shared memory: the frames whose points are in the handle
  bagDone, saverDone, stop,  \* the events bag_done, saver_done, stop_event
  name,       \* history: the name each published line carries
  seen,       \* history: the files the last scan of the directory found
  supplied,   \* history: the frames put into the queue
  missing     \* history: the frames whose segment was gone when encoded

clientVars == <<capture, queued, working, copied, bagDone, saverDone, stop>>
history == <<name, seen, supplied, missing>>
recorderVars == <<recorder, frame, idx>>
supplyVars == <<transport, recorderVars, clientVars, history>>
vars == <<spoolVars, channelVars, supplyVars>>

Filesystem == transport = "filesystem"
SharedMemory == transport = "shared-memory"
Total(f) == MapThenSumSet(LAMBDA h : f[h], Files)

Init ==
  /\ SpoolInit /\ ChannelInit
  /\ transport \in Transports
  /\ SharedMemory => watch = CHOOSE w \in Watches : TRUE
  /\ recorder = "up" /\ frame = 1 /\ idx = 1
  /\ capture = [at |-> "begin", batch |-> <<>>, rounds |-> 0]
  /\ queued = [h \in Files |-> 0] /\ working = [h \in Files |-> 0] /\ copied = {}
  /\ bagDone = FALSE /\ saverDone = FALSE /\ stop = FALSE
  /\ name = [h \in Segments |-> 0] /\ seen = {} /\ supplied = {} /\ missing = {}

-----------------------------------------------------------------------------
(* PcdSaver.cb with a spool directory: the file is written in place.         *)
BeginFile ==
  /\ Filesystem /\ recorder = "up" /\ frame \in Files
  /\ CreateFile(frame)
  /\ UNCHANGED <<channelVars, supplyVars>>

FinishFile ==
  /\ Filesystem /\ recorder = "up" /\ frame \in Files
  /\ CloseFile(frame)
  /\ frame' = frame + 1 /\ idx' = idx + 1
  /\ UNCHANGED <<channelVars, transport, recorder, clientVars, history>>

(* cb with --shared-memory-only: the index advances when publish() returns.  *)
BeginPublish ==
  /\ SharedMemory /\ recorder = "up" /\ frame \in Segments
  /\ MakeSegment(frame)
  /\ UNCHANGED <<spoolVars, supplyVars>>

Published ==
  /\ SendLine(idx)
  /\ name' = [name EXCEPT ![frame] = idx]
  /\ idx' = idx + 1 /\ frame' = frame + 1
  /\ UNCHANGED <<spoolVars, transport, recorder, clientVars, seen, supplied, missing>>

PublishFailed ==
  /\ RefuseLine \/ TearLine
  /\ frame' = frame + 1
  /\ UNCHANGED <<spoolVars, transport, recorder, idx, clientVars, history>>

(* Between two callbacks: max_frames, the idle timer or a signal end spin(), *)
(* and close_resources closes the publisher.                                 *)
CloseRecorder ==
  /\ SharedMemory /\ recorder = "up"
  /\ ClosePublisher
  /\ recorder' = "closed"
  /\ UNCHANGED <<spoolVars, transport, frame, idx, clientVars, history>>

(* The process ends; with files, perhaps by an exception of save_xyz.        *)
ExitRecorder ==
  /\ recorder = IF Filesystem THEN "up" ELSE "closed"
  /\ recorder' = "down"
  /\ UNCHANGED <<spoolVars, channelVars, transport, frame, idx, clientVars, history>>

TrackRecorder ==
  /\ recorder = "down" /\ SharedMemory
  /\ TrackerUnlinks
  /\ UNCHANGED <<spoolVars, supplyVars>>

Channel ==
  /\ Accept \/ ReadLine \/ EndOfStream \/ JanitorTurn
  /\ UNCHANGED <<spoolVars, supplyVars>>

Watcher ==
  /\ Turn
  /\ seen' = IF call.at = "scan" THEN Present ELSE seen
  /\ UNCHANGED <<channelVars, transport, recorderVars, clientVars, name, supplied, missing>>

-----------------------------------------------------------------------------
(* The event loop runs one callback at a time, mark_consumed included.       *)
LoopFree == marking = None

(* drain_initial of the supplier: shared memory has nothing to drain. *)
BeginCapture ==
  /\ LoopFree /\ capture.at = "begin"
  /\ IF Filesystem
     THEN /\ StartCall("scan")
          /\ capture' = [capture EXCEPT !.at = "drain"]
     ELSE /\ capture' = [capture EXCEPT !.at = "loop"]
          /\ UNCHANGED spoolVars
  /\ UNCHANGED <<channelVars, transport, recorderVars, queued, working, copied,
                 bagDone, saverDone, stop, history>>

(* The test of the while loop, and the call of wait_for_new in a thread. *)
LoopCapture ==
  /\ LoopFree /\ capture.at = "loop"
  /\ capture' = [capture EXCEPT !.at = IF stop THEN "ended" ELSE "wait"]
  /\ IF Filesystem /\ ~stop THEN StartCall("read") ELSE UNCHANGED spoolVars
  /\ UNCHANGED <<channelVars, transport, recorderVars, queued, working, copied,
                 bagDone, saverDone, stop, history>>

(* get_batch runs in that thread. *)
GetBatch ==
  /\ SharedMemory /\ capture.at = "wait"
  /\ capture' = [capture EXCEPT !.at = "got", !.batch = [i \in DOMAIN inbox |-> inbox[i].segment]]
  /\ TakeInbox
  /\ UNCHANGED <<spoolVars, transport, recorderVars, queued, working, copied,
                 bagDone, saverDone, stop, history>>

(* Back on the event loop with the handles b: with none, the round counts    *)
(* as idle and the end is tested.                                            *)
SupplyOver(r) == bagDone /\ saverDone /\ r >= IdleRounds

Received(b, waited) ==
  LET rounds == IF capture.rounds < IdleRounds THEN capture.rounds + 1 ELSE IdleRounds
  IN  capture' =
        IF b # <<>> THEN [at |-> "put", batch |-> b, rounds |-> 0]
        ELSE IF ~waited THEN [capture EXCEPT !.at = "loop", !.batch = b]
        ELSE [at |-> IF SupplyOver(rounds) THEN "ended" ELSE "loop",
              batch |-> b, rounds |-> rounds]

TakeFiles ==
  /\ LoopFree /\ capture.at \in {"drain", "wait"} /\ call.at = "returned"
  /\ Received(call.fresh, capture.at = "wait")
  /\ EndCall
  /\ UNCHANGED <<channelVars, transport, recorderVars, queued, working, copied,
                 bagDone, saverDone, stop, history>>

TakeDescriptors ==
  /\ capture.at = "got"
  /\ Received(capture.batch, TRUE)
  /\ UNCHANGED <<spoolVars, channelVars, transport, recorderVars, queued, working, copied,
                 bagDone, saverDone, stop, history>>

(* _put_with_retry for each handle: a put that waits for a slot may still    *)
(* succeed after stop_event was set; one that begins then does not.          *)
Room == Total(queued) < Capacity

PutHandle ==
  LET h == Head(capture.batch)
  IN  /\ LoopFree /\ capture.batch # <<>> /\ Room
      /\ capture.at = "putWait" \/ (capture.at = "put" /\ ~stop)
      /\ queued' = [queued EXCEPT ![h] = @ + 1]
      /\ supplied' = supplied \union {h}
      /\ capture' = [capture EXCEPT !.batch = Tail(@),
                       !.at = IF Len(capture.batch) = 1 THEN "loop" ELSE "put"]
      /\ UNCHANGED <<spoolVars, channelVars, transport, recorderVars, working, copied,
                     bagDone, saverDone, stop, name, seen, missing>>

PutWaits ==
  /\ LoopFree /\ capture.at = "put" /\ ~Room /\ ~stop
  /\ capture' = [capture EXCEPT !.at = "putWait"]
  /\ UNCHANGED <<spoolVars, channelVars, transport, recorderVars, queued, working, copied,
                 bagDone, saverDone, stop, history>>

PutStopped ==
  /\ LoopFree /\ capture.at \in {"put", "putWait"} /\ stop
  /\ capture' = [capture EXCEPT !.at = "ended", !.batch = <<>>]
  /\ UNCHANGED <<spoolVars, channelVars, transport, recorderVars, queued, working, copied,
                 bagDone, saverDone, stop, history>>

CaptureStep ==
  BeginCapture \/ LoopCapture \/ GetBatch \/ TakeFiles \/ TakeDescriptors
    \/ PutHandle \/ PutWaits \/ PutStopped

-----------------------------------------------------------------------------
(* A worker takes a handle. *)
Take(h) ==
  /\ LoopFree /\ queued[h] > 0 /\ Total(working) < MaxHeld
  /\ queued' = [queued EXCEPT ![h] = @ - 1]
  /\ working' = [working EXCEPT ![h] = @ + 1]
  /\ UNCHANGED <<spoolVars, channelVars, transport, recorderVars, capture, copied,
                 bagDone, saverDone, stop, history>>

(* ensure_encoder_input of a SharedMemoryFrameHandle, in a thread.  If the   *)
(* segment is gone the encode fails: the handle is consumed, the client      *)
(* stops.                                                                    *)
Materialize(h) ==
  /\ SharedMemory /\ working[h] > 0 /\ h \notin copied
  /\ IF h \in Live
     THEN /\ Unlink(h)
          /\ copied' = copied \union {h}
          /\ UNCHANGED <<working, stop, missing>>
     ELSE /\ missing' = missing \union {h}
          /\ working' = [working EXCEPT ![h] = @ - 1]
          /\ stop' = TRUE
          /\ UNCHANGED <<channelVars, copied>>
  /\ UNCHANGED <<spoolVars, transport, recorderVars, capture, queued,
                 bagDone, saverDone, name, seen, supplied>>

(* on_consumed, after the reply or a failed encode, which stops the client.  *)
Consume(h) ==
  /\ LoopFree /\ working[h] > 0
  /\ Filesystem \/ h \in copied
  /\ IF Filesystem THEN Forget(h) ELSE UNCHANGED spoolVars
  /\ working' = [working EXCEPT ![h] = @ - 1]
  /\ stop' \in {stop, TRUE}
  /\ UNCHANGED <<channelVars, transport, recorderVars, capture, queued, copied,
                 bagDone, saverDone, history>>

EndMark == Retire /\ UNCHANGED <<channelVars, supplyVars>>

HandleStep == \E h \in Files : Take(h) \/ Materialize(h) \/ Consume(h)

(* monitor_process polls the recorder until it ends or the client stops; the *)
(* bag's process, or its absence, is outside this module.                    *)
MonitorSaver ==
  /\ LoopFree /\ ~saverDone /\ (recorder = "down" \/ stop)
  /\ saverDone' = TRUE
  /\ UNCHANGED <<spoolVars, channelVars, transport, recorderVars, capture, queued, working,
                 copied, bagDone, stop, history>>

MonitorBag ==
  /\ LoopFree /\ ~bagDone
  /\ bagDone' = TRUE
  /\ UNCHANGED <<spoolVars, channelVars, transport, recorderVars, capture, queued, working,
                 copied, saverDone, stop, history>>

(* Some other task of the client sets stop_event. *)
Stop ==
  /\ LoopFree /\ ~stop
  /\ stop' = TRUE
  /\ UNCHANGED <<spoolVars, channelVars, transport, recorderVars, capture, queued, working,
                 copied, bagDone, saverDone, history>>

(* The exit stack of run_client, once its tasks have ended.                  *)
EndReceiver ==
  /\ SharedMemory /\ capture.at = "ended"
  /\ StopReceiver
  /\ UNCHANGED <<spoolVars, supplyVars>>

Next ==
  \/ BeginFile \/ FinishFile \/ BeginPublish \/ Published \/ PublishFailed
  \/ CloseRecorder \/ ExitRecorder \/ TrackRecorder
  \/ Channel \/ Watcher \/ CaptureStep \/ HandleStep \/ EndMark
  \/ MonitorSaver \/ MonitorBag \/ Stop \/ EndReceiver

Spec == Init /\ [][Next]_vars

(* Threads return, the event loop runs every ready task, and the replies     *)
(* that consume the handles come.  Nobody has to stop the client, and the    *)
(* recorder need neither get a cloud nor end.                                *)
FairSpec ==
  /\ Spec
  /\ WF_vars(Watcher) /\ WF_vars(Channel) /\ WF_vars(EndMark)
  /\ WF_vars(CaptureStep) /\ WF_vars(MonitorSaver)
  /\ WF_vars(\E h \in Files : Take(h))
  /\ WF_vars(\E h \in Files : Materialize(h) \/ Consume(h))

-----------------------------------------------------------------------------
(* Every variable keeps its type, those of the two transports too. *)
TypeOK ==
  /\ SpoolTypeOK /\ ChannelTypeOK
  /\ transport \in Transports /\ recorder \in {"up", "closed", "down"}
  /\ frame \in Nat /\ idx \in Nat
  /\ capture \in [at : {"begin", "drain", "loop", "wait", "got", "put", "putWait", "ended"},
                  batch : Seq(Files), rounds : 0..IdleRounds]
  /\ queued \in [Files -> Nat] /\ working \in [Files -> Nat] /\ copied \subseteq Files
  /\ bagDone \in BOOLEAN /\ saverDone \in BOOLEAN /\ stop \in BOOLEAN
  /\ name \in [Segments -> Nat]
  /\ seen \subseteq Files /\ supplied \subseteq Files /\ missing \subseteq Files

(* The handles of frame h between the supplier and on_consumed. *)
Occurrences(q, h) == Cardinality({i \in DOMAIN q : q[i] = h})
Handles(h) ==
  Occurrences(call.fresh, h) + Occurrences(capture.batch, h) + queued[h] + working[h]
NameOf(h) == IF Filesystem THEN h ELSE name[h]

(* No two handles that are not consumed have one name, whatever the race     *)
(* between wait_for_new and mark_consumed and whatever publications failed:  *)
(* the encoder's output and the server's files are named by it.  With a      *)
(* --spool-gc-window this is not promised.                                   *)
InPipelineOnce ==
  watch.gcWindow = 0 =>
    /\ \A h \in Files : Handles(h) <= 1
    /\ \A g, h \in Files :
         (g # h /\ Handles(g) > 0 /\ Handles(h) > 0) => NameOf(g) # NameOf(h)

(* When the capture ends by itself, every file that its last look at the     *)
(* directory found has been put into the queue: no file is remembered as     *)
(* known without having been returned, by inotify or by the scan.            *)
EndMeansSupplied ==
  (Filesystem /\ capture.at = "ended" /\ ~stop) => seen \subseteq supplied

(* Shared memory: while both ends run, a live segment has somebody who will  *)
(* free it, except the ones announced in a line that a torn line spoilt:     *)
(* at most one for each torn line.                                           *)
Owned ==
  {publishing} \union ToSet(dangling) \union ToSet(capture.batch)
    \union {h \in Files : queued[h] + working[h] > 0}
    \union {wire[i].segment : i \in {j \in DOMAIN wire : wire[j].clean}}
    \union {inbox[i].segment : i \in DOMAIN inbox}
OrphansBounded ==
  (recorder = "up" /\ receiver # "ended" /\ ~stop) =>
    Cardinality(Live \ Owned) <= faults.torn

(* A frame that was delivered is found in shared memory, unless the recorder *)
(* has exited: only its resource tracker takes a segment from its reader.    *)
LostOnlyAfterExit == missing # {} => recorder = "down"

(* Once recorder and bag have ended the capture ends, although files are     *)
(* supplied again and the queue is bounded.  The history of retired names    *)
(* must be long enough for the spool: a shorter one makes files new again.   *)
CaptureEnds ==
  watch.historyLimit >= Cardinality(Files) =>
    ((bagDone /\ saverDone) ~> (capture.at = "ended"))
=============================================================================
