# Verification of draco_roundtrip

This directory is a TLA+ development beside the streaming system in
`ros2_ws/src/draco_roundtrip`: a client that captures point-cloud frames,
compresses them with Draco and sends them over TCP, and a server that decodes
each frame and sends the result back; and of the offline pipeline in
`ros2_ws/src/draco_tools`, which does the same with files. The modules are translated from the
Python source; `PROJECT.json` maps every definition to the lines it stands for.
Paths below are relative to `ros2_ws/src/draco_roundtrip/draco_roundtrip/`, or,
where they begin with `draco_tools/`, to `ros2_ws/src/draco_tools/`.

## 1. The system

    ros bag -> PLY files or shared memory
       |  (spool watcher, shared-memory receiver)
       v
    capture_stage --capture_queue--> encode_worker (n) --network_queue-->
    network_sender ==TCP==> _recv_loop --decode_queue--> _decode_worker (n)
                                |  ACK, heartbeat               |
                                v                           send_queue
    reply_consumer <--reply_queue-- ReplyPump <==TCP== _send_loop
       |  reorder buffer
       v
    playback, recorder, output files, metrics

| Part | State it keeps | Operations | Interacts through |
|---|---|---|---|
| `utils/stream_protocol.py` ControlPlane | session state, pending sequences, their deadlines and timeouts, last heartbeat | `on_connected`, `on_first_data`, `on_frame_sent`, `on_ack`, `on_eof_sent`, `on_eof_received`, `on_error`, `on_shutdown`, `on_heartbeat`, `expired_sequences` | called by the tasks of both nodes |
| `common/state_machine.py` StreamStateMachine | the process's own phase (`lifecycle`) | `transition`, `fail` | called by the tasks of both nodes |
| `common/timers.py` AckDeadlineHeap | heap of (deadline, sequence), dictionary of live deadlines | `push`, `cancel`, `pop_due`, `next_deadline` | client sender and consumer |
| `nodes/stream_server.py` session | decode and send queue with their unfinished counts, `stop_event`, `producer_done`, finished workers | `_recv_loop`, `_decode_worker`, `_send_loop`, `handle_connection` | asyncio queues and events; the socket |
| `nodes/stream_server.py` FragmentBuffer | assemblies by sequence, bytes buffered | `add`, `gc`, `clear`, `_evict_for_memory` | the receive loop and its GC task |
| `nodes/stream_client.py` session | capture, network and reply queue, `inflight`, `acks_pending`, reorder buffer, `next_sequence`, window, strikes, health (`SessionTracker`) | `capture_stage`, `encode_worker`, `network_sender`, `ReplyPump`, `reply_consumer`, `run_client` | asyncio queues, one condition, the pump thread, the socket |
| `nodes/stream_client.py` SpoolWatcher | known names, retired names | discovery, `mark_consumed`, `_gc_known` | file system |
| `shared_memory/channel.py` | the publisher's socket and janitor queue, the receiver's queue of descriptors, the segments | `publish`, `_janitor_loop`, `close`; `_run`, `get_batch`, `stop` | one TCP connection beside shared memory; the resource tracker of Python |
| `io/bag_recorder.py` | index of the next frame, its publisher | `cb`, `close_resources`, `main` | a process of its own; files or the shared-memory channel |
| `net/protocol.py`, `net/io.py` | none, but a message can be abandoned in the middle | send and receive in two framings, `resolve_protocol` | the byte stream; two threads of the server write on it |
| `protocol/header.py`, codecs of `utils/stream_protocol.py` | none | binary header, frame addresses, response headers, `iter_fragments` | both nodes |
| `utils/telemetry.py` and the end of `run_client` | the counts a session ends with | `build`, export | read the books of the client |
| `draco_tools/offline_pipeline.py` with `cli/encode_ply_to_draco.py`, `draco/encoder.py` and `analysis/analyze_draco_quality.py` | the two children, the queue of the saver's lines, the reason; on disk three directories shared by all runs, and the logs of each | capture, `_terminate`, encode pool, decode and metric pools, `_aggregate_cycle_times` | pipes and signals of the player and the recorder; files |
| `utils/config.py`, `ros/`, `draco/`, `analysis/`, `tools/` | data only | defaults, running external processes | files and processes |

What is hard in it, and so what the properties are about:

* tasks of one event loop that share dictionaries and look at them before and
  after an `await` (window, in-flight books, `stop_event`);
* three shutdown paths (EOF, failure, cancellation) that must empty queues of
  bounded size with a sentinel per worker and exact `task_done()` accounting;
* a session state kept three times in the client (ControlPlane, lifecycle,
  health), each with its own rules, driven by the sender, the consumer and the
  end of the connection in any order;
* replies that come back in another order than the frames went out, and must be
  published in order;
* deadlines that move, are cancelled, and pass while the ACK is already queued;
* a stream of bytes that two threads write without a lock, that a failed write
  leaves in the middle of a message, and that a timeout leaves the reader in the
  middle of one;
* a watcher whose calls run in a thread while the event loop edits what it
  remembers, over a directory that only ever grows;
* segments of shared memory that three processes may free;
* one frame known by a sequence number, by a name inside an address, and by the
  names of files, of which each framing and each server keeps others;
* a pipeline of processes judged by what they print and by how they end, over
  directories that keep what every earlier run left, whole or cut.

The full list, each item at its line and with the properties that would catch
it, is under `hazards` in `PROJECT.json`.

What makes each part correct:

* control plane: an ACK is accepted exactly while it is owed, TERMINATED means
  nothing is owed, a drain ends, an ended session stays ended;
* server: an ACK is a promise that the frame is answered unless the session
  breaks; queues bounded; `join()` accounting exact; the end of a session is
  reached;
* client: the window holds, the books agree, frames are published in order and
  once, EOF comes last, failure ends every task;
* deadline heap: live deadlines are never lost, `pop_due` and `push` report the
  truth, loops end;
* fragments: memory bounded, whole frames delivered, nothing lost silently,
  nothing kept for ever;
* supply: a frame is in the pipeline once, what was found is supplied, segments
  are freed, and not before they are read;
* framing: whole messages in the order of writing, and after a fault never a
  message twice or out of its order;
* exchange: what is decoded, matched and published as a frame is that frame;
* offline pipeline: children are gone before their files are read, a recording
  that was cut off is no success, results are those of the files and of the run
  they are reported for.

## 2. The modules

| Module | Models | Built on |
|---|---|---|
| `SessionState` | ControlPlane and StreamStateMachine as operators on their states: `X` is the state after a call, `XRaises` says when it raises | |
| `ControlPlane` | one ControlPlane object, its methods in any order its state machine lets through, with deadlines and a clock | `SessionState` |
| `FrameService` | the abstract promise of the server: accept (ACK), then answer once; close only when nothing accepted is unanswered | |
| `ServerPipeline` | a server session: all its tasks, queues and events | `SessionState`; implements `FrameService` |
| `Telemetry` | when a session's report is refused and what it counts, as operators | |
| `ClientPipeline` | a client session: all its tasks, queues and books, the pump thread, its report, the server as environment | `SessionState`, `Telemetry` |
| `AckDeadlines` | AckDeadlineHeap, one turn of a loop per action | |
| `FragmentBuffer` | FragmentBuffer with the calls of the receive loop and the GC task | |
| `SpoolWatcher` | the watcher and its directory | |
| `SharedMemoryChannel` | publisher, receiver, janitor and segments | |
| `FrameSupply` | recorder, transport, `capture_stage` and the life of a handle | composes `SpoolWatcher` and `SharedMemoryChannel` |
| `MessageFifo` | the abstract promise of the framing: whole messages in order, until a fault | |
| `FrameStream` | the byte stream in one direction: several writers, one reader, both framings | implements `MessageFifo` |
| `Codecs` | addresses, headers, fragments and response payloads, as operators | |
| `FrameExchange` | the data of a frame through client and server, and through the legacy server | `Codecs` |
| `OfflineCapture` | the first stage of an offline run: player, saver, pump thread, watch loop, ending the children, the verdict | |
| `OfflinePipeline` | several offline runs over the same directories, all stages | `OfflineCapture` |
| `ControlPlane_proofs`, `ServerPipeline_proofs`, `FragmentBuffer_proofs`, `FrameSupply_proofs`, `FrameStream_proofs`, `ClientPipeline_proofs`, `OfflinePipeline_proofs` | theorems | the module named |
| `FrameExchange_proofs` | theorems | `FrameExchange`, `AckDeadlines` |
| `MC...` | constants for TLC | the module named |

How they fit together: `FrameSupply` ends where a handle is taken from
`capture_queue`, which is where `ClientPipeline` begins (its `capture_stage` is
seen there only through the frames it puts). `ClientPipeline` and
`ServerPipeline` are the control of the two ends, each against the other as an
environment; `FrameStream` is the wire between them and says when messages may
be taken as atomic; `FrameExchange` is the data both ends pass over it, with
their control reduced to what the data can tell apart.

### Conventions

* In the two pipeline modules an action is what one asyncio task does between
  two awaits that suspend it. A program counter names the await at which each
  task is suspended; a call that runs in a thread (`asyncio.to_thread`) is such
  an await, and its completion is a later action. `queue.put` and `queue.get`
  that need not wait do not suspend, as in asyncio.
* A task suspended on a queue together with `stop_event` may still take an item
  after the event is set, or give up. `_queue_get` and `_put_with_retry` allow
  both, depending on what had completed when the task ran again.
* An exception is control: each call that can raise is guarded by its `Raises`
  operator, and the action then takes the path of the `except` or `finally`
  block that catches it.
* Payloads, names, sizes of messages, logging and statistics are left out.
  Frames are numbers, the sentinel of a queue and MSG_EOF on the wire are
  `None`.
* Some operators come with faulty variants, marked "mutant" in the comment
  beside them. `PROJECT.json` pairs each property with one of them; the property
  must fail when the variant takes the operator's place.

### ControlPlane

`cp.state` and `cp.pending` are `state` and the keys of `_pending`, `deadline`
and `timeout` the values of `_pending_deadlines`. An owner numbers its frames,
so `FrameSent(s, t)` happens once for each `s`. `expired_sequences` re-arms
what it returns. `sent`, `acked`, `eofReceived` and `reported` are history.

### ServerPipeline

`rpc`, `wpc[w]`, `spc`, `mpc` are the places of `_recv_loop`, the workers,
`_send_loop` and `handle_connection`. `decodeUndone` and `sendUndone` are the
`_unfinished_tasks` of the queues. Frames are numbered as they are received;
whether a frame came in fragments is `FragmentBuffer`'s matter and appears as
"kept, no job yet". Failures that are always possible: recv, send and decode
may fail, the client may close, send EOF, ERROR or a heartbeat at any time, and
`_recv_loop` may time out.

### ClientPipeline

`cpc`, `epc[w]`, `npc`, `rpc`, `mpc` are the places of the tasks. `inflight`,
`acksPending` and `armed` are `inflight`, `acks_pending` and the live deadlines.
`captureQ` is a set with a count of sentinels, because the priority queue orders
frames by file time and puts sentinels last. The server is the environment: it
ACKs in the order of the wire, answers in any order after the ACK, answers EOF
with EOF or by closing. `Faults` lists what else may happen: a failing encoder,
playback or send, a passed deadline, a missed heartbeat, a closed connection, a
reply that cannot be parsed, an ERROR reply, an EOF of the server's own accord.
`ServerAcks`, `ServerAnswers`, `ServerReadsEof`, `ServerBeats` and `ServerEnds` are
what `nodes/stream_server.py` does as the client sees it; the server itself is
`ServerPipeline`.

Two places where tasks meet are modelled step by step:

* The final flush, `drain_ready(force=True)` (`nodes/stream_client.py:1381`). It
  awaits one publication after another and clears `reorder_buffer` only after the
  last. So `FlushEmitted` leaves the frame in `reorder` and notes its position of
  `published` in `flushed`. If a publication raises (`EmitFailed`) or the task is
  cancelled (`TaskRaised`), the `except` block flushes the same buffer again: those
  positions become `replayed`, and their frames come a second time, `on_consumed`
  with them. A flush that fails in the `except` block (`FlushFailed`) is not repeated.
* The lock of `inflight_condition`. `_wait_with_health` (`:1046`) runs with it held,
  and `_fail_and_signal` enters it again; asyncio's lock is not reentrant. From
  then on the sender is "stuck", `LockFree` is false, and the consumer is
  "blocked" at the next message or timer whose handler needs the lock.

Replies in several fragments are left out because this server sends each reply
as one message. A `local_skip` event is never handled: its sender sets
`stop_event` in the same turn and the consumer looks at that first. `report` is
what `run_client` writes at its end, by way of `Telemetry`; `sent` is its
`frames_sent`. `published`, a sequence, is history, and so are `replayed` and
`unread` (frames whose reply could not be parsed).

### AckDeadlines

The heap is the bag of its entries, as heapq promises nothing about the list
but its first element. (`HeapInit`, `HeapNext` and `HeapSpec` have names of their
own because the module that proves about the heap proves about `FrameExchange`
too.) A call starts, runs turn by turn, and returns before the
next one starts, since all callers are on the event loop.

### FragmentBuffer

The dictionary is `got`; `older` is the order of its frames by `last_update`, and
`idle` is how long ago that was, up to the time to live. Bytes are units, each
fragment of a frame having the same size; `Held` names every one of them, so what
is buffered is the size of a set. The loop of `_evict_for_memory` is `Evicted`: a
frame goes when those before it were not enough. The environment sends fragments in any
order and repeats a few of them. The client of this repository does neither; the
class is written for both.

### SpoolWatcher, SharedMemoryChannel, FrameSupply

A file is absent, open or whole and is never removed. `wait_for_new` and
`drain_initial` run in a thread: `call` is their place and their locals, and
each of their steps may be followed by a step of the event loop; the two halves
of `mark_consumed` (`Forget`, `Retire`) are two steps because the thread can read
`_known` and `_retired_set` between them. `sorted()` puts each name at the place of
its `Rank`. `capture` is `capture_stage`.

A segment is unmade, live or gone. `publish` is two steps, so that the recorder
can be seen between making a segment and announcing it. `torn` says that the
stream ends in the beginning of a line; the line that follows is then no JSON
(`clean` FALSE). Faults are bounded by `MaxTorn` and `MaxUnlinkFaults`. The
resource tracker of the recorder's interpreter unlinks what was not unlinked by
the recorder itself, after it has exited.

A run uses one transport, chosen in the initial state; the variables of the
other stay as they were. `name`, `seen`, `supplied` and `missing` are history.

### MessageFifo and FrameStream

The stream is a sequence of cells, each a part of a message. A cell is what one
write or one read of the framing handles; bytes within it matter only where
`recv` may return fewer of them than asked for, which the code looks into in one
place (`net/protocol.py:145`, `ShortRead`). `CutRead` is a timeout in the middle
of a message, after which the next `recv` starts where the last one stopped.
Bytes read as a length yield any small number (`MaxGarbage`). A write that fails
may leave part of a cell on the stream, a cell "torn". Where a reader that lost
its place stops within a cell is left out: it returns garbage, as at the border
of a cell. A writer that gives up sets `stop_event`; `halted` holds the writers
that have seen it. One in the middle of a message finishes it first, and one that
looked just before begins one more. `faulty` becomes true when messages overlap or
one is cut; the refinement of `MessageFifo` maps it to `broken`. So `ImplementsFifo`
is about the time before the first fault, and what two writers, retries and cut
reads can do after one is the matter of `WholeOnceInOrder`.

### Codecs and FrameExchange

An address is a sequence of tokens, of which `:` and `|` are delimiters and a
digit is itself; names may hold both. `Modulus` stands for the 65536 of the
16-bit header fields. `FrameExchange` has a place for each hand-over of a
frame's data: fragments in `outbox`, wire messages, states of the fragment
buffer, jobs, the three files a decode works with in `disk`, replies, and the
entry of `inflight` a reply is matched with. What `draco_decoder` yields is a
function of the file it reads, or a failure. `about` on a reply is history: the
frame whose job made it. `inflight` is a set: the dictionary's order would only
decide between two frames of one name, and frames have names of their own. The
recorder calls its files `<prefix>_<number>.ply` (`io/bag_recorder.py:126`), which is
also why no frame bears the name of an answer (`FramesAssumption`).

### OfflineCapture and OfflinePipeline

`stage` is where `main` is. `bag` is the player as `main` and the pipes see it:
a player that prints (`chatty`) fills a pipe of `PipeSlots` lines that nobody
reads and is then `Blocked`. `saver.at` is the recorder's place: it closes its
output (`closed`) before its process has ended (`dead`), which is the difference
between `stream_end` and `proc_end`. `saver.status` is its exit status, with
"signal" for what Python makes of a KeyboardInterrupt and for SIGKILL; `own` is
history: the saver ended or was ending before anybody signalled it. `queue` is
`line_queue`; only the lines the loop looks for are told apart. `overdue` says
that the deadline has passed.

A file is `None`, `Cut`, or the cloud it holds: the run that saved it and
whether it is whole. A `.drc` holds the cloud of the PLY file it was made from, a
decoded file that of its `.drc`, a row of the quality CSV the two clouds that
were compared. Indices up to `LastIndex` have files; later frames are counted
only. Each pool works at the files of `todo` in any order; a file is worked at by
one worker, so its work is one step and an interrupt leaves any set of them cut.
`cycle` is the table of times: the columns that have a value, for each name.

Assumed of what is outside: a player that can play delivers a cloud at least every
two seconds and a save takes less than that (so the idle timer fires only when
nothing more comes), a process that got SIGKILL writes nothing more, a
`draco_encoder` that outlives an interrupted run ends before the next run encodes,
and two runs start in different seconds, which gives their logs different names.

## 3. The runs

| Run | Question | Instance | Size |
|---|---|---|---|
| `control_plane` | are the books of one session right in every order of calls? | 2 sequences, timeouts 1 and 2, 6 ticks | 31 067 states |
| `server_pipeline` | does a session keep its promises in every interleaving? | 2 workers, 3 frames, queues of 2 | 50 182 |
| `client_pipeline` | are books, window, order of playback, termination and report right under every fault? | 1 worker, 3 frames, queues and window of 1, 2 strikes | 5 213 826 |
| `client_clean` | does a client deliver everything and send EOF last, and does a stop end it? | 2 workers, 2 frames, window 1 to 2, unreadable replies, failing publications, early EOF | 295 670 |
| `ack_deadlines` | is the heap exact under lazy deletion? | 2 sequences, times 0 to 2, 4 pushes | 65 334 |
| `fragment_buffer` | are memory, delivery and collection right? | 2 frames of 2 small fragments, 1 of 3 large ones, 3 units, 1 duplicate | 114 737 |
| `frame_supply` | is every frame supplied once and every segment freed? | 2 frames, 3 watchers, both transports, queue of 1, 1 handle held, 1 torn line, 2 failed unlinks | 156 245 |
| `frame_stream` | is the framing a FIFO up to the first fault, and harmless after it? | 2 writers, 3 messages, both framings, 1 failed write, 1 cut read | 769 683 |
| `frame_exchange` | is a frame's data never taken for another's? | 3 frames, 2 workers, 16-bit fields cut to modulus 4, every framing, version and server, 1 failed decode | 140 848 |
| `offline_pipeline` | are verdict and results those of this run, whatever the last one left, and does it end? | 2 runs, 2 files, 2 clouds, 4 command lines, pipe and line queue of 1 | 1 149 022 |
| `server_session_ends` | does `handle_connection` always end? (violated) | 2 workers, 1 frame, queues of 1 | |
| `server_two_writers` | do two writers on one socket keep messages whole? (violated) | as `frame_stream`, without faults | |

Why the bounds are enough for the cases that matter:

* two workers are the fewest with which one can leave while the other still
  works, overtake it, or send its sentinel first; three frames against queues
  of two slots make each server queue fill while both workers hold a frame;
* client queues of one slot and a window of one make every `put` and the window
  wait. In `client_pipeline` three frames are the fewest of which one can be missing
  and two be held back, so that their flush can fail between them, and they are
  more than the window holds with one on its way. In `client_clean` two workers are
  the fewest with which a frame or a sentinel overtakes a frame, and the window
  changes between one and two;
* two strikes are one that is forgiven or re-armed and one that is the last;
* in the control plane six ticks see a frame reported twice with either timeout;
* the heap needs an entry that is stale behind another: four pushes of two
  sequences give every sequence stale and duplicate entries;
* the fragment buffer holds one small frame and a half: a fragment evicts one
  frame or two, and the large frame can push itself out;
* the three watchers are one per source of names (inotify, polling), one with a
  window smaller than the spool and one whose history is too short for it. Two
  files make the second event overlap the first file's consumption; a queue of
  one slot and one handle held make `put` wait. Two failed unlinks are one in
  `publish` and one in the janitor;
* one ACK retried beside a reply is what two writers can spoil; the second ACK
  and the reply say what becomes of the messages after a fault. One failed write
  and one cut read meet in every order; garbage lengths of up to two cells let a
  reader that lost its place take less than a message or more;
* the three frames are one of a single unit, one whose fragments fit the header
  and one whose fragments of one unit do not; their names hold both delimiters;
* two offline runs are what one run can leave to another. The second may save
  fewer files than the first, or more. A pipe of one line blocks the player with
  clouds left, a line queue of one keeps the saver's last lines back while `main`
  looks at its process. The command lines switch on each option that changes
  control: limit of frames, timeout, loop, reuse, analysis, kept files, no bag.

Properties, by run:

* `control_plane`: `LateAckAccepted` (pending is what was sent and not
  acknowledged), `TerminatedMeansAllAcked`, `DrainCompletes`,
  `StrikesArePaced` (an overdue ACK is reported at most once per timeout).
* `server_pipeline`: `NoAckedFrameLost`, `DecodeQueueBalanced` and
  `SendQueueBalanced` (`task_done()` is called exactly once for each item, so
  `join()` means what it says), `ImplementsService` (the refinement of
  `FrameService`), `OrderlyEnd` (without a stop the bounded queues and the
  sentinels cannot deadlock).
* `client_pipeline`: `AcksAreTracked`, `WindowObserved`, `OnlyEarlyAcksLinger`,
  `TerminatedIsClean`, `ReportHonest`, `PublishedInOrder` (in increasing order and
  each once; a second time only after a stop, when a flush that was interrupted is
  repeated).
* `client_clean`: `EofMeansAllAnswered`; `CleanRunDelivers` (EOF is sent, the run
  ends, and every frame is published whose reply could be read, unless a reply
  overtook its registration, the server left early or a publication raised);
  `StopEndsExchange` (a stop ends the sender and the consumer, unless the sender is
  stuck with the lock in its hands).
* `ack_deadlines`: `Covered`, `PopsExactly`, `PushReportsChange`, `CallsReturn`.
* `fragment_buffer`: `MemoryBounded`, `NoSilentLoss`, `AssembliesLeave`.
* `frame_supply`: `InPipelineOnce` (no two handles of one name are in the
  pipeline at once), `EndMeansSupplied`, `OrphansBounded` (a segment without an
  owner costs a torn line), `LostOnlyAfterExit`, `CaptureEnds`.
* `frame_stream`: `WholeOnceInOrder` (after a fault too, what is delivered is
  whole, once, and in the order of its writer), `ImplementsFifo`, `AllArrive`.
* `frame_exchange`: `JobsExact`, `AnswersMatch`, `PublishedExact`.
* `offline_pipeline`: `CutIsNotSuccess` (a run whose saver was ended by the
  pipeline does not reach the encoder and does not succeed), `EncodedIsCurrent` (after a success every PLY file has its
  `.drc`, which without `--reuse-drc` holds what the PLY file holds now),
  `CycleIsOfThisRun` (a full row of the table of times is one frame of this run),
  `RunEnds`.

### Fairness

Weak fairness of each task: the event loop runs every ready task, and threads
return (`recv` and `send` within the socket timeout, a decode within
`decode_timeout`). The server in `ClientPipeline` reads, answers and ends; it
owes nobody a heartbeat, and a heartbeat keeps no run going; that it leaves early is a
fault and never fair (`OrderlyServe`). In `AckDeadlines`
only the turns of a call under way are fair; nobody has to call. In
`FragmentBuffer` time passes and the GC task, which sleeps a fixed interval,
comes again. In `FrameSupply` the watcher's thread, the receiver and the janitor,
`capture_stage`, the monitor and whoever consumes a handle are fair; the recorder
need not get a frame, nor end. In `FrameStream` the reader reads what has been
written and the writers go on. In `OfflinePipeline` every process goes on and the
deadline passes; nothing fails, interrupts or obeys a signal because it must, so
`RunEnds` rests on SIGKILL. Strong fairness is assumed nowhere.

### What the violated runs show

* `server_session_ends` (`nodes/stream_server.py:1243`): once `stop_event` is set the
  workers leave without waiting for a sentinel, an idle one by `QueueStopped` and
  `_drain_queue` (897 to 899), one that was decoding at its loop test (894).
  `handle_connection` puts the sentinels only afterwards. Nobody takes them, so
  `put()` or `join()` waits for ever. The trace has no frame: two idle workers are
  enough. A repair has to cover both ways of leaving.
* `server_two_writers` (`nodes/stream_server.py:787`): `_recv_loop` and
  `_send_loop` write on one socket from two threads, and a message is more than
  one call of `sendall`. In the trace the first cell of a reply falls into the
  header of an ACK; an ACK inside a reply is the same defect.

### What the models know and no run states as a property

The modules reproduce these, and the properties are worded around them:

* The server never sends its EOF: `_send_loop` asks for a transition to DRAINING
  from a lifecycle that has ended, and the function that would send it,
  `_send_control_message`, does not exist (`nodes/stream_server.py:1104`). An
  orderly session ends by closing the connection (`FrameService.Close`).
* The window counts frames awaiting an ACK (`nodes/stream_client.py:1122`), where
  the option's help (`:2200`) also speaks of replies.
* A frame is registered after it was sent; an ACK consumed before that is
  discarded and its slot stays taken until the reply (`:1203`).
* `tests/unit/test_fragment_buffer.py:61` expects an evicting frame to stay in
  the buffer; one that is whole is returned by the same call.
* The number of fragments in a binary header is cut to 16 bits
  (`protocol/header.py:132`), after a validation that does not look at its upper
  bound. `JobsExact` is about frames whose number of fragments fits.
* A reply of the legacy server carries no response header, and in binary it
  carries sequence 0, which the client matches with frame 0. It decodes each
  fragment as if it were a frame. `AnswersMatch` leaves that combination out.
  `--legacy-mode` always runs `run_server_legacy`, so the branch for old headers
  in `_recv_loop` (`nodes/stream_server.py:768`) is not reached.
* The reassembly of fragmented replies in the client
  (`nodes/stream_client.py:1778`) is never reached: the server sends whole ones.
* The inotify mask contains CREATE beside CLOSE_WRITE, so a file can be supplied
  while it is being written, against the comment above it (`:1943`). It can also
  be supplied a second time in the race between `_remember` and
  `mark_consumed`, after the first handle was consumed; `InPipelineOnce` says
  that it is never there twice at once.
* A saver that fails by itself ends the capture with `proc_end` or `stream_end`,
  which counts as a success (`draco_tools/offline_pipeline.py:405`): the frames
  it saved go on to the encoder, the last one perhaps cut. So does a saver that
  idles out, with status 0, between the deadline and the signal meant for it.
* The sentinels of `capture_stage` are put without looking at `stop_event`
  (`nodes/stream_client.py:206`): with a full `capture_queue` and workers that
  have left, a client that was stopped waits there for ever.
* A sender that finds the server silent while it waits for a slot or for the last
  replies asks for the lock it holds (`nodes/stream_client.py:1046`) and waits for
  ever, and the consumer after it. `StopEndsExchange` excepts this state, and
  `client_clean` leaves a silent server out.
* A frame that the final flush had published is published again when that flush is
  interrupted (`nodes/stream_client.py:1381`); `PublishedInOrder` says that this is
  the only way.
* An acknowledged frame may be given up when a stop comes between its ACK and the
  `put` into the decode queue (`nodes/stream_server.py:854`). `NoAckedFrameLost` is
  stated without a stop, and a stop breaks the promise of `FrameService`.
* `_send_loop` can die in `on_error` with a result in its hands
  (`nodes/stream_server.py:1020`), for which `task_done()` is then never called.
  `SendQueueBalanced` counts that result as held; what follows from it is the hang
  of `SessionEnds`.
* The deadline of an offline run is compared only when no line came for 0.2
  seconds (`draco_tools/offline_pipeline.py:359`), where the help of `--timeout`
  (`:231`) speaks of a global timeout. A saver that saves five frames a second or
  more is never cut off.
* The player writes to a pipe nobody reads (`draco_tools/offline_pipeline.py:309`).
  When it is full the player stops, the saver idles out, and the run goes on as
  after the end of the bag.
* The status of the decoder is not looked at
  (`draco_tools/analysis/analyze_draco_quality.py:327`). A decoded file of an
  earlier run, kept by `--keep-decoded`, is measured in the place of one that could
  not be made.
* A run that saved nothing succeeds: an empty list is no failure of the encoder,
  and an analysis without a pair ends well.
* Nobody empties the directories. The PLY files of an earlier, longer run are
  encoded and analysed again with those of this one; their rows in the table of
  times lack the time of saving. With `--reuse-drc` a `.drc` is kept whatever it
  holds, a cut one included; `EncodedIsCurrent` promises nothing about those.

## 4. The proofs

The theorems hold for all values of the constants, under the ASSUMEs of the
module they extend: timeouts are positive naturals, sequence numbers a finite set
of integers, workers a finite and not empty set, queues and windows have at least
one slot, a frame in fragments has at least two, sentinels are no items, and the
bounds that cap histories and faults are naturals.

`ControlPlane_proofs` proves `TypeOK`, the four properties of the
`control_plane` run, and `TerminalIsFinal` (no method leaves TERMINATED or
FAILED). The invariant `IInv` adds to them
* `SessionInv`: only sent frames are acknowledged (or a frame could be re-sent
  after its ACK), the peer's EOF keeps the session out of STREAMING (without
  this, a drain need not complete), and TERMINATED leaves nothing pending;
* `StrikeInv`: a sequence that was reported has its deadline one timeout after
  the report, which is what paces the next report.

The session half (`SessionStep`) and the clock half (`ClockStep`) are proved
apart, one case per action; `DrainedFacts` says what reaching TERMINATED costs.

The last part of `FrameExchange_proofs` proves the three safety properties of the
`ack_deadlines` run and `TypeOK` of `AckDeadlines`. `Covered` (every live deadline
has an entry) is inductive with `CallInv`, which says how far the call under way has
brought the dictionary.
`TopIsEarliest` turns it into the statement that the top entry, once not stale,
is the earliest live deadline; `EarliestIsUnique` then gives the two exactness
theorems.

`ServerPipeline_proofs` proves `TypeOK`, `QueuesBounded`, `DecodeQueueBalanced`
and `SendQueueBalanced`. The invariant `TypeInv` adds to them that a worker holds
a frame exactly in the states in which it still owes the decode queue a
`task_done()`, and that the sender holds an item while it sends and none while
it waits. There is one lemma per task; `JobDoneTyped`, `AbortTyped` and
`EnqueueResultTyped` are the ways in which several actions change a queue.

Its second part proves `NoAckedFrameLost` and the refinement of
`FrameService`. Its invariant has four parts beside `TypeInv`:
* `DistinctInv` and `ApartInv`: a frame is in one place, which is either the
  receive loop's `put`, the decode queue, a worker, the send queue, the sender or
  the set of answered frames. So it is answered at most once.
* `AckedInv`: what is somewhere was acknowledged and, without a stop, what was
  acknowledged is somewhere; the job whose ACK is going out is new.
* `PhaseInv`: the sentinels are put after the receive loop ended, behind every
  frame, so that a worker which left without a stop proves the decode queue to
  hold no frame.
* `CountInv`: without a stop the sentinels counted in `finished` and those in
  the send queue are as many as the workers that left, and once all have left
  the last item of the send queue is a sentinel.

`DrainedComplete` puts the last three together: when the sender counts the last
sentinel without a stop, nothing is left in any place, so all that was
acknowledged has been answered, which is what `Close` of `FrameService` asks.
The count is needed because, with several workers, the sentinel of one may
precede a result of another in the send queue.

`FragmentBuffer_proofs` proves `NoSilentLoss` and `WholeFramesLeave`, for any
number and sizes of frames. The invariant adds that what is held has come and
that no complete assembly is held. Which frames an `add` evicts does not matter
for either, so `Evicted` is not opened for them.

It is for `MemoryBounded` and `TypeOK` (`MemoryInv`). `older` is a strict total
order of the frames held (`Orders`), which every renewal and every drop keep.
`EvictionIsEnough` looks at the oldest frame that an eviction spares: all those
before it are evicted, and it was spared because they were enough. That there is an
oldest one is the well-foundedness of strict inclusion on finite sets. `BytesAdd`
splits what is held into disjoint parts, which stands for the induction over
frames that a sum would need; `DropFits` then serves `add` and `gc` alike.

`ClientPipeline_proofs` proves `WindowObserved` and `PublishedInOrder`. Three
invariants carry them: `FrameInv` (only frames travel from the capture to
`inflight`), `WindowInv` (`QuietStep` is the lemma for the steps that add nothing
to the set that awaits ACKs) and `OrderInv`, which has three parts beside the
property. `HoldInv`: nothing held back is below `next_sequence`, and what the flush
under way has published is still held. `ShownInv`: every other published frame is
below all that is held back, and those of the flush are below the rest of it; frames
replayed are compared only with what came after their flush had failed.
`PhaseInv`: while replies are served all that was published is below
`next_sequence`; a flush can be interrupted once, with the stop set, because the
`except` block that repeats it is not entered again. The flush is why
`next_sequence` alone does not do: it publishes from the buffer without looking at
it.

The second part of the module proves `AcksAreTracked`, `OnlyEarlyAcksLinger`,
`AckNeverRefused` and `ReportHonest`:
* `PlaceInv`: from the capture to the registration a frame is in one place, and
  in none after it was sent;
* `OnceInv`: the server acknowledges a frame once, so its ACK is still to come
  (the frame is on the wire), queued for the consumer, or consumed, and never
  precedes the sending;
* `BooksInv`: ControlPlane holds every frame from the moment `on_frame_sent`
  admitted it until its ACK is consumed, and an ACK consumed before its frame
  was registered is an early one;
* `ReportInv`: a report is written once, when every task has ended.

The last part proves `EofMeansAllAnswered` and `TerminatedIsClean`:
* `SentinelInv` counts: the sentinels the sender has taken and those in the
  network queue are at most as many as the workers that left, so the sender that
  counted one for each worker knows that all have left; without a stop they left
  behind an empty capture queue, and the last item is then a sentinel;
* `FlowInv`: without a stop every frame captured is in a queue, in the hands of a
  task, or sent;
* `AnswerInv`: a frame is answered once, behind its ACK in the reply queue, and
  without a stop stays in flight until the answer is consumed (`AnswerBooks`). A
  consumer that is blocked has taken an event that is in no book; it stays so, and
  the sender stuck;
* `ClosingInv`: from the end of the drain on nothing is anywhere (`Quiet`).
  `DrainedIsQuiet` is the lemma that puts the other three together;
* `StateInv`: the control session drains only after MSG_EOF or when replies are
  served no more, and is TERMINATED with no ACK pending.

`TypeOK` closes the module. Its parts come from the invariants above, and two more:
`TaskTypes` for the places of the tasks, and `ValueTypes`, which adds that a consumer
that still serves has a strike left. That the counts in the report are numbers needs
the sets it counts to be finite sets of frames (`ReportTyped`).

`FrameSupply_proofs` proves the four safety properties of the `frame_supply` run.
The two transports have an invariant each.

`ChannelInv`, for shared memory. Until the recorder has exited a segment has one
owner at a time (`OneOwner`: the publisher, the janitor, the wire, the receiver's
queue, the batch, the capture queue, a worker), a copied one has none, and what is
owned and not with the janitor is live (`OwnedIsLive`). Only an owner unlinks, so
the worker that asks for the points of its frame finds them:
`LostOnlyAfterExit`. `EmptyHanded` is needed because `get_batch` would otherwise
overwrite a batch. There is one lemma for each hand-over. `OrphanInv` counts: the
live segments without an owner, and one more while a torn line is at the end of the
wire, are at most as many as the lines that were torn, so the one line that a torn
line spoils uses it up; this gives `OrphansBounded`. `NameInv` says that a name is
given to one segment only.

`SpoolInv`, for files, under the watcher's thread and the event loop in every
order:
* `Remembered`: without a stop, what the watcher remembers as known or retired is
  `Accounted` for: it is in the result being built, in the batch, or was supplied;
  and so is what it has seen, unless it is still to be looked at in this scan. At
  the end of the capture only what was supplied is left, which is
  `EndMeansSupplied`;
* `OneHandle`: without a window, a handle not yet consumed is of a known name, and
  is in one place. A known name is not returned again, and `mark_consumed` takes
  the name out only when the handle has left; this gives `InPipelineOnce`;
* `CallFlow`: what a call holds in each of its places.
`SortedLists` says that `sorted()` returns the names it was given: the ranks are a
permutation of the positions (`EachRankOnce`).

`TypeOK` is kept by its three parts together: the call of the watcher holds lists of
files, and one that is remembering has a name left (`SpoolTypes`); the recorder's index
is a number, for it becomes the name in a descriptor (`ChannelTypesKept`); and what
either transport returns is a batch of files (`ReceivedTyped`, in `SupplyTypes`).

`FrameStream_proofs` proves `WholeOnceInOrder` and the refinement of `MessageFifo`
(`ImplementsFifo`), for any number of writers, any scripts of messages and any
bounds on faults. Both speak of `Bytes`, the cells the reader has taken of the
message it is in and the cells still in transit.

After a fault the stream is only known by what each writer put on it (`OrderInv`):
the cells of one writer stand in the order of its messages (`Ascending`); behind a
whole message of a writer come only later ones of that writer (`AfterWhole`: a
message that was written whole is not retried); the message being written is on
the stream only as far as it was written in this attempt (`Partial`; a torn cell is
the last cell of no message); and what was
delivered is older than all that is left (`Past`). A reader that takes garbage for
a length returns something `Corrupt` or cells that are a whole message; the latter
is what `Occurs` and `AfterWhole` speak of.

Until a fault the stream is exactly the messages completed and not yet delivered,
one behind the other, and the beginning of at most one more (`FifoInv`). `Laid`
states it with a function of positions, whose existence is part of the invariant,
so that no concatenation over a sequence is computed; `ReaderFits` says that the
reader then waits for exactly what is left of the message it is in. Each step maps
to a step of `MessageFifo` or to none.

`FrameExchange_proofs` proves the three properties of the `frame_exchange` run, for
any sizes, timestamps, fragment sizes, field widths and names that keep the
assumption above, any number of workers, and up to ten frames (a number in an
address is one digit). It has two layers.

What is encoded comes back. `AddressReturns` is the round trip of an address,
whatever delimiters the name holds; `TextReturns`, `BinaryReturns` and
`DataReturns` that of a message; `ResponseReturns` that of a response. `FlattenSeq`
is a recursive function, so `PiecesJoin` (the first n fragments of a payload join
to its beginning) is proved by well-foundedness, from the least place at which the
function and the beginnings would differ. From these, `Made(f)` is the one job that
frame f can become: the whole frame, unless its number of fragments was cut to the
width of its field (`MadeFacts`).

What is anywhere is about one frame. The invariant has these parts:
* `SenderInv` and `WireInv`: the wire holds exactly the messages between the place
  of the server and that of the sender, each place being a frame and a fragment.
  `Heard` says what the server then holds: as long as it reads, `partial` has the
  fragments sent so far of the frame under way and nothing else, and the jobs are
  of the frames before it. `RecvDataIs` is the step: one more chunk, or the job.
* `JobsDiffer`: a frame makes one job.
* `HoldInv`: what is queued, in the hands of a worker or on its way down is about
  a job `Made(f)`, and each file holds what its name says (`FilesHold`). Frames do
  not share files (`FileNames`), so a worker reads back what it wrote, whatever the
  others do in between.
`PipelineAnswer` and `LegacyAnswer` say what the client reads of each message on
its way down: its frame in the sequence, and a name that no other frame bears
(`Tells`), which is what `CandidateIs` needs for the fallback from sequence to name.
The strengthened invariant was checked with TLC on the instance of the run before
it was proved.

`OfflinePipeline_proofs` proves `TypeOK`, `ChildrenGone`, `CutIsNotSuccess`,
`EncodedIsCurrent` and `CycleIsOfThisRun` for any number of runs.
* `ChildInv`: from the stage that stops the saver on the player is gone, and after
  it the saver is.
* `OwnInv` carries `own` along the way of the verdict: a line other than "saved",
  in the pipe, in the queue or already in `reason`, and status 0, come only from a
  saver that ended by itself. While `main` watches nobody has signalled the saver,
  so that an end seen there is its own.
* `FilesInv`: what is in the saver's log was saved in this run below the next
  index and is whole (`LogInv`); during the encoding every file is in `todo`,
  encoded, or a failure has been counted, and what is in the encoder's log is
  never touched again (`EncodeInv`); rows and full columns are of files that are
  there (`RowInv`). `ChildInv` is what keeps the saver from writing meanwhile.
One lemma per process says what its steps leave alone (`OthersLeaveFiles`,
`LaterOnlyMoves`, `SaverEnds`).

Proved, and in no run: `TypeOK` of `ControlPlane`, `AckDeadlines`,
`ServerPipeline`, `ClientPipeline`, `FragmentBuffer`, `FrameSupply` and
`OfflinePipeline`, `TerminalIsFinal`, `QueuesBounded`, `AckNeverRefused`,
`WholeFramesLeave` and `ChildrenGone`.

Only model-checked is liveness (`OrderlyEnd`, `CleanRunDelivers`,
`StopEndsExchange`, `CallsReturn`, `AssembliesLeave`, `CaptureEnds`, `AllArrive`,
`RunEnds`), which this prover does
not reach. Every safety property of a passing run has a theorem.

## 5. Not modelled

* Time is a counter in `ControlPlane` and `AckDeadlines`; elsewhere a timeout may
  come whenever it is armed. The lengths of the heartbeat intervals (2 s, 6 s,
  socket timeout 30 s) are therefore not compared.
* Client and server in one model with both their controls: the product of
  `ClientPipeline` and `ServerPipeline` is out of TLC's reach. Each is checked
  against an environment that does whatever the other may; `FrameExchange`
  composes both with the data and less of the control.
* The accept loop: `run_server` and `run_server_legacy` accept one connection,
  serve it and end.
* Decoding, encoding, PLY files, quality metrics, percentiles and rates of the
  telemetry documents, rotation of output files, configuration defaults: data.
* Of the offline pipeline: a second Ctrl-C while `main` stops its children, which
  leaves them running, and the death of `main` itself; the search for `draco_encoder`
  and `draco_decoder`, of which only the failure matters; `--limit` and the other
  options of the analysis that the pipeline does not pass on.
* The ROS side (`ros/`, launch files, `slam_stream_bridge`), the rest of
  `draco_tools`, `tools/`, `scripts/docsync`, command-line shims: external processes and
  offline helpers beside the streaming system.

## 6. What would come next

1. A client and a server with real control on both ends, with one worker and one
   frame each, and what of `FrameExchange` survives a server that stops in the
   middle of a session.
2. A type invariant for `FrameStream` and `FrameExchange` as a definition of its own
   (the invariants of their proofs contain what those use of the types).
