------------------------ MODULE SharedMemoryChannel ------------------------
(***************************************************************************)
(* shared_memory/channel.py: a publisher in the recorder process puts each *)
(* cloud in a segment of its own and announces it with one line of JSON    *)
(* over TCP; a receiver thread in the client turns the lines into          *)
(* descriptors; a janitor thread retries the unlinks that failed.          *)
(*                                                                         *)
(* A segment is named by the number of its cloud (the code draws a uuid    *)
(* for each).  A line is [segment, stem, clean]: clean is FALSE when the   *)
(* line follows the torn beginning of another one, which makes it no JSON. *)
(* FrameSupply composes these actions with the recorder's callback and     *)
(* with the client's capture task.                                         *)
(***************************************************************************)
EXTENDS Naturals, Sequences, FiniteSets, FiniteSetsExt, SequencesExt

CONSTANTS
  Segments,         \* the clouds the recorder may get, numbered
  MaxTorn,          \* bound on the lines a timeout cuts
  MaxUnlinkFaults,  \* bound on the unlinks that fail
  NoSegment         \* none of them

ASSUME SegmentsAssumption ==
  IsFiniteSet(Segments) /\ Segments \subseteq Nat /\ NoSegment \notin Segments
ASSUME FaultsAssumption == MaxTorn \in Nat /\ MaxUnlinkFaults \in Nat

VARIABLES
  segment,     \* each segment is unmade, live or gone
  publishing,  \* the segment whose line publish() is about to send
  connected,   \* the publisher's _sock is not None
  closing,     \* the publisher was closed: no janitor, no line any more
  torn,        \* the stream ends in the beginning of a line
  wire,        \* the lines sent and not yet read
  receiver,    \* the receiver thread: accept, read or ended
  inbox,       \* its queue of descriptors
  dangling,    \* the janitor's queue
  faults       \* history: how many lines were torn and unlinks failed

channelVars ==
  <<segment, publishing, connected, closing, torn, wire, receiver, inbox, dangling, faults>>

Lines == [segment : Segments, stem : Nat, clean : BOOLEAN]
Descriptors == [segment : Segments, stem : Nat]
Live == {s \in Segments : segment[s] = "live"}

ChannelInit ==
  /\ segment = [s \in Segments |-> "unmade"] /\ publishing = NoSegment
  /\ connected = FALSE /\ closing = FALSE /\ torn = FALSE
  /\ wire = <<>> /\ receiver = "accept" /\ inbox = <<>>
  /\ dangling = <<>> /\ faults = [torn |-> 0, unlink |-> 0]

-----------------------------------------------------------------------------
(* publish(), first part: the segment is made and filled. *)
MakeSegment(s) ==
  /\ publishing = NoSegment /\ segment[s] = "unmade"
  /\ segment' = [segment EXCEPT ![s] = "live"]
  /\ publishing' = s
  /\ UNCHANGED <<connected, closing, torn, wire, receiver, inbox, dangling, faults>>

(* create_connection succeeds while the receiver listens; an open socket     *)
(* takes data for a while after the receiver has gone.                       *)
CanSend == connected \/ receiver # "ended"

(* sendall succeeds: publish() keeps the segment for the reader.  Mutant:    *)
(* the segment is unlinked all the same.                                     *)
KeptNever(s) == [segment EXCEPT ![s] = "gone"]
Kept(s) == segment

SendLine(stem) ==
  /\ publishing # NoSegment /\ CanSend
  /\ connected' = TRUE
  /\ wire' = Append(wire, [segment |-> publishing, stem |-> stem, clean |-> ~torn])
  /\ torn' = FALSE
  /\ segment' = Kept(publishing)
  /\ publishing' = NoSegment
  /\ UNCHANGED <<closing, receiver, inbox, dangling, faults>>

(* The unlink of s succeeds or, when it fails, the janitor's queue becomes q. *)
TryUnlink(s, q, cut) ==
  \/ /\ segment' = [segment EXCEPT ![s] = "gone"]
     /\ faults' = [faults EXCEPT !.torn = @ + cut]
     /\ UNCHANGED dangling
  \/ /\ faults.unlink < MaxUnlinkFaults
     /\ faults' = [torn |-> faults.torn + cut, unlink |-> faults.unlink + 1]
     /\ dangling' = q
     /\ UNCHANGED segment

(* publish() raises: its finally block unlinks the segment or queues it for  *)
(* the janitor.  Mutant: the segment stays.                                  *)
LeaveSegment(s, cut) ==
  faults' = [faults EXCEPT !.torn = @ + cut] /\ UNCHANGED <<segment, dangling>>
ScheduleUnlink(s, cut) == TryUnlink(s, Append(dangling, s), cut)

(* The connection is refused or broken.  BrokenPipeError drops the socket,   *)
(* any other OSError keeps it.                                               *)
RefuseLine ==
  /\ publishing # NoSegment /\ receiver = "ended"
  /\ connected' \in {FALSE, connected}
  /\ ScheduleUnlink(publishing, 0)
  /\ publishing' = NoSegment
  /\ UNCHANGED <<closing, torn, wire, receiver, inbox>>

(* sendall times out after a part of the line: the socket is kept, and the   *)
(* next line follows the part.                                               *)
TearLine ==
  /\ publishing # NoSegment /\ CanSend
  /\ faults.torn < MaxTorn
  /\ torn' = TRUE /\ connected' = TRUE
  /\ ScheduleUnlink(publishing, 1)
  /\ publishing' = NoSegment
  /\ UNCHANGED <<closing, wire, receiver, inbox>>

(* One turn of the janitor: what it cannot unlink goes back into the queue.  *)
Requeued(q) == Append(Tail(q), Head(q))

JanitorTurn ==
  /\ dangling # <<>> /\ ~closing
  /\ \/ /\ segment' = [segment EXCEPT ![Head(dangling)] = "gone"]
        /\ dangling' = Tail(dangling)
        /\ UNCHANGED faults
     \/ /\ faults.unlink < MaxUnlinkFaults
        /\ faults' = [faults EXCEPT !.unlink = @ + 1]
        /\ dangling' = Requeued(dangling)
        /\ UNCHANGED segment
  /\ UNCHANGED <<publishing, connected, closing, torn, wire, receiver, inbox>>

(* close(): the socket is shut down and the janitor stopped. *)
ClosePublisher ==
  /\ publishing = NoSegment /\ ~closing
  /\ closing' = TRUE /\ connected' = FALSE
  /\ UNCHANGED <<segment, publishing, torn, wire, receiver, inbox, dangling, faults>>

(* The resource tracker of the recorder's interpreter outlives it by a step  *)
(* and unlinks every segment the recorder made and did not unlink itself.    *)
TrackerUnlinks ==
  /\ Live # {}
  /\ segment' = [s \in Segments |-> IF s \in Live THEN "gone" ELSE segment[s]]
  /\ UNCHANGED <<publishing, connected, closing, torn, wire, receiver, inbox, dangling, faults>>

-----------------------------------------------------------------------------
(* _run of the receiver: one connection is accepted and read to its end.     *)
Accept ==
  /\ receiver = "accept" /\ (wire # <<>> \/ torn)
  /\ receiver' = "read"
  /\ UNCHANGED <<segment, publishing, connected, closing, torn, wire, inbox, dangling, faults>>

(* A line is parsed and queued; one that is no JSON is skipped.              *)
ReadLine ==
  /\ receiver = "read" /\ wire # <<>>
  /\ wire' = Tail(wire)
  /\ inbox' = IF Head(wire).clean
              THEN Append(inbox, [segment |-> Head(wire).segment, stem |-> Head(wire).stem])
              ELSE inbox
  /\ UNCHANGED <<segment, publishing, connected, closing, torn, receiver, dangling, faults>>

(* recv returns nothing: the publisher closed. *)
EndOfStream ==
  /\ receiver = "read" /\ wire = <<>> /\ closing
  /\ receiver' = "ended"
  /\ UNCHANGED <<segment, publishing, connected, closing, torn, wire, inbox, dangling, faults>>

(* stop(): the thread leaves accept or its loop. *)
StopReceiver ==
  /\ receiver # "ended"
  /\ receiver' = "ended"
  /\ UNCHANGED <<segment, publishing, connected, closing, torn, wire, inbox, dangling, faults>>

(* get_batch, as its caller sees it: all there is. *)
TakeInbox ==
  /\ inbox' = <<>>
  /\ UNCHANGED <<segment, publishing, connected, closing, torn, wire, receiver, dangling, faults>>

(* _materialize_points copies the cloud and unlinks its segment.             *)
Unlink(s) ==
  /\ segment' = [segment EXCEPT ![s] = "gone"]
  /\ UNCHANGED <<publishing, connected, closing, torn, wire, receiver, inbox, dangling, faults>>

ChannelTypeOK ==
  /\ segment \in [Segments -> {"unmade", "live", "gone"}]
  /\ publishing \in Segments \union {NoSegment}
  /\ connected \in BOOLEAN /\ closing \in BOOLEAN /\ torn \in BOOLEAN
  /\ wire \in Seq(Lines) /\ receiver \in {"accept", "read", "ended"}
  /\ inbox \in Seq(Descriptors) /\ dangling \in Seq(Segments)
  /\ faults \in [torn : 0..MaxTorn, unlink : 0..MaxUnlinkFaults]
=============================================================================
