--------------------------- MODULE FrameExchange ---------------------------
(***************************************************************************)
(* What becomes of a frame's data between the encoder of the client and    *)
(* what the client publishes: fragments, framing, reassembly, the decode   *)
(* job, the files of draco_decoder, the reply, and the frame in flight it  *)
(* is matched with.  On the other side is handle_connection of             *)
(* nodes/stream_server.py or, with --legacy-mode, run_server_legacy.       *)
(*                                                                         *)
(* The wires keep messages whole and in order (FrameStream says when);     *)
(* queues are unbounded, no fragment is evicted, and a session that fails  *)
(* stops (ServerPipeline, FragmentBuffer and ClientPipeline say how).  A   *)
(* message on the way down carries, as history, the frame it is about.     *)
(***************************************************************************)
EXTENDS Codecs

CONSTANTS
  Count,          \* the number of frames
  Name,           \* Name[f]: name of the handle of frame f
  Size,           \* Size[f]: the units of its payload
  Stamp,          \* Stamp[f]: its timestamp_ns
  Workers,        \* the decode workers of the server
  Settings,       \* [format, header, handler, size]: --protocol, the version
                  \*   the client writes, --legacy-mode, --tx-fragment-size
  MaxDecodeFaults \* bound on the decoder runs that fail for no visible reason

Frames == 0..(Count - 1)

(* The recorder calls its files <prefix>_<number>.ply: no frame has the name *)
(* of another's answer.                                                      *)
ASSUME FramesAssumption ==
  /\ Count \in 1..10 /\ Size \in [Frames -> Nat \ {0}] /\ Stamp \in [Frames -> Nat]
  /\ \A f, g \in Frames : Name[f] = Name[g] => f = g
  /\ \A f \in Frames : /\ Name[f] \in Seq(STRING) \ {<<>>}
                       /\ Last(Name[f]) \notin {".decoded", ".decoded.ply"}
ASSUME SettingsAssumption ==
  /\ IsFiniteSet(Workers) /\ MaxDecodeFaults \in Nat
  /\ \A s \in Settings :
       /\ s.format \in {"text", "binary"} /\ s.handler \in {"pipeline", "legacy"}
       /\ s.size \in Nat /\ s.header \in {1, 2}

VARIABLES
  setting,     \* the command lines
  sender, outbox, next,  \* network_sender: place, messages left, frame
  inflight, acksPending, \* inflight and acks_pending
  failed, ended,         \* the client has seen an ERROR or the end of the
                         \*   connection, MSG_EOF
  up, down,    \* the wires
  serving,     \* the server's reader: open, draining, failed
  partial,     \* states of its fragment_buffer
  decodeQ, sendQ,        \* its queues
  work,        \* work[w]: the job of a decode worker and where it is
  disk,        \* the files of work_dir: name -> content
  faults,      \* history: how many decoder runs failed
  jobs,        \* history: the jobs made
  matches,     \* history: what was taken for an answer to which frame
  published    \* history: what was handed to playback

client == <<sender, outbox, next, inflight, acksPending, failed, ended>>
server == <<serving, partial, decodeQ, sendQ, work, disk, faults, jobs>>
results == <<matches, published>>
vars == <<setting, client, server, up, down, results>>

Binary == setting.format = "binary"
Payload(f) == [i \in 1..Size[f] |-> <<"drc", f, i>>]
Points(f) == <<<<"points", f>>>>
Metrics == <<<<"metrics">>>>
Idle == [at |-> "idle"]

Init ==
  /\ setting \in Settings
  /\ sender = "idle" /\ outbox = <<>> /\ next = 0
  /\ inflight = {} /\ acksPending = {} /\ failed = FALSE /\ ended = FALSE
  /\ up = <<>> /\ down = <<>>
  /\ serving = "open" /\ partial = <<>> /\ decodeQ = <<>> /\ sendQ = <<>>
  /\ work = [w \in Workers |-> Idle] /\ disk = <<>> /\ faults = 0 /\ jobs = <<>>
  /\ matches = {} /\ published = {}

ToWire(m) == IF Binary THEN ToBinary(m) ELSE ToText(m)
FromWire(bytes) == IF Binary THEN FromBinary(bytes) ELSE FromText(bytes)
SequenceOf(m, address) == IF m.sequence # None THEN m.sequence ELSE address.sequence
Eof == Message("eof", EncodeFrameAddress(None, <<"final">>, "control"), <<>>, None)

-----------------------------------------------------------------------------
(* network_sender: the messages of frame f. *)
Messages(f) ==
  LET fragments == IterFragments(Payload(f), IF Binary THEN setting.size ELSE 0)
      message(part) ==
        [kind |-> "data", name |-> EncodeFrameAddress(f, Name[f], "data"),
         payload |-> part.payload, sequence |-> f, fragmented |-> part.total > 1,
         index |-> part.index, total |-> part.total, length |-> part.length,
         stamp |-> Stamp[f], version |-> setting.header]
  IN  [i \in DOMAIN fragments |-> message(fragments[i])]

BeginFrame ==
  /\ sender = "idle" /\ next < Count /\ ~failed
  /\ sender' = "sending" /\ outbox' = Messages(next)
  /\ UNCHANGED <<setting, next, inflight, acksPending, failed, ended, server, up, down,
                 results>>

SendFragment ==
  /\ sender = "sending"
  /\ up' = Append(up, ToWire(Head(outbox)))
  /\ outbox' = Tail(outbox)
  /\ sender' = IF Tail(outbox) = <<>> THEN "sent" ELSE "sending"
  /\ UNCHANGED <<setting, next, inflight, acksPending, failed, ended, server, down,
                 results>>

(* After the last send has returned; an answer may have come before that. *)
Register ==
  /\ sender = "sent"
  /\ sender' = "idle" /\ next' = next + 1
  /\ inflight' = inflight \union {next}
  /\ acksPending' = acksPending \union {next}
  /\ UNCHANGED <<setting, outbox, failed, ended, server, up, down, results>>

SendEof ==
  /\ sender = "idle" /\ next = Count /\ ~failed
  /\ inflight = {} /\ acksPending = {}
  /\ sender' = "eof" /\ up' = Append(up, ToWire(Eof))
  /\ UNCHANGED <<setting, outbox, next, inflight, acksPending, failed, ended, server, down,
                 results>>

-----------------------------------------------------------------------------
(* The answers of the server; f is the frame they are about. *)
Answer(m, f) == [bytes |-> ToWire(m), about |-> f]
FrameOf(payload) == payload[1][2]

(* Mutant: the ACK leaves its sequence to the address, as the legacy loop's *)
(* does.                                                                    *)
AckAddressOnly(job) ==
  Message("ack", EncodeFrameAddress(job.sequence, job.name, "control"), <<>>, None)
Ack(job) ==
  Message("ack", EncodeFrameAddress(job.sequence, job.name, "control"), <<>>, job.sequence)

ErrorReply(job) ==
  Message("error", EncodeFrameAddress(job.sequence, job.name, "control"), <<>>, job.sequence)

ReplyName(name, suffix) ==
  IF Last(name) = suffix THEN name ELSE Append(name, suffix)
Reply(job, decoded) ==
  Message("data",
          EncodeFrameAddress(job.sequence, ReplyName(job.name, ".decoded.ply"), "data"),
          ComposeResponse(Or(job.sequence, 0), job.stamp, decoded, Metrics),
          job.sequence)

(* What is left of the job when its frame is whole. *)
Accept(job) ==
  /\ jobs' = Append(jobs, job)
  /\ decodeQ' = Append(decodeQ, job)
  /\ down' = Append(down, Answer(Ack(job), FrameOf(job.payload)))

(* DecodeJob: what the rest of the server knows of a frame. *)
Job(sequence, name, m, payload) ==
  [sequence |-> sequence, name |-> name, payload |-> payload,
   length |-> Or(m.length, Len(payload)), stamp |-> Or(m.stamp, 0)]

(* _recv_loop and FragmentBuffer.add.  In text a message has no timestamp:   *)
(* the server's clock, 0 here, takes its place.                              *)
WithChunk(chunks, index, payload) ==
  [i \in DOMAIN chunks \union {index} |->
     IF i \in DOMAIN chunks THEN chunks[i] ELSE payload]
Assembly(sequence, m) ==
  IF sequence \in DOMAIN partial THEN partial[sequence]
  ELSE [total |-> Or(m.total, 1), chunks |-> <<>>]

RecvData(m) ==
  LET address == DecodeFrameAddress(m.name)
      sequence == SequenceOf(m, address)
      name == IF address.name = <<>> THEN <<"frame">> ELSE address.name
      old == Assembly(sequence, m)
      index == Or(m.index, 0)
      chunks == WithChunk(old.chunks, index, m.payload)
      complete == /\ index \notin DOMAIN old.chunks
                  /\ Cardinality(DOMAIN chunks) = old.total
      whole == FlattenSeq([i \in 1..old.total |-> chunks[i - 1]])
  IN  \/ /\ ~(Binary /\ m.fragmented)
         /\ Accept(Job(sequence, name, m, m.payload))
         /\ UNCHANGED partial
      \/ /\ Binary /\ m.fragmented /\ complete
         /\ Accept(Job(sequence, name, m, whole))
         /\ partial' = [s \in DOMAIN partial \ {sequence} |-> partial[s]]
      \/ /\ Binary /\ m.fragmented /\ ~complete
         /\ partial' = [s \in DOMAIN partial \union {sequence} |->
                         IF s = sequence THEN [total |-> old.total, chunks |-> chunks]
                         ELSE partial[s]]
         /\ UNCHANGED <<jobs, decodeQ, down>>

Recv ==
  /\ setting.handler = "pipeline" /\ serving = "open" /\ up # <<>>
  /\ up' = Tail(up)
  /\ LET m == FromWire(Head(up))
     IN  \/ /\ m = None
            /\ serving' = "failed" /\ UNCHANGED <<partial, jobs, decodeQ, down>>
         \/ /\ m # None /\ m.kind = "eof"
            /\ serving' = "draining" /\ UNCHANGED <<partial, jobs, decodeQ, down>>
         \/ /\ m # None /\ m.kind = "data"
            /\ RecvData(m) /\ UNCHANGED serving
  /\ UNCHANGED <<setting, client, sendQ, work, disk, faults, results>>

-----------------------------------------------------------------------------
(* _decode_worker and decode_drc: the files are named by the frame.  Mutant: *)
(* all frames share one.                                                     *)
StemShared(name) == <<"frame">>
Stem(name) == name
Drc(job) == Append(Stem(job.name), ".drc")
Ply(job) == Append(Stem(job.name), ".decoded.ply")

WithFile(file, content) ==
  [x \in DOMAIN disk \union {file} |-> IF x = file THEN content ELSE disk[x]]
WithoutFile(file) == [x \in DOMAIN disk \ {file} |-> disk[x]]

(* draco_decoder makes points of a whole file and refuses any other. *)
Decodes(content) == \E f \in Frames : content = Payload(f)

TakeJob(w) ==
  /\ serving # "failed" /\ work[w] = Idle /\ decodeQ # <<>>
  /\ work' = [work EXCEPT ![w] = [at |-> "written", job |-> Head(decodeQ)]]
  /\ decodeQ' = Tail(decodeQ)
  /\ disk' = WithFile(Drc(Head(decodeQ)), Head(decodeQ).payload)
  /\ UNCHANGED <<setting, client, up, down, serving, partial, sendQ, faults, jobs, results>>

Error(w) ==
  /\ work' = [work EXCEPT ![w] = [at |-> "left"]]
  /\ sendQ' = Append(sendQ, [job |-> work[w].job, decoded |-> None])
  /\ decodeQ' = <<>> /\ serving' = "failed"
  /\ disk' = WithoutFile(Drc(work[w].job))

RunDecoder(w) ==
  /\ work[w].at = "written"
  /\ LET job == work[w].job
         able == Drc(job) \in DOMAIN disk /\ Decodes(disk[Drc(job)])
     IN  \/ /\ able
            /\ work' = [work EXCEPT ![w] = [at |-> "run", job |-> job]]
            /\ disk' = WithFile(Ply(job), Points(FrameOf(disk[Drc(job)])))
            /\ UNCHANGED <<serving, decodeQ, sendQ, faults>>
         \/ /\ ~able \/ faults < MaxDecodeFaults
            /\ faults' = IF able THEN faults + 1 ELSE faults
            /\ Error(w)
  /\ UNCHANGED <<setting, client, up, down, partial, jobs, results>>

(* A result that finds stop_event set is dropped. *)
ReadBack(w) ==
  /\ work[w].at = "run"
  /\ LET job == work[w].job
     IN  IF Ply(job) \in DOMAIN disk
         THEN /\ sendQ' = IF serving = "failed" THEN sendQ
                          ELSE Append(sendQ, [job |-> job, decoded |-> disk[Ply(job)]])
              /\ work' = [work EXCEPT ![w] = Idle]
              /\ disk' = WithoutFile(Drc(job))
              /\ UNCHANGED <<serving, decodeQ>>
         ELSE Error(w)
  /\ UNCHANGED <<setting, client, up, down, partial, faults, jobs, results>>

(* _send_loop; artifact.close() removes the file of points. *)
Send ==
  /\ sendQ # <<>>
  /\ LET result == Head(sendQ)
         f == FrameOf(result.job.payload)
     IN  IF result.decoded = None
         THEN /\ down' = Append(down, Answer(ErrorReply(result.job), f))
              /\ serving' = "failed" /\ UNCHANGED disk
         ELSE /\ down' = Append(down, Answer(Reply(result.job, result.decoded), f))
              /\ disk' = WithoutFile(Ply(result.job)) /\ UNCHANGED serving
  /\ sendQ' = Tail(sendQ)
  /\ UNCHANGED <<setting, client, up, partial, decodeQ, work, faults, jobs, results>>

(* The end of an orderly session.  The send loop means to send an EOF, but   *)
(* its lifecycle has ended before (ServerPipeline): the connection closes.   *)
Closed == [bytes |-> None, about |-> None]

Close ==
  /\ serving = "draining" /\ decodeQ = <<>> /\ sendQ = <<>>
  /\ \A w \in Workers : work[w] = Idle
  /\ serving' = "closed"
  /\ down' = Append(down, Closed)
  /\ UNCHANGED <<setting, client, up, partial, decodeQ, sendQ, work, disk, faults, jobs,
                 results>>

-----------------------------------------------------------------------------
(* run_server_legacy: one message after the other, each decoded as it is and *)
(* answered without message.sequence and without a response header.          *)
LegacyData(m) ==
  LET address == DecodeFrameAddress(m.name)
      stem == IF address.name = <<>> THEN <<"frame">> ELSE address.name
      able == Decodes(m.payload)
      f == FrameOf(m.payload)
      answer(kind, name, channel, payload) ==
        Answer(Message(kind, EncodeFrameAddress(address.sequence, name, channel),
                       payload, None), f)
      ack == answer("ack", stem, "control", <<>>)
  IN  \/ /\ able
         /\ down' = down \o
              <<ack, answer("data", ReplyName(stem, ".decoded"), "data", Points(f))>>
         /\ UNCHANGED faults
      \/ /\ ~able \/ faults < MaxDecodeFaults
         /\ down' = down \o <<ack, answer("error", stem, "control", <<>>)>>
         /\ faults' = IF able THEN faults + 1 ELSE faults

LegacyRecv ==
  /\ setting.handler = "legacy" /\ serving = "open" /\ up # <<>>
  /\ up' = Tail(up)
  /\ LET m == FromWire(Head(up))
     IN  \/ /\ m = None
            /\ serving' = "failed" /\ UNCHANGED <<down, faults>>
         \/ /\ m # None /\ m.kind = "eof"
            /\ serving' = "closed" /\ down' = Append(down, Answer(Eof, None))
            /\ UNCHANGED faults
         \/ /\ m # None /\ m.kind = "data"
            /\ LegacyData(m) /\ UNCHANGED serving
  /\ UNCHANGED <<setting, client, partial, decodeQ, sendQ, work, disk, jobs, results>>

-----------------------------------------------------------------------------
(* reply_consumer.  A reply is looked up by its sequence, then by its name.  *)
(* The client fragments nothing the server sends, as it sends no fragments.  *)
NameMatches(name) == {f \in inflight : Name[f] = name}
Candidate(m) ==
  LET address == DecodeFrameAddress(m.name)
      sequence == SequenceOf(m, address)
  IN  IF sequence \in inflight THEN sequence
      ELSE IF NameMatches(address.name) # {}
           THEN CHOOSE f \in inflight : f \in NameMatches(address.name)
      ELSE None

Match(m, about, f) ==
  matches' = IF f = None THEN matches
             ELSE matches \union {[kind |-> m.kind, about |-> about, frame |-> f]}

(* An ACK for a frame that is not in flight only leaves acks_pending. *)
ConsumeAck(m, about) ==
  LET sequence == SequenceOf(m, DecodeFrameAddress(m.name))
  IN  /\ Match(m, about, IF sequence \in inflight THEN sequence ELSE None)
      /\ acksPending' = acksPending \ {sequence}
      /\ UNCHANGED <<inflight, failed, ended, published>>

(* A reply that cannot be parsed is counted, its frame is no more in flight. *)
Publication(m, f) ==
  LET address == DecodeFrameAddress(m.name)
      response == ParseResponse(m.payload)
  IN  IF response = None THEN {}
      ELSE {[frame |-> f,
             name |-> IF address.name = <<>> THEN Append(Name[f], ".decoded")
                      ELSE address.name,
             sequence |-> response.sequence, stamp |-> response.stamp,
             decoded |-> response.decoded]}

ConsumeReply(m, about) ==
  LET f == Candidate(m)
  IN  /\ Match(m, about, f)
      /\ inflight' = inflight \ {f}
      /\ acksPending' = acksPending \ {f, SequenceOf(m, DecodeFrameAddress(m.name))}
      /\ failed' = (failed \/ (m.kind = "error" /\ f # None))
      /\ published' = IF m.kind = "error" \/ f = None THEN published
                      ELSE published \union Publication(m, f)
      /\ UNCHANGED ended

ConsumeMessage(m, about) ==
  \/ m.kind = "ack" /\ ConsumeAck(m, about)
  \/ /\ m.kind = "eof"
     /\ ended' = TRUE /\ acksPending' = {}
     /\ UNCHANGED <<inflight, failed, results>>
  \/ m.kind \in {"data", "error"} /\ ConsumeReply(m, about)

Consume ==
  /\ down # <<>> /\ ~failed /\ ~ended
  /\ down' = Tail(down)
  /\ IF Head(down) = Closed
     THEN /\ failed' = TRUE /\ acksPending' = {}
          /\ UNCHANGED <<inflight, ended, results>>
     ELSE ConsumeMessage(FromWire(Head(down).bytes), Head(down).about)
  /\ UNCHANGED <<setting, sender, outbox, next, server, up>>

Next ==
  \/ BeginFrame \/ SendFragment \/ Register \/ SendEof
  \/ Recv \/ Send \/ Close
  \/ \E w \in Workers : TakeJob(w) \/ RunDecoder(w) \/ ReadBack(w)
  \/ LegacyRecv \/ Consume

Spec == Init /\ [][Next]_vars

-----------------------------------------------------------------------------
(* The server decodes what the client encoded: every job of the pipeline is  *)
(* one whole frame, under its sequence, name, length and timestamp, and no   *)
(* frame makes two jobs.  It is promised for frames whose number of          *)
(* fragments fits in the header: of one with more the first fragments pass   *)
(* for a whole frame.                                                        *)
Fragments(f) == Len(IterFragments(Payload(f), IF Binary THEN setting.size ELSE 0))
JobOf(f) ==
  [sequence |-> f, name |-> Name[f], payload |-> Payload(f), length |-> Size[f],
   stamp |-> IF Binary THEN Stamp[f] ELSE 0]
JobsExact ==
  /\ \A i \in DOMAIN jobs :
       LET f == FrameOf(jobs[i].payload)
       IN  Fragments(f) < Modulus => jobs[i] = JobOf(f)
  /\ IsInjective(jobs)

(* What the client takes for the ACK or the answer to a frame is about that  *)
(* frame, early answers and failures included: from the pipeline in both     *)
(* framings, from the legacy loop in text.  In binary the legacy loop's      *)
(* answers all carry sequence 0.                                             *)
AnswersMatch ==
  (setting.handler = "pipeline" \/ ~Binary)
    => \A x \in matches : x.about = x.frame

(* What is published for a frame is the decoded form of that frame, under    *)
(* its name, sequence and timestamp, whoever serves, whichever workers run   *)
(* at the same time and whatever was lost on the way.                        *)
PublishedExact ==
  \A x \in published :
    LET f == x.frame
    IN  /\ x.decoded = Points(f) /\ x.name = Append(Name[f], ".decoded.ply")
        /\ x.sequence = f /\ x.stamp = IF Binary THEN Stamp[f] ELSE 0
=============================================================================
