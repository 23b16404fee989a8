--------------------------- MODULE OfflineCapture ---------------------------
(***************************************************************************)
(* The first stage of draco_tools/offline_pipeline.py: it starts the bag   *)
(* player and the saver (io/bag_recorder.py), watches what the saver       *)
(* prints, stops both, and decides whether the stage succeeded.            *)
(*                                                                         *)
(* Four processes or threads: the player, the saver, the pump thread that  *)
(* moves the saver's lines to line_queue, and main.  Both children write   *)
(* to pipes; nobody reads the player's.  OfflinePipeline goes on with the  *)
(* files that are in the directory when this stage has ended.              *)
(*                                                                         *)
(* A player that can play delivers a cloud at least every two seconds, so  *)
(* the saver's idle timer fires only when it cannot, or is being stopped.  *)
(***************************************************************************)
EXTENDS Naturals, Sequences, FiniteSets, SequencesExt

CONSTANTS
  LastIndex,       \* the highest index whose file is looked at; frames after it are only counted
  Runs,       \* bound on the runs of the pipeline, which share their directories
  Setups,     \* the command lines to look at
  Clouds,     \* how many clouds the bag holds
  PipeSlots,  \* how many lines of the player fit into the pipe nobody reads
  Depth,      \* QoSProfile(depth=10)
  MaxUnread,  \* bound on the saver's lines in its pipe, and in line_queue
  None        \* no value

Indices == 0..LastIndex
Options ==
  [bag : BOOLEAN, loop : BOOLEAN, chatty : BOOLEAN, maxFrames : Nat,
   timeout : BOOLEAN, reuse : BOOLEAN, qa : BOOLEAN, keep : BOOLEAN]

ASSUME CaptureAssumption ==
  /\ LastIndex \in Nat /\ Runs \in Nat /\ Clouds \in Nat /\ PipeSlots \in Nat
  /\ Depth \in Nat \ {0} /\ MaxUnread \in Nat \ {0}
  /\ None \notin {0, 1, 2, 3, 130, "ok", "idle", "max", "proc_end", "stream_end"}
  /\ Setups \subseteq Options /\ \A s \in Setups : s.maxFrames <= LastIndex + 1

VARIABLES
  run,      \* the number of this run
  setup,    \* its command line, one of Setups
  stage,    \* where main is
  exit,     \* the exit status of the run
  bag,      \* the player: none, playing, signalled, dead
  left,     \* the clouds that are still to be played
  printed,  \* the lines in the player's pipe
  inbox,    \* the clouds in the saver's subscription
  saver,    \* the saver: where it is, SIGINT received, frames saved, exit status
  out,      \* the lines in the saver's pipe
  queue,    \* line_queue
  overdue,  \* the deadline of --saver-timeout has passed
  reason,   \* reason
  ply,      \* the directory of the PLY files: who wrote each, and whether whole
  saveLog   \* the saver's CSV of this run: the frames it lists

children == <<bag, left, printed, inbox, saver, out, ply, saveLog>>
captureVars == <<run, setup, stage, exit, children, queue, overdue, reason>>

Lines == {"saved", "max", "idle"}
Cloud == [run : 0..Runs, whole : BOOLEAN]
Capturing == {"watch", "stop_bag", "stop_saver"}
Stages == Capturing \union {"collect", "encode", "pairs", "decode", "measure", "exited"}
Reasons == {None, "max", "idle", "proc_end", "stream_end", "timeout", "kbd"}
Statuses == {None, "ok", "failed", "signal"}
Idle == [at |-> "dead", signalled |-> FALSE, saved |-> 0, status |-> None, own |-> FALSE]

CaptureInit ==
  /\ run = 0 /\ setup \in Setups /\ stage = "exited" /\ exit = None
  /\ bag = "none" /\ left = 0 /\ printed = 0 /\ inbox = 0 /\ saver = Idle
  /\ out = <<>> /\ queue = <<>> /\ overdue = FALSE /\ reason = None
  /\ ply = [i \in Indices |-> None] /\ saveLog = {}

(* main up to the watch loop: the directories are left as they are.  Mutant: *)
(* the name of the saver's log is the same in every run, and it is appended. *)
LaunchOneLog ==
  /\ stage = "exited" /\ run < Runs
  /\ run' = run + 1 /\ setup' \in Setups /\ stage' = "watch" /\ exit' = None
  /\ bag' = IF setup'.bag THEN "playing" ELSE "none"
  /\ left' = Clouds /\ printed' = 0 /\ inbox' = 0
  /\ saver' = [Idle EXCEPT !.at = "spin"]
  /\ out' = <<>> /\ queue' = <<>> /\ overdue' = FALSE /\ reason' = None
  /\ UNCHANGED <<ply, saveLog>>

Launch ==
  /\ stage = "exited" /\ run < Runs
  /\ run' = run + 1 /\ setup' \in Setups /\ stage' = "watch" /\ exit' = None
  /\ bag' = IF setup'.bag THEN "playing" ELSE "none"
  /\ left' = Clouds /\ printed' = 0 /\ inbox' = 0
  /\ saver' = [Idle EXCEPT !.at = "spin"]
  /\ out' = <<>> /\ queue' = <<>> /\ overdue' = FALSE /\ reason' = None
  /\ saveLog' = {} /\ UNCHANGED ply

-----------------------------------------------------------------------------
(* The player.  Without --bag somebody else publishes.  The saver subscribes *)
(* best effort: a cloud may be lost, and the oldest makes room for the new.  *)
Blocked == bag \in {"playing", "signalled"} /\ setup.chatty /\ printed = PipeSlots

Play ==
  /\ bag # "dead" /\ left > 0 /\ ~Blocked /\ stage \in Capturing
  /\ left' = IF setup.loop THEN left ELSE left - 1
  /\ printed' = IF bag # "none" /\ setup.chatty THEN printed + 1 ELSE printed
  /\ inbox' \in {inbox, IF inbox < Depth THEN inbox + 1 ELSE inbox}
  /\ UNCHANGED <<run, setup, stage, exit, bag, saver, out, queue, overdue, reason, ply, saveLog>>

BagGone ==
  /\ bag' = "dead"
  /\ UNCHANGED <<run, setup, stage, exit, left, printed, inbox, saver, out, queue,
                 overdue, reason, ply, saveLog>>

BagEnds == bag = "playing" /\ left = 0 /\ BagGone
BagObeys == bag = "signalled" /\ BagGone

-----------------------------------------------------------------------------
(* The saver. *)
SaverOnly ==
  UNCHANGED <<run, setup, stage, exit, bag, left, printed, queue, overdue, reason>>
CanPrint == Len(out) < MaxUnread
Written(whole) ==
  IF saver.saved \in Indices
  THEN [ply EXCEPT ![saver.saved] = [run |-> run, whole |-> whole]]
  ELSE ply
Ending(status) == [saver EXCEPT !.at = "ending", !.status = status, !.own = TRUE]

(* cb: an empty cloud is passed over; a file is written in place. *)
Skip ==
  /\ saver.at = "spin" /\ inbox > 0
  /\ inbox' = inbox - 1
  /\ UNCHANGED <<saver, out, ply, saveLog>> /\ SaverOnly

BeginSave ==
  /\ saver.at = "spin" /\ inbox > 0
  /\ inbox' = inbox - 1
  /\ saver' = [saver EXCEPT !.at = "saving"]
  /\ ply' = Written(FALSE)
  /\ UNCHANGED <<out, saveLog>> /\ SaverOnly

Full == setup.maxFrames > 0 /\ saver.saved + 1 >= setup.maxFrames

EndSave ==
  /\ saver.at = "saving" /\ CanPrint
  /\ ply' = Written(TRUE)
  /\ saveLog' = saveLog \union ({saver.saved} \intersect Indices)
  /\ LET next == IF saver.saved <= LastIndex THEN saver.saved + 1 ELSE saver.saved
     IN  IF Full
         THEN /\ out' = Append(Append(out, "saved"), "max")
              /\ saver' = [Ending("ok") EXCEPT !.saved = next]
         ELSE /\ out' = Append(out, "saved")
              /\ saver' = [saver EXCEPT !.at = "spin", !.saved = next]
  /\ UNCHANGED inbox /\ SaverOnly

(* _on_timer: nothing came for --idle-timeout-sec. *)
Silence == bag \in {"none", "dead", "signalled"} \/ left = 0 \/ Blocked

OnTimer ==
  /\ saver.at = "spin" /\ inbox = 0 /\ Silence /\ CanPrint
  /\ out' = Append(out, "idle")
  /\ saver' = Ending("ok")
  /\ UNCHANGED <<inbox, ply, saveLog>> /\ SaverOnly

(* An exception of the callback, or a signal from elsewhere. *)
SaverFails ==
  /\ saver.at \in {"spin", "saving"}
  /\ saver' = Ending("failed")
  /\ UNCHANGED <<inbox, out, ply, saveLog>> /\ SaverOnly

(* KeyboardInterrupt in spin(), or on the way out. *)
SaverInterrupted ==
  /\ saver.signalled /\ saver.at \in {"spin", "saving", "ending"}
  /\ saver.status # "signal"
  /\ saver' = [saver EXCEPT !.at = "ending", !.status = "signal"]
  /\ UNCHANGED <<inbox, out, ply, saveLog>> /\ SaverOnly

(* The process closes its output and then ends. *)
SaverExits ==
  /\ saver.at \in {"ending", "closed"}
  /\ saver' = [saver EXCEPT !.at = IF @ = "ending" THEN "closed" ELSE "dead"]
  /\ UNCHANGED <<inbox, out, ply, saveLog>> /\ SaverOnly

SaverRuns == Skip \/ BeginSave \/ EndSave \/ OnTimer \/ SaverExits

-----------------------------------------------------------------------------
(* The pump thread reads on when main no longer does. *)
Pump ==
  /\ out # <<>> /\ Len(queue) < MaxUnread
  /\ out' = Tail(out)
  /\ queue' = IF stage = "watch" THEN Append(queue, Head(out)) ELSE queue
  /\ UNCHANGED <<run, setup, stage, exit, bag, left, printed, inbox, saver,
                 overdue, reason, ply, saveLog>>

EndOfOutput == out = <<>> /\ saver.at \in {"closed", "dead"}

(* Main.  What the loop knows of the saver's process is poll().              *)
MainOnly == UNCHANGED <<run, setup, left, printed, inbox, out, ply, saveLog>>
Dead == saver.at = "dead"
Leave(why) == reason' = why /\ stage' = "stop_bag"

Deadline ==
  /\ stage = "watch" /\ setup.timeout /\ ~overdue
  /\ overdue' = TRUE
  /\ UNCHANGED <<stage, exit, bag, saver, queue, reason>> /\ MainOnly

(* The deadline is looked at only when no line came for 0.2 seconds. *)
GetNothing ==
  /\ stage = "watch" /\ queue = <<>>
  /\ \/ overdue /\ Leave("timeout")
     \/ ~overdue /\ Dead /\ Leave("proc_end")
  /\ UNCHANGED <<exit, bag, saver, queue, overdue>> /\ MainOnly

GetLine ==
  /\ stage = "watch" /\ queue # <<>>
  /\ queue' = Tail(queue)
  /\ IF Head(queue) = "saved"
     THEN UNCHANGED <<stage, reason>>
     ELSE Leave(Head(queue))
  /\ UNCHANGED <<exit, bag, saver, overdue>> /\ MainOnly

(* The None that the pump puts at the end of the output. *)
GetEnd ==
  /\ stage = "watch" /\ queue = <<>> /\ EndOfOutput
  /\ Leave(IF Dead THEN "proc_end" ELSE "stream_end")
  /\ UNCHANGED <<exit, bag, saver, queue, overdue>> /\ MainOnly

(* Ctrl-C reaches the children too: they belong to the same group. *)
Interrupt ==
  /\ stage = "watch"
  /\ Leave("kbd")
  /\ bag' = IF bag = "playing" THEN "signalled" ELSE bag
  /\ saver' = [saver EXCEPT !.signalled = TRUE]
  /\ UNCHANGED <<exit, queue, overdue>> /\ MainOnly

(* _terminate: SIGINT, some seconds, SIGKILL.  First the player ...          *)
StopBag ==
  /\ stage = "stop_bag"
  /\ \/ bag \in {"none", "dead"} /\ stage' = "stop_saver" /\ UNCHANGED bag
     \/ bag = "playing" /\ bag' = "signalled" /\ UNCHANGED stage
     \/ bag = "signalled" /\ bag' = "dead" /\ stage' = "stop_saver"
  /\ UNCHANGED <<exit, saver, queue, overdue, reason>> /\ MainOnly

(* ... then the saver.  After SIGKILL its status may not be there yet.       *)
(* Mutants: any reason but the deadline is good enough; nobody kills it.     *)
SaverOkUnlessLate(rc) == rc = "ok" \/ reason # "timeout"
SaverOk(rc) == rc = "ok" \/ reason \in {"idle", "max", "proc_end", "stream_end"}

Judge(rc) ==
  IF SaverOk(rc) THEN stage' = "collect" /\ UNCHANGED exit
                 ELSE stage' = "exited" /\ exit' = 1

StopSaverGently ==
  /\ stage = "stop_saver"
  /\ \/ Dead /\ Judge(saver.status) /\ UNCHANGED saver
     \/ /\ ~Dead /\ ~saver.signalled
        /\ saver' = [saver EXCEPT !.signalled = TRUE]
        /\ UNCHANGED <<stage, exit>>
  /\ UNCHANGED <<bag, queue, overdue, reason>> /\ MainOnly

StopSaver ==
  /\ stage = "stop_saver"
  /\ \/ Dead /\ Judge(saver.status) /\ UNCHANGED saver
     \/ /\ ~Dead /\ ~saver.signalled
        /\ saver' = [saver EXCEPT !.signalled = TRUE]
        /\ UNCHANGED <<stage, exit>>
     \/ /\ ~Dead /\ saver.signalled
        /\ saver' = [saver EXCEPT !.at = "dead", !.status = "signal"]
        /\ Judge(None)
  /\ UNCHANGED <<bag, queue, overdue, reason>> /\ MainOnly

Main == GetNothing \/ GetLine \/ GetEnd \/ StopBag \/ StopSaver

CaptureNext ==
  \/ Play \/ BagEnds \/ BagObeys
  \/ SaverRuns \/ SaverFails \/ SaverInterrupted
  \/ Pump \/ Deadline \/ Interrupt \/ Main

-----------------------------------------------------------------------------
(* The types of the variables. *)
CaptureTypeOK ==
  /\ run \in 0..Runs /\ setup \in Setups /\ stage \in Stages
  /\ exit \in {None, 0, 1, 2, 3, 130}
  /\ bag \in {"none", "playing", "signalled", "dead"}
  /\ left \in 0..Clouds /\ printed \in 0..PipeSlots /\ inbox \in 0..Depth
  /\ saver \in [at : {"spin", "saving", "ending", "closed", "dead"}, signalled : BOOLEAN,
                saved : 0..LastIndex + 1, status : Statuses, own : BOOLEAN]
  /\ out \in Seq(Lines) /\ queue \in Seq(Lines)
  /\ overdue \in BOOLEAN /\ reason \in Reasons
  /\ ply \in [Indices -> Cloud \union {None}] /\ saveLog \subseteq Indices

(* No stage after the first runs, and no run ends, while the player or the   *)
(* saver of this run is alive: the files the encoder reads are at rest.      *)
ChildrenGone ==
  stage \notin Capturing => Dead /\ bag \in {"none", "dead"}

(* A recording that the pipeline cut off (at its deadline, or on Ctrl-C)     *)
(* never passes for a success: what goes on to the encoder is a recording    *)
(* whose saver ended by itself, whatever its status says after the signals.  *)
CutIsNotSuccess ==
  run > 0 /\ stage \notin Capturing /\ exit # 1 => saver.own

=============================================================================
