----------------------- MODULE OfflinePipeline_proofs -----------------------
(***************************************************************************)
(* What a run of the offline pipeline may rely on, for any number of runs  *)
(* over the same directories, any command lines and any bounds: its        *)
(* children are gone when the encoder starts, a recording that was cut off *)
(* is no success, a success has every file encoded, and the table of times *)
(* joins the files of one run.                                             *)
(***************************************************************************)
EXTENDS OfflinePipeline, SequenceTheorems, TLAPS

(* What a step of one process leaves alone. *)
SaverStep == SaverRuns \/ SaverFails \/ SaverInterrupted
OtherStep == Play \/ BagEnds \/ BagObeys \/ Pump \/ Deadline \/ Interrupt \/ Main

(* The parts of CaptureTypeOK the invariants below need. *)
Places == {"spin", "saving", "ending", "closed", "dead"}
Saver ==
  [at : Places, signalled : BOOLEAN,
   saved : 0..LastIndex + 1, status : Statuses, own : BOOLEAN]
TypeInv ==
  /\ run \in 0..Runs /\ stage \in Stages /\ saver \in Saver
  /\ bag \in {"none", "playing", "signalled", "dead"}
  /\ out \in Seq(Lines) /\ queue \in Seq(Lines)
  /\ ply \in [Indices -> Cloud \union {None}] /\ saveLog \subseteq Indices

(* The children end in order: the player before the saver. *)
ChildInv ==
  /\ stage \notin {"watch", "stop_bag"} => bag \in {"none", "dead"}
  /\ stage \notin Capturing => Dead

(* Who ended the saver.  As long as nobody signalled it, an end is its own,  *)
(* and so is an end it announced.                                            *)
OwnInv ==
  /\ stage # "exited" => run > 0
  /\ stage = "watch" => ~saver.signalled
  /\ run > 0 /\ ~saver.signalled /\ saver.at \notin {"spin", "saving"} => saver.own
  /\ saver.status = "ok" => saver.own
  /\ \A k \in 1..Len(out) : out[k] # "saved" => saver.own
  /\ \A k \in 1..Len(queue) : queue[k] # "saved" => saver.own
  /\ reason \in {"idle", "max", "proc_end", "stream_end"} => saver.own
  /\ stage \notin Capturing \union {"exited"} => saver.own
  /\ stage = "exited" /\ run > 0 /\ exit # 1 => saver.own

LEMMA InitOwn == Init => TypeInv /\ ChildInv /\ OwnInv
<1> SUFFICES ASSUME Init PROVE TypeInv /\ ChildInv /\ OwnInv
  OBVIOUS
<1> USE CaptureAssumption DEF Init, CaptureInit, Idle
<1>1. out \in Seq(Lines) /\ queue \in Seq(Lines) /\ Len(out) = 0 /\ Len(queue) = 0
  OBVIOUS
<1>2. TypeInv
  BY <1>1 DEF TypeInv, Saver, Places, Stages, Capturing, Statuses
<1>3. ChildInv
  BY DEF ChildInv, Capturing, Dead
<1>4. OwnInv
  BY <1>1 DEF OwnInv, Capturing
<1> QED
  BY <1>2, <1>3, <1>4

-----------------------------------------------------------------------------
(* A saver with one field changed is a saver. *)
LEMMA SaverChanged ==
  ASSUME NEW s \in Saver
  PROVE  /\ \A x \in Places : [s EXCEPT !.at = x] \in Saver
         /\ \A x \in Statuses : [s EXCEPT !.status = x] \in Saver
         /\ \A x \in 0..LastIndex + 1 : [s EXCEPT !.saved = x] \in Saver
         /\ [s EXCEPT !.own = TRUE] \in Saver
         /\ [s EXCEPT !.signalled = TRUE] \in Saver
  BY DEF Saver

LEMMA EndingTyped ==
  ASSUME saver \in Saver, NEW x \in Statuses
  PROVE  /\ Ending(x) \in Saver
         /\ Ending(x).at = "ending" /\ Ending(x).own /\ Ending(x).status = x
         /\ Ending(x).signalled = saver.signalled /\ Ending(x).saved = saver.saved
<1> DEFINE s1 == [saver EXCEPT !.at = "ending"]
           s2 == [s1 EXCEPT !.status = x]
<1>1. s1 \in Saver /\ s2 \in Saver /\ [s2 EXCEPT !.own = TRUE] \in Saver
  BY SaverChanged DEF Places
<1>2. Ending(x) = [s2 EXCEPT !.own = TRUE]
  BY DEF Ending
<1>3. Ending(x) \in Saver
  BY <1>1, <1>2
<1>4. s1.at = "ending" /\ s1.signalled = saver.signalled /\ s1.saved = saver.saved
  BY DEF Saver
<1>5. s2.at = s1.at /\ s2.status = x /\ s2.signalled = s1.signalled /\ s2.saved = s1.saved
  BY <1>1 DEF Saver
<1>6. /\ Ending(x).at = s2.at /\ Ending(x).own /\ Ending(x).status = s2.status
      /\ Ending(x).signalled = s2.signalled /\ Ending(x).saved = s2.saved
  <2> HIDE DEF s2
  <2> QED
    BY <1>1, <1>2 DEF Saver
<1> QED
  BY <1>3, <1>4, <1>5, <1>6

(* The saver's record after each of its steps. *)
LEMMA SaverTyped == TypeInv /\ SaverStep => saver' \in Saver
<1> SUFFICES ASSUME TypeInv, SaverStep PROVE saver' \in Saver
  OBVIOUS
<1>1. saver \in Saver /\ "ok" \in Statuses /\ "failed" \in Statuses /\ "signal" \in Statuses
  BY DEF TypeInv, Statuses
<1>2. CASE Skip
  BY <1>1, <1>2 DEF Skip
<1>3. CASE BeginSave
  BY <1>1, <1>3, SaverChanged DEF BeginSave, Places
<1>4. CASE EndSave
  <2> DEFINE next == IF saver.saved <= LastIndex THEN saver.saved + 1 ELSE saver.saved
  <2>1. next \in 0..LastIndex + 1
    BY <1>1, CaptureAssumption DEF Saver
  <2>2. \/ saver' = [Ending("ok") EXCEPT !.saved = next]
        \/ saver' = [saver EXCEPT !.at = "spin", !.saved = next]
    BY <1>4 DEF EndSave
  <2>3. [saver EXCEPT !.at = "spin", !.saved = next] = [[saver EXCEPT !.at = "spin"] EXCEPT !.saved = next]
    OBVIOUS
  <2> HIDE DEF next
  <2>4. [Ending("ok") EXCEPT !.saved = next] \in Saver
    BY <1>1, <2>1, EndingTyped, SaverChanged
  <2>5. [saver EXCEPT !.at = "spin"] \in Saver
    BY <1>1, SaverChanged DEF Places
  <2> QED
    BY <2>1, <2>2, <2>3, <2>4, <2>5, SaverChanged
<1>5. CASE OnTimer \/ SaverFails
  BY <1>1, <1>5, EndingTyped DEF OnTimer, SaverFails
<1>6. CASE SaverExits
  BY <1>1, <1>6, SaverChanged DEF SaverExits, Places
<1>7. CASE SaverInterrupted
  <2>1. [saver EXCEPT !.at = "ending"] \in Saver
    BY <1>1, SaverChanged DEF Places
  <2>2. saver' = [[saver EXCEPT !.at = "ending"] EXCEPT !.status = "signal"]
    BY <1>7 DEF SaverInterrupted
  <2> QED
    BY <1>1, <2>1, <2>2, SaverChanged
<1> QED
  BY <1>2, <1>3, <1>4, <1>5, <1>6, <1>7 DEF SaverStep, SaverRuns

LEMMA WrittenTyped ==
  ASSUME TypeInv, NEW w \in BOOLEAN PROVE Written(w) \in [Indices -> Cloud \union {None}]
  BY DEF TypeInv, Written, Cloud

LEMMA SaverKeepsTypes == TypeInv /\ SaverStep => TypeInv'
<1> SUFFICES ASSUME TypeInv, SaverStep PROVE TypeInv'
  OBVIOUS
<1>1. saver' \in Saver
  BY SaverTyped
<1>2. ply' \in [Indices -> Cloud \union {None}] /\ saveLog' \subseteq Indices
  <2>1. ply' \in {ply, Written(TRUE), Written(FALSE)}
    BY DEF SaverStep, SaverRuns, Skip, BeginSave, EndSave, OnTimer, SaverExits, SaverFails,
           SaverInterrupted
  <2>2. saveLog' \subseteq saveLog \union Indices
    BY DEF SaverStep, SaverRuns, Skip, BeginSave, EndSave, OnTimer, SaverExits, SaverFails,
           SaverInterrupted
  <2> QED
    BY <2>1, <2>2, WrittenTyped DEF TypeInv
<1>3. out' \in Seq(Lines)
  <2>1. out' \in {out, Append(out, "idle"), Append(out, "saved"),
                  Append(Append(out, "saved"), "max")}
    BY DEF SaverStep, SaverRuns, Skip, BeginSave, EndSave, OnTimer, SaverExits, SaverFails,
           SaverInterrupted
  <2>2. out \in Seq(Lines) /\ "idle" \in Lines /\ "saved" \in Lines /\ "max" \in Lines
    BY DEF TypeInv, Lines
  <2>3. Append(out, "idle") \in Seq(Lines) /\ Append(out, "saved") \in Seq(Lines)
    BY <2>2
  <2>4. Append(Append(out, "saved"), "max") \in Seq(Lines)
    BY <2>2, <2>3
  <2> QED
    BY <2>1, <2>2, <2>3, <2>4
<1>4. UNCHANGED <<run, stage, bag, queue>>
  BY DEF SaverStep, SaverRuns, Skip, BeginSave, EndSave, OnTimer, SaverExits, SaverFails,
         SaverInterrupted, SaverOnly
<1> QED
  BY <1>1, <1>2, <1>3, <1>4 DEF TypeInv

(* The other processes signal and kill the saver, and leave its files. *)
LEMMA OthersLeaveFiles ==
  ASSUME TypeInv, OtherStep
  PROVE  /\ UNCHANGED <<run, setup, ply, saveLog>>
         /\ \/ saver' = saver
            \/ saver' = [saver EXCEPT !.signalled = TRUE]
            \/ saver' = [saver EXCEPT !.at = "dead", !.status = "signal"]
<1>1. CASE Play \/ BagEnds \/ BagObeys \/ Pump \/ Deadline
  BY <1>1 DEF Play, BagEnds, BagObeys, BagGone, Pump, Deadline, MainOnly
<1>2. CASE Interrupt \/ Main
  BY <1>2 DEF Interrupt, Main, GetNothing, GetLine, GetEnd, StopBag, StopSaver, MainOnly
<1> QED
  BY <1>1, <1>2 DEF OtherStep

LEMMA OthersKeepTypes == TypeInv /\ OtherStep => TypeInv'
<1> SUFFICES ASSUME TypeInv, OtherStep PROVE TypeInv'
  OBVIOUS
<1>1. saver' \in Saver
  <2>1. /\ saver \in Saver /\ "signal" \in Statuses
        /\ [saver EXCEPT !.at = "dead", !.status = "signal"]
             = [[saver EXCEPT !.at = "dead"] EXCEPT !.status = "signal"]
    BY DEF TypeInv, Statuses
  <2>2. [saver EXCEPT !.at = "dead"] \in Saver
    BY <2>1, SaverChanged DEF Places
  <2> QED
    BY <2>1, <2>2, SaverChanged, OthersLeaveFiles
<1>2. out' \in Seq(Lines) /\ queue' \in Seq(Lines)
  <2>1. CASE Pump
    <3>1. Tail(out) \in Seq(Lines) /\ Head(out) \in Lines
      BY <2>1, HeadTailProperties DEF Pump, TypeInv
    <3> QED
      BY <2>1, <3>1 DEF Pump, TypeInv
  <2>2. CASE GetLine
    <3>1. Tail(queue) \in Seq(Lines)
      BY <2>2, HeadTailProperties DEF GetLine, TypeInv
    <3> QED
      BY <2>2, <3>1 DEF GetLine, TypeInv, MainOnly
  <2>3. CASE Play \/ BagEnds \/ BagObeys \/ Deadline \/ Interrupt \/ GetNothing \/ GetEnd
             \/ StopBag \/ StopSaver
    BY <2>3 DEF Play, BagEnds, BagObeys, BagGone, Deadline, Interrupt, GetNothing, GetEnd, StopBag,
                StopSaver, MainOnly, TypeInv
  <2> QED
    BY <2>1, <2>2, <2>3 DEF OtherStep, Main
<1>3. /\ stage' \in Stages
      /\ bag' \in {"none", "playing", "signalled", "dead"}
  BY DEF OtherStep, Main, Play, BagEnds, BagObeys, BagGone, Pump, Deadline, Interrupt, GetNothing,
         GetLine, GetEnd, StopBag, StopSaver, Judge, Leave, TypeInv, Stages, Capturing
<1> QED
  BY <1>1, <1>2, <1>3, OthersLeaveFiles DEF TypeInv

(* After the capture only main moves, and it stays out of the capture. *)
LaterStep == Later \/ AnalysisFails \/ InterruptLater
LEMMA LaterOnlyMoves ==
  ASSUME TypeInv, LaterStep
  PROVE  /\ UNCHANGED <<run, setup, children, queue, overdue, reason>>
         /\ stage \notin Capturing \union {"exited"}
         /\ stage' \in Stages \ Capturing
         /\ stage' # "exited" => exit' = exit
         /\ stage' = "exited" => exit' \in {0, 2, 3, 130}
<1> USE DEF At, GoTo, Exit, Stages, Capturing
<1>1. CASE Collect \/ NoEncoder \/ EncodeOne
  BY <1>1 DEF Collect, NoEncoder, EncodeOne
<1>2. CASE EncodeEnds \/ FindPairs \/ NoDecoder
  BY <1>2 DEF EncodeEnds, FindPairs, NoDecoder
<1>3. CASE DecodeOne \/ DecodeEnds \/ MeasureOne
  BY <1>3 DEF DecodeOne, DecodeEnds, MeasureOne
<1>4. CASE MeasureEnds \/ AnalysisFails \/ InterruptLater
  BY <1>4 DEF MeasureEnds, AnalysisFails, InterruptLater
<1> QED
  BY <1>1, <1>2, <1>3, <1>4 DEF LaterStep, Later

LEMMA StartTyped == TypeInv /\ Start => TypeInv'
<1> SUFFICES ASSUME TypeInv, Start PROVE TypeInv'
  OBVIOUS
<1>1. out' = <<>> /\ queue' = <<>> /\ out' \in Seq(Lines) /\ queue' \in Seq(Lines)
  BY DEF Start, Launch
<1>2. saver' \in Saver
  <2>1. Idle \in Saver
    BY CaptureAssumption DEF Idle, Saver, Places, Statuses
  <2>2. saver' = [Idle EXCEPT !.at = "spin"]
    BY DEF Start, Launch
  <2> QED
    BY <2>1, <2>2, SaverChanged DEF Places
<1>3. /\ run' = run + 1 /\ run < Runs /\ stage' = "watch" /\ bag' \in {"none", "playing"}
      /\ ply' = ply /\ saveLog' = {}
  BY DEF Start, Launch
<1> QED
  BY <1>1, <1>2, <1>3, CaptureAssumption DEF TypeInv, Stages, Capturing

LEMMA NextSteps ==
  ASSUME [Next]_vars
  PROVE  \/ Start \/ LaterStep \/ UNCHANGED vars
         \/ (SaverStep \/ OtherStep) /\ UNCHANGED laterVars
  BY DEF Next, Capture, CaptureNext, LaterStep, SaverStep, OtherStep

LEMMA TypesKept == TypeInv /\ [Next]_vars => TypeInv'
<1> SUFFICES ASSUME TypeInv, [Next]_vars PROVE TypeInv'
  OBVIOUS
<1>1. CASE LaterStep
  BY <1>1, LaterOnlyMoves DEF TypeInv, children
<1>2. CASE UNCHANGED vars
  BY <1>2 DEF TypeInv, vars, captureVars, children
<1> QED
  BY <1>1, <1>2, NextSteps, StartTyped, SaverKeepsTypes, OthersKeepTypes

-----------------------------------------------------------------------------
(* The order in which the children end. *)
LEMMA ChildrenKept == TypeInv /\ ChildInv /\ [Next]_vars => ChildInv'
<1> SUFFICES ASSUME TypeInv, ChildInv, [Next]_vars PROVE ChildInv'
  OBVIOUS
<1> USE DEF ChildInv, Capturing, Dead
<1>1. CASE Start
  BY <1>1 DEF Start, Launch
<1>2. CASE SaverStep
  <2>1. saver.at # "dead" /\ UNCHANGED <<stage, bag>>
    BY <1>2 DEF SaverStep, SaverRuns, Skip, BeginSave, EndSave, OnTimer, SaverExits, SaverFails,
                SaverInterrupted, SaverOnly
  <2> QED
    BY <2>1
<1>3. CASE Play \/ BagEnds \/ BagObeys \/ Pump
  BY <1>3 DEF Play, BagEnds, BagObeys, BagGone, Pump
<1>4. CASE Deadline \/ Interrupt \/ GetNothing \/ GetLine \/ GetEnd
  BY <1>4 DEF Deadline, Interrupt, GetNothing, GetLine, GetEnd, Leave
<1>5. CASE StopBag
  BY <1>5 DEF StopBag
<1>6. CASE StopSaver
  <2>1. saver.at = "dead" => saver'.at = "dead"
    BY <1>6 DEF StopSaver
  <2>2. stage' \notin Capturing => saver'.at = "dead"
    BY <1>6, <2>1 DEF StopSaver, TypeInv, Saver
  <2> QED
    BY <1>6, <2>2 DEF StopSaver, Judge
<1>7. CASE LaterStep
  BY <1>7, LaterOnlyMoves DEF children
<1>8. CASE UNCHANGED vars
  BY <1>8 DEF vars, captureVars, children
<1> QED
  BY <1>1, <1>2, <1>3, <1>4, <1>5, <1>6, <1>7, <1>8, NextSteps DEF OtherStep, Main

(* The fields of the saver's record that tell who ended it. *)
LEMMA SaverEnds ==
  ASSUME TypeInv, SaverStep
  PROVE  /\ saver.at # "dead" /\ saver'.signalled = saver.signalled
         /\ saver.own => saver'.own
         /\ ~saver.signalled /\ saver'.at \notin {"spin", "saving"} =>
              saver'.own \/ saver.at \notin {"spin", "saving"}
         /\ saver'.status = "ok" => saver'.own \/ saver.status = "ok"
         /\ out' # out => \/ saver'.own
                         \/ out' = Append(out, "saved")
<1>1. saver \in Saver /\ "ok" \in Statuses /\ "failed" \in Statuses
  BY DEF TypeInv, Statuses
<1>2. CASE Skip \/ BeginSave
  BY <1>1, <1>2 DEF Skip, BeginSave, Saver
<1>3. CASE EndSave
  <2> DEFINE next == IF saver.saved <= LastIndex THEN saver.saved + 1 ELSE saver.saved
  <2>1. CASE Full
    <3>1. saver' = [Ending("ok") EXCEPT !.saved = next]
      BY <1>3, <2>1 DEF EndSave
    <3>2. saver'.own /\ saver'.signalled = saver.signalled
      <4> HIDE DEF next
      <4> QED
        BY <1>1, <3>1, EndingTyped DEF Saver
    <3> QED
      BY <1>3, <3>2 DEF EndSave
  <2>2. CASE ~Full
    BY <1>1, <1>3, <2>2 DEF EndSave, Saver
  <2> QED
    BY <2>1, <2>2
<1>4. CASE OnTimer \/ SaverFails
  BY <1>1, <1>4, EndingTyped DEF OnTimer, SaverFails
<1>5. CASE SaverExits
  BY <1>1, <1>5 DEF SaverExits, Saver
<1>6. CASE SaverInterrupted
  BY <1>1, <1>6 DEF SaverInterrupted, Saver
<1> QED
  BY <1>2, <1>3, <1>4, <1>5, <1>6 DEF SaverStep, SaverRuns

LEMMA SaverKeepsOwn == TypeInv /\ ChildInv /\ OwnInv /\ SaverStep => OwnInv'
<1> SUFFICES ASSUME TypeInv, ChildInv, OwnInv, SaverStep PROVE OwnInv'
  OBVIOUS
<1>1. UNCHANGED <<run, stage, exit, queue, reason>> /\ stage \in Capturing
  BY SaverEnds DEF SaverStep, SaverRuns, Skip, BeginSave, EndSave, OnTimer, SaverExits, SaverFails,
                   SaverInterrupted, SaverOnly, ChildInv, Dead
<1>2. \A k \in 1..Len(out') : out'[k] # "saved" => saver'.own
  <2>1. CASE out' = out
    BY <2>1, SaverEnds DEF OwnInv
  <2>2. CASE out' = Append(out, "saved")
    BY <2>2, SaverEnds DEF OwnInv, TypeInv
  <2> QED
    BY <2>1, <2>2, SaverEnds
<1>3. /\ run > 0 /\ ~saver'.signalled /\ saver'.at \notin {"spin", "saving"} => saver'.own
      /\ saver'.status = "ok" => saver'.own
  BY SaverEnds DEF OwnInv
<1> QED
  BY <1>1, <1>2, <1>3, SaverEnds DEF OwnInv, Capturing

LEMMA OthersKeepOwn == TypeInv /\ ChildInv /\ OwnInv /\ OtherStep => OwnInv'
<1> SUFFICES ASSUME TypeInv, ChildInv, OwnInv, OtherStep PROVE OwnInv'
  OBVIOUS
<1>1. CASE Play \/ BagEnds \/ BagObeys \/ Deadline
  BY <1>1 DEF Play, BagEnds, BagObeys, BagGone, Deadline, MainOnly, OwnInv
<1>2. CASE Pump
  <2>1. /\ UNCHANGED <<run, stage, exit, saver, reason>> /\ out # <<>> /\ out' = Tail(out)
        /\ queue' \in {queue, Append(queue, out[1])}
    BY <1>2 DEF Pump
  <2>2. /\ Len(out) \in Nat \ {0} /\ Len(out') = Len(out) - 1
        /\ \A k \in 1..Len(out') : out'[k] = out[k + 1]
    BY <2>1 DEF TypeInv
  <2>3. \A k \in 1..Len(out') : out'[k] # "saved" => saver.own
    BY <2>2 DEF OwnInv
  <2>4. out[1] # "saved" => saver.own
    BY <2>2 DEF OwnInv
  <2>5. \A k \in 1..Len(queue') : queue'[k] # "saved" => saver.own
    <3>1. CASE queue' = queue
      BY <3>1 DEF OwnInv
    <3>2. CASE queue' = Append(queue, out[1])
      <4>1. queue \in Seq(Lines) /\ Len(queue') = Len(queue) + 1 /\ queue'[Len(queue) + 1] = out[1]
            /\ \A k \in 1..Len(queue) : queue'[k] = queue[k]
        BY <3>2 DEF TypeInv
      <4> QED
        BY <4>1, <2>4 DEF OwnInv
    <3> QED
      BY <2>1, <3>1, <3>2
  <2> QED
    BY <2>1, <2>3, <2>5 DEF OwnInv
<1>3. CASE GetNothing \/ GetEnd
  BY <1>3 DEF GetNothing, GetEnd, EndOfOutput, Dead, Leave, MainOnly, OwnInv, Capturing, TypeInv
<1>4. CASE GetLine
  <2>1. /\ stage = "watch" /\ queue # <<>> /\ queue' = Tail(queue)
        /\ UNCHANGED <<run, exit, saver, out>>
        /\ \/ UNCHANGED <<stage, reason>>
           \/ queue[1] # "saved" /\ stage' = "stop_bag" /\ reason' = queue[1]
    BY <1>4 DEF GetLine, Leave, MainOnly
  <2>2. /\ Len(queue) \in Nat \ {0} /\ Len(queue') = Len(queue) - 1
        /\ \A k \in 1..Len(queue') : queue'[k] = queue[k + 1]
    BY <2>1 DEF TypeInv
  <2>3. /\ \A k \in 1..Len(queue') : queue'[k] # "saved" => saver.own
        /\ queue[1] # "saved" => saver.own
    BY <2>2 DEF OwnInv
  <2> QED
    BY <2>1, <2>3 DEF OwnInv, Capturing
<1>5. CASE Interrupt
  <2>1. saver'.own = saver.own /\ saver'.signalled /\ saver'.status = saver.status
    BY <1>5 DEF Interrupt, TypeInv, Saver
  <2> QED
    BY <1>5, <2>1 DEF Interrupt, Leave, MainOnly, OwnInv, Capturing
<1>6. CASE StopBag
  BY <1>6 DEF StopBag, MainOnly, OwnInv, Capturing
<1>7. CASE StopSaver
  <2>1. /\ UNCHANGED <<run, out, queue, reason>> /\ stage = "stop_saver" /\ run > 0
        /\ saver'.own = saver.own /\ (saver.signalled => saver'.signalled)
        /\ saver'.status = "ok" => saver.status = "ok"
        /\ saver'.at = saver.at \/ saver'.signalled
    BY <1>7 DEF StopSaver, TypeInv, Saver, MainOnly, OwnInv
  <2>2. \/ UNCHANGED stage
        \/ stage' = "collect" /\ saver.own
        \/ stage' = "exited" /\ exit' = 1
    BY <1>7, CaptureAssumption DEF StopSaver, Judge, SaverOk, OwnInv
  <2> QED
    BY <2>1, <2>2 DEF OwnInv, Capturing
<1> QED
  BY <1>1, <1>2, <1>3, <1>4, <1>5, <1>6, <1>7 DEF OtherStep, Main

LEMMA OwnKept == TypeInv /\ ChildInv /\ OwnInv /\ [Next]_vars => OwnInv'
<1> SUFFICES ASSUME TypeInv, ChildInv, OwnInv, [Next]_vars PROVE OwnInv'
  OBVIOUS
<1>1. CASE Start
  <2>1. /\ run' = run + 1 /\ stage' = "watch" /\ out' = <<>> /\ queue' = <<>> /\ reason' = None
        /\ saver' = [Idle EXCEPT !.at = "spin"]
    BY <1>1 DEF Start, Launch
  <2>2. saver'.at = "spin" /\ ~saver'.signalled /\ saver'.status = None
    BY <2>1 DEF Idle
  <2> QED
    BY <2>1, <2>2, CaptureAssumption DEF OwnInv, TypeInv, Capturing
<1>2. CASE LaterStep
  BY <1>2, LaterOnlyMoves DEF OwnInv, children, Capturing
<1>3. CASE UNCHANGED vars
  BY <1>3 DEF OwnInv, vars, captureVars, children
<1> QED
  BY <1>1, <1>2, <1>3, NextSteps, SaverKeepsOwn, OthersKeepOwn

LEMMA CaptureInvariance == Spec => [](TypeInv /\ ChildInv /\ OwnInv)
<1>1. TypeInv /\ ChildInv /\ OwnInv /\ [Next]_vars => (TypeInv /\ ChildInv /\ OwnInv)'
  BY TypesKept, ChildrenKept, OwnKept
<1> QED
  BY <1>1, InitOwn, PTL DEF Spec

(* The encoder and all that follows it run after both children have ended.   *)
THEOREM ChildrenEnd == Spec => []ChildrenGone
<1>1. ChildInv => ChildrenGone
  BY DEF ChildInv, ChildrenGone, Capturing
<1> QED
  BY <1>1, CaptureInvariance, PTL

(* A recording the pipeline cut off does not pass for a success. *)
THEOREM CutNeverPasses == Spec => []CutIsNotSuccess
<1>1. OwnInv => CutIsNotSuccess
  BY DEF OwnInv, CutIsNotSuccess
<1> QED
  BY <1>1, CaptureInvariance, PTL
-----------------------------------------------------------------------------
(* What the three directories and the logs hold. *)
DiskInv ==
  /\ drc \in [Indices -> Content] /\ decoded \in [Indices -> Content]
  /\ todo \subseteq Indices /\ pairs \subseteq Indices
  /\ rows \in [Indices -> [src : Cloud, dec : Cloud] \union {None, Unmeasured}]
  /\ DOMAIN cycle = Indices
  /\ stage # "exited" => exit = None

(* A frame in the saver's log was written in this run, and its index is past. *)
LogInv ==
  \A i \in saveLog : i < saver.saved /\ ply[i] = [run |-> run, whole |-> TRUE]

Encoded(i) == drc[i] # None /\ (~setup.reuse => drc[i] = ply[i])

(* What the encoder has done so far, and has done when the analysis runs. *)
EncodeInv ==
  /\ stage \in Capturing \union {"collect"} => encLog = {} /\ ~failed
  /\ \A i \in encLog : i \in Indices /\ drc[i] = ply[i]
  /\ stage = "encode" =>
       /\ todo \intersect encLog = {}
       /\ \A i \in Present(ply) \ todo : failed \/ Encoded(i)
  /\ stage \in {"pairs", "decode", "measure"} \/ exit = 0 =>
       \A i \in Present(ply) : Encoded(i)

Measured(i) == rows[i] \notin {None, Unmeasured}

(* Rows and columns are of the files that are there. *)
RowInv ==
  /\ stage \in Capturing \union {"collect"} => \A i \in Indices : ~Measured(i)
  /\ \A i \in Indices : Measured(i) => rows[i].src = ply[i]
  /\ \A i \in Indices : cycle[i] = AllColumns => i \in saveLog /\ i \in encLog /\ Measured(i)
  /\ stage # "exited" => \A i \in Indices : cycle[i] # AllColumns

FilesInv == DiskInv /\ LogInv /\ EncodeInv /\ RowInv

LEMMA NoFullTimes == \A i \in Indices : NoTimes[i] # AllColumns
  BY DEF NoTimes, AllColumns

LEMMA InitFiles == Init => FilesInv
<1> SUFFICES ASSUME Init PROVE FilesInv
  OBVIOUS
<1> USE CaptureAssumption, ContentAssumption DEF Init, CaptureInit
<1>1. DiskInv
  BY DEF DiskInv, Content, NoRows, NoTimes
<1>2. LogInv /\ EncodeInv
  BY DEF LogInv, EncodeInv, Capturing, Present
<1>3. RowInv
  BY NoFullTimes DEF RowInv, Measured, Capturing, NoRows
<1> QED
  BY <1>1, <1>2, <1>3 DEF FilesInv

LEMMA StartKeepsFiles == TypeInv /\ FilesInv /\ Start => FilesInv'
<1> SUFFICES ASSUME TypeInv, FilesInv, Start PROVE FilesInv'
  OBVIOUS
<1>1. /\ stage' = "watch" /\ exit' = None /\ saveLog' = {} /\ ply' = ply
      /\ todo' = {} /\ pairs' = {} /\ failed' = FALSE /\ encLog' = {}
      /\ rows' = NoRows /\ cycle' = NoTimes /\ drc' = drc /\ decoded' = decoded
  BY DEF Start, Launch
<1> USE CaptureAssumption, ContentAssumption, <1>1
<1>2. DiskInv'
  BY DEF FilesInv, DiskInv, NoRows, NoTimes
<1>3. LogInv' /\ EncodeInv'
  BY DEF LogInv, EncodeInv, Capturing
<1>4. RowInv'
  BY NoFullTimes DEF RowInv, Measured, NoRows
<1> QED
  BY <1>2, <1>3, <1>4 DEF FilesInv

(* During the capture the saver writes the PLY files, each index once. *)
LEMMA SaverKeepsFiles ==
  TypeInv /\ ChildInv /\ FilesInv /\ SaverStep /\ UNCHANGED laterVars => FilesInv'
<1> SUFFICES ASSUME TypeInv, ChildInv, FilesInv, SaverStep, UNCHANGED laterVars PROVE FilesInv'
  OBVIOUS
<1>1. UNCHANGED <<run, setup, stage, exit>> /\ stage \in Capturing
  BY SaverEnds DEF SaverStep, SaverRuns, Skip, BeginSave, EndSave, OnTimer, SaverExits, SaverFails,
                   SaverInterrupted, SaverOnly, ChildInv, Dead
<1> USE CaptureAssumption DEF laterVars, poolVars
<1>2. DiskInv'
  BY <1>1 DEF FilesInv, DiskInv
<1>3. EncodeInv'
  BY <1>1 DEF FilesInv, EncodeInv, DiskInv, Capturing
<1>4. RowInv'
  BY <1>1 DEF FilesInv, RowInv, Measured, Capturing
<1>5. LogInv'
  <2>1. CASE EndSave
    <3>1. saver'.saved >= saver.saved /\ (saver.saved \in Indices => saver'.saved = saver.saved + 1)
      <4> DEFINE next == IF saver.saved <= LastIndex THEN saver.saved + 1 ELSE saver.saved
      <4>1. saver'.saved = next
        <5>1. \/ saver' = [Ending("ok") EXCEPT !.saved = next]
              \/ saver' = [saver EXCEPT !.at = "spin", !.saved = next]
          BY <2>1 DEF EndSave
        <5> HIDE DEF next
        <5>2. Ending("ok") \in Saver
          BY EndingTyped DEF TypeInv, Statuses
        <5> QED
          BY <5>1, <5>2 DEF TypeInv, Saver
      <4>2. saver.saved \in Nat
        BY DEF TypeInv, Saver
      <4> QED
        BY <4>1, <4>2 DEF Indices
    <3>2. /\ saveLog' = saveLog \union ({saver.saved} \intersect Indices)
          /\ ply' = Written(TRUE)
      BY <2>1 DEF EndSave
    <3>3. \A i \in Indices : i # saver.saved => ply'[i] = ply[i]
      BY <3>2 DEF Written, TypeInv
    <3>4. saver.saved \in Indices => ply'[saver.saved] = [run |-> run, whole |-> TRUE]
      BY <3>2 DEF Written, TypeInv
    <3>5. saver.saved \in Nat /\ saver'.saved \in Nat
      BY SaverTyped DEF TypeInv, Saver
    <3>6. ASSUME NEW i \in saveLog
          PROVE  i < saver'.saved /\ ply'[i] = [run |-> run', whole |-> TRUE]
      <4>1. i \in Indices /\ i \in Nat /\ i < saver.saved /\ ply[i] = [run |-> run, whole |-> TRUE]
        <5>1. i \in Indices
          BY DEF TypeInv
        <5>2. i \in Nat
          BY <5>1, CaptureAssumption DEF Indices
        <5>3. i < saver.saved /\ ply[i] = [run |-> run, whole |-> TRUE]
          BY DEF FilesInv, LogInv
        <5> QED
          BY <5>1, <5>2, <5>3
      <4> QED
        BY <1>1, <3>1, <3>3, <3>5, <4>1
    <3>7. ASSUME saver.saved \in Indices
          PROVE  /\ saver.saved < saver'.saved
                 /\ ply'[saver.saved] = [run |-> run', whole |-> TRUE]
      BY <1>1, <3>1, <3>4, <3>5, <3>7
    <3> QED
      BY <3>2, <3>6, <3>7 DEF LogInv
  <2>2. CASE ~EndSave
    <3>1. saver'.saved = saver.saved /\ saveLog' = saveLog /\ ply' \in {ply, Written(FALSE)}
      <4>1. CASE OnTimer \/ SaverFails
        BY <4>1, EndingTyped DEF OnTimer, SaverFails, TypeInv, Statuses
      <4> QED
        BY <2>2, <4>1 DEF SaverStep, SaverRuns, Skip, BeginSave, SaverExits,
                          SaverInterrupted, TypeInv, Saver
    <3>2. \A i \in saveLog : i # saver.saved /\ i \in Indices
      BY DEF FilesInv, LogInv, TypeInv, Saver, Indices
    <3>3. \A i \in saveLog : ply'[i] = ply[i]
      BY <3>1, <3>2 DEF Written, TypeInv
    <3> QED
      BY <1>1, <3>1, <3>3 DEF FilesInv, LogInv
  <2> QED
    BY <2>1, <2>2
<1> QED
  BY <1>2, <1>3, <1>4, <1>5 DEF FilesInv

LEMMA OthersMove ==
  ASSUME TypeInv, OtherStep
  PROVE  /\ saver'.saved = saver.saved
         /\ \/ UNCHANGED <<stage, exit>>
            \/ /\ stage \in Capturing /\ stage' \in Capturing \union {"collect"}
               /\ exit' = exit
            \/ stage \in Capturing /\ stage' = "exited" /\ exit' = 1
<1>1. saver'.saved = saver.saved
  BY OthersLeaveFiles DEF TypeInv, Saver
<1>2. CASE Play \/ BagEnds \/ BagObeys \/ Pump \/ Deadline
  BY <1>1, <1>2 DEF Play, BagEnds, BagObeys, BagGone, Pump, Deadline
<1>3. CASE Interrupt \/ GetNothing \/ GetLine \/ GetEnd \/ StopBag
  BY <1>1, <1>3 DEF Interrupt, GetNothing, GetLine, GetEnd, StopBag, Leave, Capturing
<1>4. CASE StopSaver
  BY <1>1, <1>4 DEF StopSaver, Judge, Capturing
<1> QED
  BY <1>2, <1>3, <1>4 DEF OtherStep, Main

LEMMA OthersKeepFiles == TypeInv /\ FilesInv /\ OtherStep /\ UNCHANGED laterVars => FilesInv'
<1> SUFFICES ASSUME TypeInv, FilesInv, OtherStep, UNCHANGED laterVars PROVE FilesInv'
  OBVIOUS
<1> USE CaptureAssumption, OthersLeaveFiles, OthersMove DEF laterVars, poolVars, Capturing
<1>1. DiskInv'
  BY DEF FilesInv, DiskInv
<1>2. LogInv'
  BY DEF FilesInv, LogInv
<1>3. EncodeInv'
  BY DEF FilesInv, EncodeInv, DiskInv, Encoded, Present
<1>4. RowInv'
  BY DEF FilesInv, RowInv, Measured
<1> QED
  BY <1>1, <1>2, <1>3, <1>4 DEF FilesInv

(* After the capture no PLY file and no log of the saver changes. *)
LEMMA LaterKeepsFiles == TypeInv /\ FilesInv /\ LaterStep => FilesInv'
<1> SUFFICES ASSUME TypeInv, FilesInv, LaterStep PROVE FilesInv'
  OBVIOUS
<1>1. /\ UNCHANGED <<run, setup, saver, ply, saveLog>>
      /\ stage \notin Capturing \union {"exited"} /\ stage' \in Stages \ Capturing
      /\ exit = None /\ (stage' # "exited" => exit' = None)
  BY LaterOnlyMoves DEF children, FilesInv, DiskInv
<1>2. LogInv'
  BY <1>1 DEF FilesInv, LogInv
<1>3. ASSUME NEW i \in Indices
      PROVE  /\ ply[i] \in Cloud \union {None} /\ Cut # None /\ ply[i] # Cut
             /\ drc[i] \in Content
  BY ContentAssumption DEF TypeInv, FilesInv, DiskInv
<1> USE CaptureAssumption DEF At, GoTo, Exit, Capturing
<1>4. CASE Collect \/ NoEncoder
  <2>1. DiskInv'
    BY <1>4, <1>1 DEF Collect, NoEncoder, FilesInv, DiskInv, laterVars, poolVars, Present
  <2>2. EncodeInv'
    BY <1>4, <1>1 DEF Collect, NoEncoder, FilesInv, EncodeInv, laterVars, poolVars, Present
  <2>3. RowInv'
    BY <1>4, <1>1 DEF Collect, NoEncoder, FilesInv, RowInv, Measured, laterVars, poolVars
  <2> QED
    BY <1>2, <2>1, <2>2, <2>3 DEF FilesInv
<1>5. CASE EncodeOne
  <2>1. PICK i \in todo :
          /\ todo' = todo \ {i}
          /\ \/ /\ Reused(i)
                /\ UNCHANGED <<drc, failed, encLog>>
             \/ /\ ~Reused(i)
                /\ drc' = [drc EXCEPT ![i] = ply[i]]
                /\ encLog' = encLog \union {i}
                /\ UNCHANGED failed
             \/ /\ ~Reused(i)
                /\ \E c \in {drc[i], Cut} : drc' = [drc EXCEPT ![i] = c]
                /\ failed' = TRUE
                /\ UNCHANGED encLog
    BY <1>5 DEF EncodeOne
  <2>2. /\ stage = "encode" /\ stage' = "encode" /\ exit' = exit /\ exit = None
        /\ UNCHANGED <<decoded, pairs, rows, cycle>> /\ i \in Indices
    BY <1>5, <1>1, <2>1 DEF EncodeOne, FilesInv, DiskInv
  <2>3. drc' \in [Indices -> Content]
    BY <2>1, <2>2, <1>3 DEF FilesInv, DiskInv, Content, TypeInv
  <2>4. DiskInv'
    BY <2>1, <2>2, <2>3, <1>1 DEF FilesInv, DiskInv
  <2>5. /\ \A j \in Indices \ {i} : drc'[j] = drc[j]
        /\ \/ drc'[i] = drc[i] /\ Reused(i) /\ encLog' = encLog /\ failed' = failed
           \/ drc'[i] = ply[i] /\ encLog' = encLog \union {i} /\ failed' = failed
           \/ encLog' = encLog /\ failed'
    BY <2>1, <2>2 DEF FilesInv, DiskInv
  <2>6. /\ \A j \in encLog : j # i /\ j \in Indices /\ drc[j] = ply[j] /\ j \notin todo
        /\ \A j \in Present(ply) \ todo : failed \/ Encoded(j)
    BY <2>1, <2>2 DEF FilesInv, EncodeInv
  <2>7. \A j \in Present(ply') \ todo' : failed' \/ Encoded(j)'
    <3> SUFFICES ASSUME NEW j \in Indices, ply[j] # None, j \notin todo', ~failed'
                 PROVE  drc'[j] # None /\ (~setup.reuse => drc'[j] = ply[j])
      BY <1>1 DEF Present, Encoded
    <3>1. CASE j = i
      BY <3>1, <2>5 DEF Reused
    <3>2. CASE j # i
      <4>1. j \notin todo /\ drc'[j] = drc[j] /\ ~failed
        BY <3>2, <2>1, <2>5
      <4> QED
        BY <4>1, <2>6 DEF Present, Encoded
    <3> QED
      BY <3>1, <3>2
  <2>8. EncodeInv'
    BY <2>1, <2>2, <2>5, <2>6, <2>7, <1>1 DEF EncodeInv
  <2>9. RowInv'
    BY <2>2, <2>5, <1>1 DEF FilesInv, RowInv, Measured
  <2> QED
    BY <1>2, <2>4, <2>8, <2>9 DEF FilesInv
<1>6. ASSUME cycle' = CycleTimes, UNCHANGED <<encLog, rows>>
      PROVE  \A i \in Indices : cycle'[i] = AllColumns => i \in saveLog /\ i \in encLog /\ Measured(i)
  <2> SUFFICES ASSUME NEW i \in Indices, cycle'[i] = AllColumns
               PROVE  i \in saveLog /\ i \in encLog /\ Measured(i)
    OBVIOUS
  <2>1. cycle'[i] = Columns(i) \/ cycle'[i] = {}
    BY <1>6 DEF CycleTimes
  <2>2. Columns(i) = AllColumns
    BY <2>1 DEF AllColumns
  <2>3. "save" \in Columns(i) /\ "encode" \in Columns(i) /\ "metric" \in Columns(i)
    BY <2>2 DEF AllColumns
  <2> QED
    BY <2>3 DEF Columns, Measured
<1>7. CASE EncodeEnds
  <2>1. UNCHANGED <<drc, decoded, todo, pairs, failed, encLog, rows>> /\ stage = "encode" /\ todo = {}
    BY <1>7 DEF EncodeEnds
  <2>2. /\ \/ failed /\ stage' = "exited" /\ exit' = 2 /\ cycle' = cycle
           \/ ~failed /\ stage' = "pairs" /\ cycle' = cycle
           \/ ~failed /\ stage' = "exited" /\ cycle' = CycleTimes
    BY <1>7 DEF EncodeEnds
  <2>3. DiskInv'
    BY <2>1, <2>2, <1>1 DEF FilesInv, DiskInv, CycleTimes
  <2>4. EncodeInv'
    BY <2>1, <2>2, <1>1 DEF FilesInv, EncodeInv, Encoded, Present
  <2>5. RowInv'
    BY <2>1, <2>2, <1>1, <1>6 DEF FilesInv, RowInv, Measured
  <2> QED
    BY <1>2, <2>3, <2>4, <2>5 DEF FilesInv
<1>8. CASE FindPairs \/ NoDecoder
  <2>1. /\ UNCHANGED <<drc, decoded, failed, encLog, rows>> /\ stage = "pairs"
        /\ stage' \in {"exited", "decode"} /\ cycle' \in {cycle, CycleTimes}
        /\ stage' # "exited" => cycle' = cycle
        /\ todo' \subseteq Indices /\ pairs' \subseteq Indices
    BY <1>8 DEF FindPairs, NoDecoder, laterVars, poolVars, Present, FilesInv, DiskInv
  <2>3. DiskInv'
    BY <2>1, <1>1 DEF FilesInv, DiskInv, CycleTimes
  <2>4. EncodeInv'
    BY <2>1, <1>1 DEF FilesInv, EncodeInv, Encoded, Present
  <2>5. RowInv'
    BY <2>1, <1>1, <1>6 DEF FilesInv, RowInv, Measured
  <2> QED
    BY <1>2, <2>3, <2>4, <2>5 DEF FilesInv
<1>9. CASE DecodeOne \/ DecodeEnds
  <2>1. /\ UNCHANGED <<drc, pairs, failed, encLog, rows, cycle>> /\ stage = "decode"
        /\ stage' \in {"decode", "measure"} /\ todo' \subseteq Indices
    BY <1>9 DEF DecodeOne, DecodeEnds, FilesInv, DiskInv
  <2>2. decoded' \in [Indices -> Content]
    <3>1. CASE DecodeOne
      <4>1. PICK i \in todo : \E c \in {drc[i], decoded[i], Cut} : decoded' = [decoded EXCEPT ![i] = c]
        BY <3>1 DEF DecodeOne
      <4> QED
        BY <4>1 DEF FilesInv, DiskInv, Content
    <3>2. CASE DecodeEnds
      BY <3>2 DEF DecodeEnds, FilesInv, DiskInv
    <3> QED
      BY <1>9, <3>1, <3>2
  <2>3. DiskInv'
    BY <2>1, <2>2, <1>1 DEF FilesInv, DiskInv
  <2>4. EncodeInv'
    BY <2>1, <1>1 DEF FilesInv, EncodeInv, Encoded, Present
  <2>5. RowInv'
    BY <2>1, <1>1 DEF FilesInv, RowInv, Measured
  <2> QED
    BY <1>2, <2>3, <2>4, <2>5 DEF FilesInv
<1>10. CASE MeasureOne
  <2> DEFINE Rows(i) == {Unmeasured} \union
               (IF Readable(ply[i]) /\ decoded[i] \notin {None, Cut}
                THEN {[src |-> ply[i], dec |-> decoded[i]]} ELSE {})
  <2>0. PICK i \in todo :
          todo' = todo \ {i} /\ \E row \in Rows(i) : rows' = [rows EXCEPT ![i] = row]
    BY <1>10 DEF MeasureOne
  <2>1. PICK row \in Rows(i) : rows' = [rows EXCEPT ![i] = row]
    BY <2>0
  <2>2. /\ UNCHANGED <<drc, decoded, pairs, failed, encLog, cycle>> /\ i \in Indices
        /\ stage = "measure" /\ stage' = "measure"
    BY <1>10, <2>0 DEF MeasureOne, FilesInv, DiskInv
  <2>3. row # Unmeasured => row \in [src : Cloud, dec : Cloud] /\ row.src = ply[i]
    <3>1. decoded[i] \in Content /\ ply[i] \in Cloud \union {None}
      BY <2>2 DEF FilesInv, DiskInv, TypeInv
    <3> QED
      BY <2>1, <3>1 DEF Content, Readable
  <2>4. DiskInv'
    BY <2>0, <2>1, <2>2, <2>3, <1>1 DEF FilesInv, DiskInv
  <2>5. EncodeInv'
    BY <2>2, <1>1 DEF FilesInv, EncodeInv, Encoded, Present
  <2>6. \A j \in Indices : Measured(j)' => rows'[j].src = ply[j]
    <3> SUFFICES ASSUME NEW j \in Indices, Measured(j)' PROVE rows'[j].src = ply[j]
      OBVIOUS
    <3>1. CASE j = i
      BY <3>1, <2>1, <2>2, <2>3 DEF FilesInv, DiskInv, Measured
    <3>2. CASE j # i
      BY <3>2, <2>1, <2>2 DEF FilesInv, DiskInv, RowInv, Measured
    <3> QED
      BY <3>1, <3>2
  <2>7. RowInv'
    BY <2>2, <2>6, <1>1 DEF FilesInv, RowInv
  <2> QED
    BY <1>2, <2>4, <2>5, <2>7 DEF FilesInv
<1>11. CASE MeasureEnds
  <2>1. /\ UNCHANGED <<drc, todo, pairs, failed, encLog, rows>> /\ cycle' = CycleTimes
        /\ stage = "measure" /\ stage' = "exited"
        /\ decoded' \in {decoded, [i \in Indices |-> IF i \in pairs THEN None ELSE decoded[i]]}
    BY <1>11 DEF MeasureEnds
  <2>2. DiskInv'
    BY <2>1, <1>1 DEF FilesInv, DiskInv, Content, CycleTimes
  <2>3. EncodeInv'
    BY <2>1, <1>1 DEF FilesInv, EncodeInv, Encoded, Present
  <2>4. RowInv'
    BY <2>1, <1>1, <1>6 DEF FilesInv, RowInv, Measured
  <2> QED
    BY <1>2, <2>2, <2>3, <2>4 DEF FilesInv
<1>12. CASE AnalysisFails
  <2>1. UNCHANGED laterVars /\ stage \in {"decode", "measure"} /\ stage' = "exited"
    BY <1>12 DEF AnalysisFails
  <2>2. DiskInv' /\ EncodeInv' /\ RowInv'
    BY <2>1, <1>1
    DEF laterVars, poolVars, FilesInv, DiskInv, EncodeInv, RowInv, Measured, Encoded, Present
  <2> QED
    BY <1>2, <2>2 DEF FilesInv
<1>13. CASE InterruptLater
  <2>1. /\ UNCHANGED <<todo, pairs, failed, encLog, rows, cycle>>
        /\ stage \in {"encode", "decode", "measure"} /\ stage' = "exited" /\ exit' = 130
    BY <1>13 DEF InterruptLater, poolVars
  <2>2. PICK cut \in SUBSET todo :
          /\ drc' = IF stage = "encode"
                    THEN [i \in Indices |-> IF Reused(i) THEN drc[i]
                                            ELSE [j \in Indices |-> IF j \in cut THEN Cut ELSE drc[j]][i]]
                    ELSE drc
          /\ decoded' = IF stage = "decode"
                        THEN [j \in Indices |-> IF j \in cut THEN Cut ELSE decoded[j]]
                        ELSE decoded
    BY <1>13 DEF InterruptLater
  <2>3. DiskInv'
    BY <2>1, <2>2, <1>1 DEF FilesInv, DiskInv, Content
  <2>4. \A i \in encLog : i \in Indices /\ drc'[i] = ply[i]
    BY <2>1, <2>2, <1>1 DEF FilesInv, EncodeInv
  <2>5. EncodeInv'
    BY <2>1, <2>4, <1>1 DEF EncodeInv
  <2>6. RowInv'
    BY <2>1, <1>1 DEF FilesInv, RowInv, Measured
  <2> QED
    BY <1>2, <2>3, <2>5, <2>6 DEF FilesInv
<1> QED
  BY <1>4, <1>5, <1>7, <1>8, <1>9, <1>10, <1>11, <1>12, <1>13 DEF LaterStep, Later

LEMMA FilesKept == TypeInv /\ ChildInv /\ FilesInv /\ [Next]_vars => FilesInv'
<1> SUFFICES ASSUME TypeInv, ChildInv, FilesInv, [Next]_vars PROVE FilesInv'
  OBVIOUS
<1>1. CASE UNCHANGED vars
  <2>1. UNCHANGED <<run, setup, stage, exit, saver, ply, saveLog, drc, decoded, todo, pairs,
                    failed, encLog, rows, cycle>>
    BY <1>1 DEF vars, captureVars, children, laterVars, poolVars
  <2> QED
    BY <2>1 DEF FilesInv, DiskInv, LogInv, EncodeInv, RowInv, Encoded, Present, Measured
<1> QED
  BY <1>1, NextSteps, StartKeepsFiles, SaverKeepsFiles, OthersKeepFiles, LaterKeepsFiles

LEMMA FilesInvariance == Spec => [](TypeInv /\ FilesInv)
<1>1. Init => TypeInv /\ ChildInv /\ FilesInv
  BY InitOwn, InitFiles
<1>2. TypeInv /\ ChildInv /\ FilesInv /\ [Next]_vars => (TypeInv /\ ChildInv /\ FilesInv)'
  BY TypesKept, ChildrenKept, FilesKept
<1> QED
  BY <1>1, <1>2, PTL DEF Spec

-----------------------------------------------------------------------------
(* The rest of the types. *)
CountInv == left \in 0..Clouds /\ printed \in 0..PipeSlots /\ inbox \in 0..Depth
TimesInv == cycle \in [Indices -> SUBSET AllColumns]
RestInv ==
  /\ setup \in Setups /\ exit \in {None, 0, 1, 2, 3, 130}
  /\ overdue \in BOOLEAN /\ reason \in Reasons
  /\ failed \in BOOLEAN /\ encLog \subseteq Indices
  /\ CountInv /\ TimesInv

LEMMA CycleTimesTyped == CycleTimes \in [Indices -> SUBSET AllColumns]
<1>1. ASSUME NEW i PROVE Columns(i) \subseteq AllColumns
  BY DEF Columns
<1> QED
  BY <1>1 DEF CycleTimes

LEMMA NoTimesTyped == NoTimes \in [Indices -> SUBSET AllColumns]
  BY DEF NoTimes

LEMMA InitRest == Init => RestInv
<1> SUFFICES ASSUME Init PROVE RestInv
  OBVIOUS
<1>1. CountInv
  BY CaptureAssumption DEF Init, CaptureInit, CountInv
<1>2. TimesInv
  BY NoTimesTyped DEF Init, TimesInv
<1> QED
  BY <1>1, <1>2 DEF Init, CaptureInit, RestInv, Reasons

LEMMA StartKeepsRest == RestInv /\ Start => RestInv'
<1> SUFFICES ASSUME RestInv, Start PROVE RestInv'
  OBVIOUS
<1>1. CountInv'
  BY CaptureAssumption DEF Start, Launch, CountInv
<1>2. TimesInv'
  BY NoTimesTyped DEF Start, TimesInv
<1> QED
  BY <1>1, <1>2 DEF Start, Launch, RestInv, Reasons

LEMMA SaverKeepsRest == RestInv /\ SaverStep /\ UNCHANGED laterVars => RestInv'
<1> SUFFICES ASSUME RestInv, SaverStep, UNCHANGED laterVars PROVE RestInv'
  OBVIOUS
<1>1. /\ UNCHANGED <<setup, exit, left, printed, overdue, reason>>
      /\ inbox' = inbox \/ (inbox > 0 /\ inbox' = inbox - 1)
  BY DEF SaverStep, SaverRuns, Skip, BeginSave, EndSave, OnTimer, SaverExits, SaverFails,
         SaverInterrupted, SaverOnly
<1>2. CountInv'
  BY <1>1, CaptureAssumption DEF RestInv, CountInv
<1>3. TimesInv'
  BY DEF RestInv, TimesInv, laterVars, poolVars
<1> QED
  BY <1>1, <1>2, <1>3 DEF RestInv, laterVars, poolVars

LEMMA OthersKeepRest == TypeInv /\ RestInv /\ OtherStep /\ UNCHANGED laterVars => RestInv'
<1> SUFFICES ASSUME TypeInv, RestInv, OtherStep, UNCHANGED laterVars PROVE RestInv'
  OBVIOUS
<1>1. CountInv'
  <2>1. CASE Play
    <3>1. /\ left > 0 /\ left' \in {left, left - 1}
          /\ inbox' \in {inbox, IF inbox < Depth THEN inbox + 1 ELSE inbox}
      BY <2>1 DEF Play
    <3>2. printed' = printed \/ (printed # PipeSlots /\ printed' = printed + 1)
      BY <2>1 DEF Play, Blocked, TypeInv
    <3> QED
      BY <3>1, <3>2, CaptureAssumption DEF RestInv, CountInv
  <2>2. CASE ~Play
    <3>1. UNCHANGED <<left, printed, inbox>>
      BY <2>2 DEF OtherStep, Main, BagEnds, BagObeys, BagGone, Pump, Deadline, Interrupt, GetNothing,
                  GetLine, GetEnd, StopBag, StopSaver, MainOnly
    <3> QED
      BY <3>1 DEF RestInv, CountInv
  <2> QED
    BY <2>1, <2>2
<1>2. TimesInv'
  BY DEF RestInv, TimesInv, laterVars, poolVars
<1>3. reason' \in Reasons
  <2>1. CASE GetLine
    <3>1. queue # <<>> => Head(queue) \in Lines
      BY HeadTailProperties DEF TypeInv
    <3> QED
      BY <2>1, <3>1 DEF GetLine, Leave, Lines, Reasons, RestInv
  <2>2. CASE ~GetLine
    BY <2>2 DEF OtherStep, Main, Play, BagEnds, BagObeys, BagGone, Pump, Deadline, Interrupt,
                GetNothing, GetEnd, StopBag, StopSaver, Leave, Reasons, RestInv
  <2> QED
    BY <2>1, <2>2
<1>4. /\ exit' = exit \/ exit' = 1
      /\ setup' = setup /\ overdue' \in BOOLEAN
  BY DEF OtherStep, Main, Play, BagEnds, BagObeys, BagGone, Pump, Deadline, Interrupt, GetNothing,
         GetLine, GetEnd, StopBag, StopSaver, Judge, MainOnly, RestInv
<1> QED
  BY <1>1, <1>2, <1>3, <1>4 DEF RestInv, laterVars, poolVars

LEMMA LaterKeepsRest == TypeInv /\ DiskInv /\ RestInv /\ LaterStep => RestInv'
<1> SUFFICES ASSUME TypeInv, DiskInv, RestInv, LaterStep PROVE RestInv'
  OBVIOUS
<1>1. /\ UNCHANGED <<setup, left, printed, inbox, overdue, reason>>
      /\ exit' = exit \/ exit' \in {0, 2, 3, 130}
  BY LaterOnlyMoves DEF children, Stages, Capturing
<1>2. cycle' \in {cycle, CycleTimes}
  BY DEF LaterStep, Later, Collect, NoEncoder, EncodeOne, EncodeEnds, FindPairs, NoDecoder, DecodeOne,
         DecodeEnds, MeasureOne, MeasureEnds, AnalysisFails, InterruptLater, laterVars, poolVars
<1>3. failed' \in BOOLEAN /\ encLog' \subseteq Indices
  <2>1. CASE EncodeOne
    BY <2>1 DEF EncodeOne, RestInv, DiskInv
  <2>2. CASE ~EncodeOne
    BY <2>2 DEF LaterStep, Later, Collect, NoEncoder, EncodeEnds, FindPairs, NoDecoder, DecodeOne,
           DecodeEnds, MeasureOne, MeasureEnds, AnalysisFails, InterruptLater, laterVars, poolVars, RestInv
  <2> QED
    BY <2>1, <2>2
<1>4. CountInv'
  BY <1>1 DEF RestInv, CountInv
<1>5. TimesInv'
  BY <1>2, CycleTimesTyped DEF RestInv, TimesInv
<1> QED
  BY <1>1, <1>3, <1>4, <1>5 DEF RestInv

(* Every variable keeps its type, for any number of runs and any bounds. *)
THEOREM TypeCorrect == Spec => []TypeOK
<1> DEFINE Inv == TypeInv /\ ChildInv /\ FilesInv /\ RestInv
<1>1. Init => Inv
  BY InitOwn, InitFiles, InitRest
<1>2. Inv /\ [Next]_vars => Inv'
  <2> SUFFICES ASSUME Inv, [Next]_vars PROVE Inv'
    OBVIOUS
  <2>1. TypeInv' /\ ChildInv' /\ FilesInv'
    BY TypesKept, ChildrenKept, FilesKept
  <2>2. RestInv'
    <3>1. CASE UNCHANGED vars
      BY <3>1 DEF RestInv, CountInv, TimesInv, vars, captureVars, children, laterVars, poolVars
    <3> QED
      BY <3>1, NextSteps, StartKeepsRest, SaverKeepsRest, OthersKeepRest, LaterKeepsRest DEF FilesInv
  <2> QED
    BY <2>1, <2>2
<1>3. Inv => TypeOK
  BY DEF TypeInv, FilesInv, DiskInv, RestInv, CountInv, TimesInv, TypeOK, CaptureTypeOK, Saver, Places
<1> QED
  BY <1>1, <1>2, <1>3, PTL DEF Spec

-----------------------------------------------------------------------------
(* A run that succeeds leaves no PLY file without its .drc, and without      *)
(* --reuse-drc none that holds another cloud than its PLY file: the exit     *)
(* status of main, after any earlier runs over the same directories.         *)
THEOREM SuccessIsEncoded == Spec => []EncodedIsCurrent
<1>1. FilesInv => EncodedIsCurrent
  BY DEF FilesInv, EncodeInv, Encoded, EncodedIsCurrent
<1> QED
  BY <1>1, FilesInvariance, PTL

(* A full row of _aggregate_cycle_times joins the three logs of one frame of *)
(* this run, although the names it joins them by are those of every run.     *)
THEOREM TimesAreOfThisRun == Spec => []CycleIsOfThisRun
<1>1. FilesInv => CycleIsOfThisRun
  BY DEF FilesInv, LogInv, EncodeInv, RowInv, CycleIsOfThisRun
<1> QED
  BY <1>1, FilesInvariance, PTL

=============================================================================
