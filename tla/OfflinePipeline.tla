-------------------------- MODULE OfflinePipeline --------------------------
(***************************************************************************)
(* draco_tools/offline_pipeline.py: several runs, one after the other, of  *)
(* capture (OfflineCapture), encoding (cli/encode_ply_to_draco.py), quality *)
(* analysis (analysis/analyze_draco_quality.py) and the table of times.    *)
(*                                                                         *)
(* The runs share three directories and nobody empties them: PLY files are *)
(* written from index 0 again, .drc files are replaced or with --reuse-drc *)
(* kept, decoded files are removed at the end of an analysis that ends.    *)
(* What a file holds is the cloud it came from; Cut is a file that ends    *)
(* too early.  The workers of a pool each take one file of their own, so   *)
(* a file's work is one step and the files come in any order.              *)
(***************************************************************************)
EXTENDS OfflineCapture

CONSTANTS Cut, Unmeasured

ASSUME ContentAssumption == Cut # None /\ {Cut, None, Unmeasured} \intersect Cloud = {}

VARIABLES
  drc,      \* the directory of the .drc files
  decoded,  \* the directory of the decoded files
  todo,     \* the files the current pool has still to work at
  pairs,    \* find_pairs: the files the analysis is about
  failed,   \* the encoder counted a failure
  encLog,   \* the encoder's CSV of this run: the frames it lists
  rows,     \* the quality CSV of this run
  cycle     \* the table of times of this run: the columns that have a value

poolVars == <<todo, pairs, failed, encLog, rows, cycle>>
laterVars == <<drc, decoded, poolVars>>
vars == <<captureVars, laterVars>>

Present(dir) == {i \in Indices : dir[i] # None}
NoRows == [i \in Indices |-> None]
NoTimes == [i \in Indices |-> {}]

Init ==
  /\ CaptureInit
  /\ drc = [i \in Indices |-> None] /\ decoded = [i \in Indices |-> None]
  /\ todo = {} /\ pairs = {} /\ failed = FALSE /\ encLog = {}
  /\ rows = NoRows /\ cycle = NoTimes

Start ==
  /\ Launch
  /\ todo' = {} /\ pairs' = {} /\ failed' = FALSE /\ encLog' = {}
  /\ rows' = NoRows /\ cycle' = NoTimes
  /\ UNCHANGED <<drc, decoded>>

Capture == CaptureNext /\ UNCHANGED laterVars

At(here) == stage = here
GoTo(there) ==
  /\ stage' = there
  /\ UNCHANGED <<run, setup, exit, children, queue, overdue, reason>>
Exit(status) ==
  /\ stage' = "exited" /\ exit' = status
  /\ UNCHANGED <<run, setup, children, queue, overdue, reason>>

-----------------------------------------------------------------------------
(* Encoding: the files are listed once, before the pool starts.  An empty    *)
(* list is no failure; a missing draco_encoder is.                           *)
Collect ==
  /\ At("collect")
  /\ todo' = Present(ply)
  /\ GoTo("encode")
  /\ UNCHANGED <<drc, decoded, pairs, failed, encLog, rows, cycle>>

NoEncoder ==
  /\ At("collect")
  /\ Exit(2)
  /\ UNCHANGED laterVars

(* skip_existing.  Mutant: its default, TRUE, is not overruled. *)
ReusedByDefault(i) == drc[i] # None
Reused(i) == setup.reuse /\ drc[i] # None

(* encode_frame; a draco_encoder that fails may leave a part of its output.  *)
EncodeOne ==
  /\ At("encode")
  /\ \E i \in todo :
       /\ todo' = todo \ {i}
       /\ \/ /\ Reused(i)
             /\ UNCHANGED <<drc, failed, encLog>>
          \/ /\ ~Reused(i)
             /\ drc' = [drc EXCEPT ![i] = ply[i]]
             /\ encLog' = encLog \union {i}
             /\ UNCHANGED failed
          \/ /\ ~Reused(i)
             /\ \E c \in {drc[i], Cut} : drc' = [drc EXCEPT ![i] = c]
             /\ failed' = TRUE
             /\ UNCHANGED encLog
  /\ GoTo("encode") /\ UNCHANGED <<decoded, pairs, rows, cycle>>

(* _aggregate_cycle_times: of the frames of the quality CSV, or when there   *)
(* is none of those in either log.                                           *)
AllColumns == {"save", "encode", "decode", "metric"}
Columns(i) ==
  {c \in AllColumns :
     CASE c = "save"   -> i \in saveLog
       [] c = "encode" -> i \in encLog
       [] c = "decode" -> i \in pairs
       [] c = "metric" -> rows[i] \notin {None, Unmeasured}}
CycleTimes ==
  LET named == IF pairs = {} THEN saveLog \union encLog ELSE pairs
  IN  [i \in Indices |-> IF i \in named THEN Columns(i) ELSE {}]

EncodeEnds ==
  /\ At("encode") /\ todo = {}
  /\ \/ failed /\ Exit(2) /\ UNCHANGED cycle
     \/ ~failed /\ setup.qa /\ GoTo("pairs") /\ UNCHANGED cycle
     \/ ~failed /\ ~setup.qa /\ Exit(0) /\ cycle' = CycleTimes
  /\ UNCHANGED <<drc, decoded, todo, pairs, failed, encLog, rows>>

-----------------------------------------------------------------------------
(* The analysis; without a pair it ends well and writes nothing.             *)
FindPairs ==
  /\ At("pairs")
  /\ pairs' = Present(ply) \intersect Present(drc)
  /\ todo' = pairs'
  /\ IF pairs' = {} THEN Exit(0) /\ cycle' = CycleTimes
                    ELSE GoTo("decode") /\ UNCHANGED cycle
  /\ UNCHANGED <<drc, decoded, failed, encLog, rows>>

NoDecoder ==
  /\ At("pairs")
  /\ Exit(3)
  /\ UNCHANGED laterVars

(* _decode_one; nobody looks at the status it returns. *)
DecodeOne ==
  /\ At("decode")
  /\ \E i \in todo :
       /\ todo' = todo \ {i}
       /\ \E c \in {drc[i], decoded[i], Cut} : decoded' = [decoded EXCEPT ![i] = c]
  /\ GoTo("decode") /\ UNCHANGED <<drc, pairs, failed, encLog, rows, cycle>>

DecodeEnds ==
  /\ At("decode") /\ todo = {}
  /\ todo' = pairs
  /\ GoTo("measure")
  /\ UNCHANGED <<drc, decoded, pairs, failed, encLog, rows, cycle>>

(* _metric_one: a pair that cannot be read, or whose clouds are empty after  *)
(* the preprocessing, has a row that says so.                                *)
Readable(content) == content \notin {None, Cut} /\ content.whole
MeasureOne ==
  /\ At("measure")
  /\ \E i \in todo :
       /\ todo' = todo \ {i}
       /\ \E row \in {Unmeasured} \union
            (IF Readable(ply[i]) /\ decoded[i] \notin {None, Cut}
             THEN {[src |-> ply[i], dec |-> decoded[i]]} ELSE {}) :
            rows' = [rows EXCEPT ![i] = row]
  /\ GoTo("measure") /\ UNCHANGED <<drc, decoded, pairs, failed, encLog, cycle>>

(* The CSV, the summary, the decoded files, and back in main the table. *)
MeasureEnds ==
  /\ At("measure") /\ todo = {}
  /\ decoded' = IF setup.keep THEN decoded
                ELSE [i \in Indices |-> IF i \in pairs THEN None ELSE decoded[i]]
  /\ cycle' = CycleTimes
  /\ Exit(0)
  /\ UNCHANGED <<drc, todo, pairs, failed, encLog, rows>>

(* An exception in the analysis, or Ctrl-C in any stage after the capture:   *)
(* the files being written stay cut.                                         *)
AnalysisFails ==
  /\ stage \in {"decode", "measure"}
  /\ Exit(3)
  /\ UNCHANGED laterVars

InterruptLater ==
  /\ stage \in {"encode", "decode", "measure"}
  /\ \E cut \in SUBSET todo :
       LET Broken(dir) == [i \in Indices |-> IF i \in cut THEN Cut ELSE dir[i]]
       IN  /\ drc' = IF At("encode")
                     THEN [i \in Indices |-> IF Reused(i) THEN drc[i] ELSE Broken(drc)[i]]
                     ELSE drc
           /\ decoded' = IF At("decode") THEN Broken(decoded) ELSE decoded
  /\ Exit(130)
  /\ UNCHANGED poolVars

-----------------------------------------------------------------------------
Later ==
  \/ Collect \/ NoEncoder \/ EncodeOne \/ EncodeEnds
  \/ FindPairs \/ NoDecoder \/ DecodeOne \/ DecodeEnds \/ MeasureOne \/ MeasureEnds

Next == Start \/ Capture \/ Later \/ AnalysisFails \/ InterruptLater

Spec == Init /\ [][Next]_vars

(* Every process goes on; no failure, no interrupt and no obedience to a      *)
(* signal need ever happen.                                                  *)
Fairness ==
  /\ WF_vars(Play /\ UNCHANGED laterVars) /\ WF_vars(BagEnds /\ UNCHANGED laterVars)
  /\ WF_vars(SaverRuns /\ ~saver.signalled /\ UNCHANGED laterVars)
  /\ WF_vars(Pump /\ UNCHANGED laterVars)
  /\ WF_vars(Main /\ UNCHANGED laterVars) /\ WF_vars(Deadline /\ UNCHANGED laterVars)
  /\ WF_vars(Later)
FairSpec == Spec /\ Fairness

-----------------------------------------------------------------------------
(* The types of the variables. *)
Content == Cloud \union {None, Cut}
TypeOK ==
  /\ CaptureTypeOK
  /\ drc \in [Indices -> Content] /\ decoded \in [Indices -> Content]
  /\ todo \subseteq Indices /\ pairs \subseteq Indices /\ failed \in BOOLEAN
  /\ encLog \subseteq Indices
  /\ rows \in [Indices -> [src : Cloud, dec : Cloud] \union {None, Unmeasured}]
  /\ cycle \in [Indices -> SUBSET AllColumns]

(* When a run succeeds every PLY file has its .drc, and without --reuse-drc  *)
(* each .drc holds the cloud that its PLY file holds now, however the runs   *)
(* before ended and whatever they left: no file was added or changed while   *)
(* or after the encoder listed them.                                         *)
EncodedIsCurrent ==
  exit = 0 =>
    \A i \in Present(ply) : drc[i] # None /\ (~setup.reuse => drc[i] = ply[i])

(* A row of the table of times that has all of its columns belongs to one    *)
(* frame of this run: it was recorded and encoded in this run.  The columns  *)
(* come from three files that are joined by the names of the frames, which   *)
(* are the same in every run.                                                *)
CycleIsOfThisRun ==
  \A i \in Indices :
    cycle[i] = AllColumns =>
      /\ ply[i] = [run |-> run, whole |-> TRUE]
      /\ drc[i] = ply[i]
      /\ rows[i].src = ply[i]

(* Every run comes to its end: a saver that hangs is killed, a player that   *)
(* is stuck in its pipe lets the saver idle out.  An endless loop of the bag *)
(* is left out.                                                              *)
RunEnds == stage = "watch" /\ ~setup.loop ~> stage = "exited"

=============================================================================
