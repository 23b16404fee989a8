----------------------------- MODULE Telemetry -----------------------------
(***************************************************************************)
(* The report a session leaves behind: Telemetry.build of                  *)
(* utils/telemetry.py and the export at the end of run_client of           *)
(* nodes/stream_client.py, as operators on the state the client ends in.   *)
(* Times, rates and depths of queues are left out; build finds every field *)
(* its schema asks for.                                                    *)
(***************************************************************************)
EXTENDS Integers

CONSTANT NoReport  \* nothing was written

(* build: a session stated TERMINATED has nothing pending anywhere.  state  *)
(* and pending are ControlPlane's, stated what the report is to say.        *)
BuildRaises(state, pending, stated, inflight, queued) ==
  /\ stated = "TERMINATED"
  /\ inflight # 0 \/ pending # 0 \/ state # "TERMINATED" \/ queued # 0

(* run_client refuses to export a session that neither failed nor ended     *)
(* with all its frames accounted for.                                       *)
ExportRaises(state, pending, inflight, acks) ==
  /\ state # "FAILED"
  /\ inflight # 0 \/ acks # 0 \/ pending # 0 \/ state # "TERMINATED"

(* max: a frame that awaits its ACK in one of the two books is not acked.   *)
(* Mutant: only the client's own set is looked at.                          *)
AwaitedInSet(pending, acks) == acks
Awaited(pending, acks) == IF acks > pending THEN acks ELSE pending

Report(state, pending, inflight, acks, sent) ==
  LET queued == IF state = "FAILED" THEN inflight + Awaited(pending, acks) ELSE 0
      acked == IF sent > Awaited(pending, acks) THEN sent - Awaited(pending, acks) ELSE 0
  IN  IF ExportRaises(state, pending, inflight, acks)
         \/ BuildRaises(state, pending, state, inflight, queued)
      THEN NoReport
      ELSE [state |-> state, sent |-> sent, acked |-> acked, pending |-> queued]
=============================================================================
