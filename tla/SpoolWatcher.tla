---------------------------- MODULE SpoolWatcher ----------------------------
(***************************************************************************)
(* SpoolWatcher of nodes/stream_client.py and the directory it watches:    *)
(* which PLY files are known, which were consumed, and what wait_for_new   *)
(* returns.                                                                *)
(*                                                                         *)
(* wait_for_new runs in a thread (asyncio.to_thread) while mark_consumed   *)
(* runs on the event loop, with no lock between them.  So the two tests of *)
(* _remember are two steps, and so are the two halves of mark_consumed.    *)
(* A file is named by its number: sorted() puts the smaller first.         *)
(* FrameSupply composes these actions with the recorder that writes the    *)
(* files and with the task that calls the watcher.                         *)
(***************************************************************************)
EXTENDS Naturals, Sequences, FiniteSets, FiniteSetsExt, SequencesExt

CONSTANTS
  Files,    \* the PLY files of the spool, numbered
  Watches,  \* how a watcher may be set up: [inotify, gcWindow, historyLimit]
  None      \* no file

ASSUME FilesAssumption == IsFiniteSet(Files) /\ Files \subseteq Nat /\ None \notin Files
ASSUME WatchesAssumption ==
  Watches \subseteq
    [inotify : BOOLEAN, gcWindow : Nat, historyLimit : Nat \ {0}]

VARIABLES
  watch,    \* the set-up of this watcher, one of Watches
  file,     \* the directory: each file is absent, open (half written) or whole
  events,   \* the names inotify has queued
  known,    \* _known
  order,    \* _known_order
  retired,  \* _retired; _retired_set is its range
  call,     \* wait_for_new or drain_initial: where it is and its locals
  marking   \* the file mark_consumed is between its two halves for, or None

spoolVars == <<watch, file, events, known, order, retired, call, marking>>
memory == <<known, order, retired>>

(* at = "off" between two calls, "returned" when the caller may run again.   *)
(* names: what the loop has still to look at, fresh: the result so far.      *)
Calls ==
  [at : {"off", "read", "scan", "examine", "remember", "returned"},
   source : {"events", "scan"}, names : Seq(Files), fresh : Seq(Files)]
Idle == [at |-> "off", source |-> "scan", names |-> <<>>, fresh |-> <<>>]

Present == {f \in Files : file[f] # "absent"}

(* sorted(): each name at the place of its rank, equal ones as they stood.   *)
Rank(q, i) == Cardinality({j \in DOMAIN q : q[j] < q[i] \/ (q[j] = q[i] /\ j <= i)})
Ordered(q) == [n \in DOMAIN q |-> q[CHOOSE i \in DOMAIN q : Rank(q, i) = n]]
Sorted(S) == Ordered(SetToSeq(S))

SpoolInit ==
  /\ watch \in Watches
  /\ file = [f \in Files |-> "absent"] /\ events = <<>>
  /\ known = {} /\ order = <<>> /\ retired = <<>>
  /\ call = Idle /\ marking = None

-----------------------------------------------------------------------------
(* save_xyz opens the file, then closes it; the mask has CREATE and          *)
(* CLOSE_WRITE, and an event is queued for both.                             *)
Notify(f) == events' = IF watch.inotify THEN Append(events, f) ELSE events

CreateFile(f) ==
  /\ file[f] = "absent"
  /\ file' = [file EXCEPT ![f] = "open"]
  /\ Notify(f)
  /\ UNCHANGED <<watch, memory, call, marking>>

CloseFile(f) ==
  /\ file[f] = "open"
  /\ file' = [file EXCEPT ![f] = "whole"]
  /\ Notify(f)
  /\ UNCHANGED <<watch, memory, call, marking>>

-----------------------------------------------------------------------------
(* drain_initial scans at once, wait_for_new waits first. *)
StartCall(at) ==
  /\ call.at = "off"
  /\ call' = [Idle EXCEPT !.at = at]
  /\ UNCHANGED <<watch, file, events, memory, marking>>

(* The inotify read times out, or there is no inotify. *)
ReadNothing ==
  /\ call.at = "read" /\ events = <<>>
  /\ call' = [call EXCEPT !.at = "scan"]
  /\ UNCHANGED <<watch, file, events, memory, marking>>

ReadEvents ==
  /\ call.at = "read" /\ events # <<>>
  /\ call' = [call EXCEPT !.at = "examine", !.source = "events", !.names = events]
  /\ events' = <<>>
  /\ UNCHANGED <<watch, file, memory, marking>>

(* _discover_existing: sorted(glob). *)
Scan ==
  /\ call.at = "scan"
  /\ call' = [call EXCEPT !.at = "examine", !.source = "scan", !.names = Sorted(Present)]
  /\ UNCHANGED <<watch, file, events, memory, marking>>

(* _remember, first test: is the name retired?  Mutant: it is not asked.     *)
IsRetiredNever(f) == FALSE
IsRetired(f) == f \in ToSet(retired)

Examine ==
  /\ call.at = "examine" /\ call.names # <<>>
  /\ call' = IF IsRetired(Head(call.names))
             THEN [call EXCEPT !.names = Tail(@)]
             ELSE [call EXCEPT !.at = "remember"]
  /\ UNCHANGED <<watch, file, events, memory, marking>>

(* _gc_known: names leave from the oldest on until the window holds, but a   *)
(* retired name only leaves the order.                                       *)
Pruned(k, o, n) == k \ (ToSet(SubSeq(o, 1, n)) \ ToSet(retired))
Pops(k, o) ==
  LET holds(n) == Cardinality(Pruned(k, o, n)) <= watch.gcWindow
  IN  IF watch.gcWindow = 0 THEN 0
      ELSE CHOOSE n \in 0..Len(o) :
             /\ holds(n) \/ n = Len(o)
             /\ \A m \in 0..(n - 1) : ~holds(m)

(* _remember, second test: is the name known?  A new one is.  Mutants: the   *)
(* test is left out; a name that inotify reported is not returned.           *)
IsKnownNever(f) == FALSE
IsKnown(f) == f \in known

FreshScanned(f) == IF call.source = "scan" THEN Append(call.fresh, f) ELSE call.fresh
Fresh(f) == Append(call.fresh, f)

Remember ==
  LET f == Head(call.names)
      k == known \union {f}
      o == Append(order, f)
  IN  /\ call.at = "remember"
      /\ IF IsKnown(f)
         THEN /\ call' = [call EXCEPT !.at = "examine", !.names = Tail(@)]
              /\ UNCHANGED <<known, order>>
         ELSE /\ call' = [call EXCEPT !.at = "examine", !.names = Tail(@), !.fresh = Fresh(f)]
              /\ known' = Pruned(k, o, Pops(k, o))
              /\ order' = SubSeq(o, Pops(k, o) + 1, Len(o))
      /\ UNCHANGED <<watch, file, events, retired, marking>>

(* The end of the loop.  Events with nothing new in them: the directory is   *)
(* scanned instead.  The result of a batch of events is sorted.              *)
Return ==
  /\ call.at = "examine" /\ call.names = <<>>
  /\ call' = IF call.source = "events" /\ call.fresh = <<>>
             THEN [call EXCEPT !.at = "scan"]
             ELSE [call EXCEPT !.at = "returned", !.fresh = Ordered(@)]
  /\ UNCHANGED <<watch, file, events, memory, marking>>

Turn == ReadNothing \/ ReadEvents \/ Scan \/ Examine \/ Remember \/ Return

EndCall ==
  /\ call.at = "returned"
  /\ call' = Idle
  /\ UNCHANGED <<watch, file, events, memory, marking>>

-----------------------------------------------------------------------------
(* mark_consumed: the name leaves _known, later it enters _retired, where    *)
(* the oldest makes room for it.  Mutant: nothing makes room.                *)
Forget(f) ==
  /\ marking = None
  /\ marking' = f
  /\ known' = known \ {f}
  /\ order' = RemoveFirst(order, f)
  /\ UNCHANGED <<watch, file, events, retired, call>>

RetiredAll(f) == IF f \in ToSet(retired) THEN retired ELSE Append(retired, f)
Retired(f) ==
  IF f \in ToSet(retired) THEN retired
  ELSE Append(IF Len(retired) = watch.historyLimit THEN Tail(retired) ELSE retired, f)

Retire ==
  /\ marking # None
  /\ retired' = Retired(marking)
  /\ marking' = None
  /\ UNCHANGED <<watch, file, events, known, order, call>>

SpoolTypeOK ==
  /\ watch \in Watches
  /\ file \in [Files -> {"absent", "open", "whole"}] /\ events \in Seq(Files)
  /\ known \subseteq Files /\ order \in Seq(Files) /\ retired \in Seq(Files)
  /\ Len(retired) <= watch.historyLimit
  /\ call \in Calls /\ marking \in Files \union {None}
=============================================================================
