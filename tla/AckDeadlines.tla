---------------------------- MODULE AckDeadlines ----------------------------
(***************************************************************************)
(* AckDeadlineHeap of common/timers.py: a min-heap of (deadline, sequence) *)
(* whose entries are never removed when a deadline moves or is cancelled,  *)
(* beside the dictionary that says which deadline counts.                  *)
(*                                                                         *)
(* The heap is the bag of its entries: heapq only promises that heap[0] is *)
(* the least.  push, pop_due and next_deadline loop over the top of the    *)
(* heap; an action is one turn of a loop, and a call runs to its end       *)
(* before the next one starts (all callers are on the event loop).         *)
(***************************************************************************)
EXTENDS Integers, FiniteSets

CONSTANTS
  Sequences,   \* sequence numbers the owner may use
  MaxTime,     \* bound on the clock and on deadlines
  MaxPushes    \* bound on the calls of push

ASSUME SequencesAssumption == Sequences \subseteq Int /\ IsFiniteSet(Sequences)
ASSUME BoundsAssumption == MaxTime \in Nat /\ MaxPushes \in Nat

Times == 0..MaxTime
NoDeadline == -1   \* not in _deadlines; also next_deadline() of an empty heap

VARIABLES
  heap,        \* _heap: how many entries (deadline, sequence) it holds
  deadlines,   \* _deadlines
  now,         \* time.monotonic()
  call,        \* the call under way, "idle" between calls
  arg,         \* its arguments: (deadline, sequence) of push
  previous,    \* push: next_deadline() before the new entry
  changed,     \* what push returned last
  due,         \* pop_due: the sequences found so far
  before,      \* history: _deadlines when the call began
  pushes       \* how often push was called

heapVars == <<heap, deadlines, now, call, arg, previous, changed, due, before, pushes>>

Entries == Times \X Sequences
Held == {e \in Entries : heap[e] > 0}

(* Tuple order: by deadline, then by sequence.  heap[0] is the least entry. *)
Least(e) ==
  /\ e \in Held
  /\ \A x \in Held : e[1] < x[1] \/ (e[1] = x[1] /\ e[2] <= x[2])

Stale(e) == deadlines[e[2]] # e[1]

HeapInit ==
  /\ heap = [e \in Entries |-> 0]
  /\ deadlines = [s \in Sequences |-> NoDeadline]
  /\ now = 0
  /\ call = "idle" /\ arg \in Entries /\ previous = NoDeadline
  /\ changed = FALSE /\ due = {}
  /\ before = deadlines /\ pushes = 0

-----------------------------------------------------------------------------
(* heappop *)
Popped(e) == [heap EXCEPT ![e] = @ - 1]
Pushed(h, e) == [h EXCEPT ![e] = @ + 1]

(* A stale entry at the top goes.  If its sequence still has a deadline, an *)
(* entry with that deadline takes its place.  Mutant: the old entry is put  *)
(* back.                                                                    *)
PushedBack(e) == heap

Replaced(e) ==
  IF deadlines[e[2]] = NoDeadline
  THEN Popped(e)
  ELSE Pushed(Popped(e), <<deadlines[e[2]], e[2]>>)

Discard ==
  /\ call \in {"pushing", "pushed", "popping"}
  /\ \E e \in Held :
       /\ Least(e)
       /\ Stale(e)
       /\ heap' = Replaced(e)
  /\ UNCHANGED <<deadlines, now, call, arg, previous, changed, due, before, pushes>>

(* next_deadline() returns d: the top is not stale, or there is none. *)
Next_deadline(d) ==
  \/ Held = {} /\ d = NoDeadline
  \/ \E e \in Held : Least(e) /\ ~Stale(e) /\ d = e[1]

(* push(sequence, deadline) *)
Push(e) ==
  /\ call = "idle"
  /\ pushes < MaxPushes
  /\ pushes' = pushes + 1
  /\ call' = "pushing" /\ arg' = e /\ before' = deadlines
  /\ UNCHANGED <<heap, deadlines, now, previous, changed, due>>

(* Mutant: a sequence that has a deadline already gets no second entry. *)
PushEntryOnce ==
  /\ call = "pushing"
  /\ \E d \in Times \union {NoDeadline} : Next_deadline(d) /\ previous' = d
  /\ deadlines' = [deadlines EXCEPT ![arg[2]] = arg[1]]
  /\ heap' = IF deadlines[arg[2]] = NoDeadline THEN Pushed(heap, arg) ELSE heap
  /\ call' = "pushed"
  /\ UNCHANGED <<now, arg, changed, due, before, pushes>>

PushEntry ==
  /\ call = "pushing"
  /\ \E d \in Times \union {NoDeadline} : Next_deadline(d) /\ previous' = d
  /\ deadlines' = [deadlines EXCEPT ![arg[2]] = arg[1]]
  /\ heap' = Pushed(heap, arg)
  /\ call' = "pushed"
  /\ UNCHANGED <<now, arg, changed, due, before, pushes>>

PushReturn ==
  /\ call = "pushed"
  /\ \E d \in Times \union {NoDeadline} :
       Next_deadline(d) /\ changed' = (d # previous)
  /\ call' = "idle"
  /\ UNCHANGED <<heap, deadlines, now, arg, previous, due, before, pushes>>

(* cancel(sequence) leaves the entries of the heap alone. *)
Cancel(s) ==
  /\ call = "idle"
  /\ deadlines[s] # NoDeadline
  /\ deadlines' = [deadlines EXCEPT ![s] = NoDeadline]
  /\ UNCHANGED <<heap, now, call, arg, previous, changed, due, before, pushes>>

(* pop_due(now) *)
PopDue ==
  /\ call = "idle"
  /\ call' = "popping" /\ due' = {} /\ before' = deadlines
  /\ UNCHANGED <<heap, deadlines, now, arg, previous, changed, pushes>>

(* A deadline at the top has passed.  Mutant: it must be in the past. *)
PassedBefore(d) == d < now
Passed(d) == d <= now

PopOne ==
  /\ call = "popping"
  /\ \E e \in Held :
       /\ Least(e) /\ ~Stale(e) /\ Passed(e[1])
       /\ heap' = Popped(e)
       /\ deadlines' = [deadlines EXCEPT ![e[2]] = NoDeadline]
       /\ due' = due \union {e[2]}
  /\ UNCHANGED <<now, call, arg, previous, changed, before, pushes>>

PopReturn ==
  /\ call = "popping"
  /\ \/ Held = {}
     \/ \E e \in Held : Least(e) /\ ~Stale(e) /\ ~Passed(e[1])
  /\ call' = "idle"
  /\ UNCHANGED <<heap, deadlines, now, arg, previous, changed, due, before, pushes>>

Tick ==
  /\ call = "idle"
  /\ now < MaxTime
  /\ now' = now + 1
  /\ UNCHANGED <<heap, deadlines, call, arg, previous, changed, due, before, pushes>>

Step == Discard \/ PushEntry \/ PushReturn \/ PopOne \/ PopReturn

HeapNext ==
  \/ Step \/ PopDue \/ Tick
  \/ \E e \in Entries : Push(e)
  \/ \E s \in Sequences : Cancel(s)

HeapSpec == HeapInit /\ [][HeapNext]_heapVars
FairHeapSpec == HeapSpec /\ WF_heapVars(Step)

-----------------------------------------------------------------------------
(* Every variable keeps its type. *)
TypeOK ==
  /\ heap \in [Entries -> Nat]
  /\ deadlines \in [Sequences -> Times \union {NoDeadline}]
  /\ now \in Times
  /\ call \in {"idle", "pushing", "pushed", "popping"}
  /\ arg \in Entries
  /\ previous \in Times \union {NoDeadline} /\ changed \in BOOLEAN
  /\ due \subseteq Sequences
  /\ before \in [Sequences -> Times \union {NoDeadline}]
  /\ pushes \in 0..MaxPushes

(* Every deadline that counts has an entry of its own in the heap, however *)
(* often it moved or was cancelled and set again: lazy deletion never      *)
(* loses a live deadline.                                                  *)
Covered ==
  \A s \in Sequences :
    deadlines[s] # NoDeadline => heap[<<deadlines[s], s>>] > 0

(* When pop_due returns, it has found exactly the sequences whose deadline *)
(* has passed, and left every other deadline as it was.                    *)
PopsExactly ==
  [][PopReturn =>
       /\ due = {s \in Sequences : before[s] # NoDeadline /\ before[s] <= now}
       /\ deadlines = [s \in Sequences |-> IF s \in due THEN NoDeadline
                                                        ELSE before[s]]]_heapVars

(* d is the earliest deadline of the dictionary f. *)
Earliest(f, d) ==
  \/ d = NoDeadline /\ \A s \in Sequences : f[s] = NoDeadline
  \/ /\ \E s \in Sequences : f[s] = d /\ d # NoDeadline
     /\ \A s \in Sequences : f[s] # NoDeadline => d <= f[s]

(* push returns whether the earliest deadline changed, stale entries       *)
(* notwithstanding: the client re-arms its timer exactly then.             *)
PushReportsChange ==
  [][PushReturn =>
       (changed' <=> ~ \E d \in Times \union {NoDeadline} :
                         Earliest(before, d) /\ Earliest(deadlines, d))]_heapVars

(* Every call returns: replacing a stale entry by a live one cannot go on  *)
(* for ever.                                                               *)
CallsReturn == (call # "idle") ~> (call = "idle")
=============================================================================
