--------------------------- MODULE FragmentBuffer ---------------------------
(***************************************************************************)
(* FragmentBuffer of nodes/stream_server.py and its use by _recv_loop: the *)
(* frames that have come in part, bounded in bytes (the least recently     *)
(* updated frame goes first) and in time (a GC task drops idle frames).    *)
(*                                                                         *)
(* Bytes are counted in units, every fragment of a frame having the same   *)
(* size.  time.monotonic() never repeats itself here, so the frames held   *)
(* are ordered by last_update, which is all that is kept of it.  Fragments *)
(* come in any order and a few come twice: the buffer is made for that,    *)
(* although the client of this repository sends them in order and once.    *)
(***************************************************************************)
EXTENDS Naturals, FiniteSets

CONSTANTS
  Frames,        \* sequence numbers of the fragmented frames
  Total,         \* Total[s]: how many fragments frame s has
  Size,          \* Size[s]: the bytes of each of its fragments
  MaxBytes,      \* max_bytes
  Ttl,           \* ttl
  MaxDuplicates  \* bound on the fragments that come twice

ASSUME FramesAssumption ==
  /\ IsFiniteSet(Frames)
  /\ Total \in [Frames -> Nat \ {0, 1}] /\ Size \in [Frames -> Nat \ {0}]
ASSUME BoundsAssumption == MaxBytes \in Nat /\ Ttl \in Nat /\ MaxDuplicates \in Nat

VARIABLES
  got,         \* states: the fragments held of each frame, {} if none is
  older,       \* <<s, t>>: frames in states, s.last_update < t.last_update
  idle,        \* now - last_update, as far as it matters
  buffered,    \* buffered_bytes
  open,        \* _recv_loop is running
  arrived,     \* history: the fragments that have come
  duplicates,  \* history: how many came again
  delivered,   \* history: frames returned whole
  dropped      \* history: frames reported as dropped

buffer == <<got, older, idle, buffered>>
history == <<arrived, duplicates, delivered, dropped>>
vars == <<buffer, open, history>>

Index(s) == 0..(Total[s] - 1)
States == {s \in Frames : got[s] # {}}

(* FragmentAssembly.received: each byte of each fragment is counted once.   *)
Held(g, S) == UNION {{s} \X (g[s] \X (1..Size[s])) : s \in S}
Bytes(g, S) == Cardinality(Held(g, S))
Less(n, m) == IF n > m THEN n - m ELSE 0

Init ==
  /\ got = [s \in Frames |-> {}] /\ older = {}
  /\ idle = [s \in Frames |-> 0] /\ buffered = 0 /\ open = TRUE
  /\ arrived = [s \in Frames |-> {}] /\ duplicates = 0
  /\ delivered = {} /\ dropped = {}

-----------------------------------------------------------------------------
(* The frames of S among those that o orders, and those before one of them. *)
Among(o, S) == o \intersect (S \X S)
Before(o, s) == {t \in Frames : <<t, s>> \in o}

(* last_update of frame s is now. *)
Renewed(s) == Among(older, States \ {s}) \union ((States \ {s}) \X {s})

(* _evict_for_memory: from the oldest on, as long as those before it were    *)
(* not enough.  Mutant: the frame being added is spared.                     *)
EvictedSparing(g, o, bytes, s) ==
  {t \in Frames \ {s} : g[t] # {} /\ Less(bytes, Bytes(g, Before(o, t) \ {s})) > MaxBytes}
Evicted(g, o, bytes, s) ==
  {t \in Frames : g[t] # {} /\ Less(bytes, Bytes(g, Before(o, t))) > MaxBytes}

(* The frames of S leave states. *)
Without(g, S) == [s \in Frames |-> IF s \in S THEN {} ELSE g[s]]

(* The frames that leave the buffer with their bytes. *)
Drop(g, o, bytes, S) ==
  /\ got' = Without(g, S)
  /\ older' = Among(o, Frames \ S)
  /\ buffered' = Less(bytes, Bytes(g, S))

(* FragmentBuffer.add.  A fragment held already counts its bytes again but  *)
(* neither completes the frame nor renews last_update.                      *)
Whole(g, s) == g[s] = Index(s)

Add(s, i) ==
  LET new == i \notin got[s]
      g == [got EXCEPT ![s] = @ \union {i}]
      o == IF new THEN Renewed(s) ELSE older
      bytes == buffered + Size[s]
      evicted == Evicted(g, o, bytes, s)
      complete == new /\ Whole(g, s) /\ s \notin evicted
  IN  /\ idle' = IF new THEN [idle EXCEPT ![s] = 0] ELSE idle
      /\ Drop(g, o, bytes, IF complete THEN evicted \union {s} ELSE evicted)
      /\ delivered' = IF complete THEN delivered \union {s} ELSE delivered
      /\ dropped' = dropped \union evicted

(* _recv_loop gets fragment i of frame s. *)
RecvFragment(s, i) ==
  /\ open
  /\ i \notin arrived[s]
  /\ arrived' = [arrived EXCEPT ![s] = @ \union {i}]
  /\ Add(s, i)
  /\ UNCHANGED <<open, duplicates>>

RecvDuplicate(s, i) ==
  /\ open
  /\ i \in arrived[s] /\ duplicates < MaxDuplicates
  /\ duplicates' = duplicates + 1
  /\ Add(s, i)
  /\ UNCHANGED <<open, arrived>>

(* _fragment_gc_loop: gc drops what has been idle for ttl.  Mutants:        *)
(* looking at a frame renews its last_update; nothing is reported.          *)
Expired == {s \in States : idle[s] >= Ttl}

GcTouches ==
  /\ open /\ States # {}
  /\ Drop(got, older, buffered, Expired)
  /\ dropped' = dropped \union Expired
  /\ idle' = [s \in Frames |-> 0]
  /\ UNCHANGED <<open, arrived, duplicates, delivered>>

GcSilent ==
  /\ open /\ Expired # {}
  /\ Drop(got, older, buffered, Expired)
  /\ UNCHANGED <<idle, open, history>>

Gc ==
  /\ open /\ Expired # {}
  /\ Drop(got, older, buffered, Expired)
  /\ dropped' = dropped \union Expired
  /\ UNCHANGED <<idle, open, arrived, duplicates, delivered>>

Tick ==
  /\ open
  /\ \E s \in States : idle[s] < Ttl
  /\ idle' = [s \in Frames |-> IF s \in States /\ idle[s] < Ttl
                               THEN idle[s] + 1 ELSE idle[s]]
  /\ UNCHANGED <<got, older, buffered, open, history>>

(* The finally block of _recv_loop: clear(). *)
Clear ==
  /\ open
  /\ open' = FALSE
  /\ dropped' = dropped \union States
  /\ got' = [s \in Frames |-> {}] /\ older' = {} /\ buffered' = 0
  /\ UNCHANGED <<idle, arrived, duplicates, delivered>>

Next ==
  \/ \E s \in Frames : \E i \in Index(s) : RecvFragment(s, i) \/ RecvDuplicate(s, i)
  \/ Gc \/ Tick \/ Clear

Spec == Init /\ [][Next]_vars

(* Time passes and the GC task wakes up again and again. *)
FairSpec == Spec /\ WF_vars(Tick) /\ WF_vars(Gc)

-----------------------------------------------------------------------------
(* Every variable keeps its type; older is a strict order of states, and    *)
(* a total one.                                                             *)
TypeOK ==
  /\ got \in [Frames -> SUBSET Nat] /\ arrived \in [Frames -> SUBSET Nat]
  /\ \A s \in Frames : got[s] \subseteq Index(s) /\ arrived[s] \subseteq Index(s)
  /\ older \subseteq States \X States
  /\ \A s, t \in States : s = t <=> (<<s, t>> \notin older /\ <<t, s>> \notin older)
  /\ \A s, t, u \in States : <<s, t>> \in older /\ <<t, u>> \in older => <<s, u>> \in older
  /\ idle \in [Frames -> 0..Ttl]
  /\ buffered \in Nat /\ duplicates \in 0..MaxDuplicates /\ open \in BOOLEAN
  /\ delivered \subseteq Frames /\ dropped \subseteq Frames

(* Between two calls the fragments held fit in max_bytes, whatever mix of   *)
(* frames, duplicates, evictions and collections led there, and are not     *)
(* more than the buffer believes.                                           *)
MemoryBounded ==
  Bytes(got, States) <= MaxBytes /\ Bytes(got, States) <= buffered

(* A fragment that came is held, or its frame was returned whole, or a drop *)
(* was reported: no frame disappears without a trace in the log.            *)
NoSilentLoss ==
  \A s \in Frames :
    arrived[s] \subseteq got[s] \/ s \in delivered \union dropped

(* A frame all of whose fragments came is not left in the buffer unless it  *)
(* had been dropped or returned before.                                     *)
WholeFramesLeave ==
  \A s \in Frames :
    arrived[s] = Index(s) => s \in delivered \union dropped

(* A frame in the buffer does not stay for ever: one that cannot complete,  *)
(* because fragments of it were dropped before, is collected.               *)
AssembliesLeave == \A s \in Frames : (s \in States) ~> (s \notin States)
=============================================================================
