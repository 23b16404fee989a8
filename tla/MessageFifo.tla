---------------------------- MODULE MessageFifo ----------------------------
(***************************************************************************)
(* What the framing of net/protocol.py promises to the two ends of a       *)
(* connection: whole messages, in the order in which they were written,    *)
(* each once.  A fault of the framing ends the promise.                    *)
(***************************************************************************)
EXTENDS Sequences

CONSTANT Messages

VARIABLES
  queue,      \* the messages written and not yet delivered
  delivered,  \* the messages delivered, in order
  broken      \* the promise has ended

vars == <<queue, delivered, broken>>

Init == queue = <<>> /\ delivered = <<>> /\ broken = FALSE

Write(m) ==
  /\ ~broken
  /\ queue' = Append(queue, m)
  /\ UNCHANGED <<delivered, broken>>

Deliver ==
  /\ ~broken /\ queue # <<>>
  /\ delivered' = Append(delivered, Head(queue))
  /\ queue' = Tail(queue)
  /\ UNCHANGED broken

(* From here on nothing is said of queue and delivered. *)
Break == broken'

Next == (\E m \in Messages : Write(m)) \/ Deliver \/ Break

Spec == Init /\ [][Next]_vars
=============================================================================
