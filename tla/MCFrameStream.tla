--------------------------- MODULE MCFrameStream ---------------------------
(* The server's side: two ACKs from the receive loop, which retries, and one *)
(* reply from the send loop, which does not.  One message with a name cell   *)
(* and one with a payload are enough.                                        *)
EXTENDS FrameStream

MCScript ==
  [control |-> <<[id |-> <<"control", 1>>, name |-> 1, body |-> 0],
                 [id |-> <<"control", 2>>, name |-> 0, body |-> 0]>>,
   reply   |-> <<[id |-> <<"reply", 1>>, name |-> 0, body |-> 1]>>]
MCAttempts == [control |-> 3, reply |-> 1]
=============================================================================
