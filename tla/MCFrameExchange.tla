-------------------------- MODULE MCFrameExchange --------------------------
(* Three frames: one in a single unit, one whose fragments fit in the fields *)
(* of a header, one whose fragments of one unit do not.                      *)
EXTENDS FrameExchange

MCName == <<<<"a">>, <<"b", "|", "1">>, <<"c", ":", "d">>>>
MCNames == [f \in Frames |-> MCName[f + 1]]
MCSize == [f \in Frames |-> 2 * f + 1]
MCStamp == [f \in Frames |-> f + 5]
MCSettings ==
  [format : {"binary"}, header : {2}, handler : {"pipeline", "legacy"}, size : {0, 1, 2}]
    \union [format : {"text"}, header : {2}, handler : {"pipeline", "legacy"}, size : {0}]
    \union [format : {"binary"}, header : {1}, handler : {"legacy"}, size : {0}]
=============================================================================
