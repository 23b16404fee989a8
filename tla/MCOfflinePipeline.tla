------------------------- MODULE MCOfflinePipeline -------------------------
(* Command lines to look at: one option or two at a time.                    *)
EXTENDS OfflinePipeline

Plain == [bag |-> TRUE, loop |-> FALSE, chatty |-> FALSE, maxFrames |-> 0,
          timeout |-> FALSE, reuse |-> FALSE, qa |-> TRUE, keep |-> FALSE]

MCSetups ==
  {[Plain EXCEPT !.timeout = TRUE],
   [Plain EXCEPT !.reuse = TRUE, !.keep = TRUE, !.loop = TRUE, !.maxFrames = 1],
   [Plain EXCEPT !.bag = FALSE, !.qa = FALSE, !.maxFrames = 1],
   [Plain EXCEPT !.chatty = TRUE, !.timeout = TRUE]}
=============================================================================
