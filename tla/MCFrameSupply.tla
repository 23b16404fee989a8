--------------------------- MODULE MCFrameSupply ---------------------------
(* Two files and three watchers: with inotify, without it and with a window  *)
(* of one name, with a history of retired names too short for the spool.     *)
EXTENDS FrameSupply

MCWatches ==
  {[inotify |-> TRUE,  gcWindow |-> 0, historyLimit |-> 2],
   [inotify |-> FALSE, gcWindow |-> 1, historyLimit |-> 2],
   [inotify |-> FALSE, gcWindow |-> 0, historyLimit |-> 1]}
=============================================================================
