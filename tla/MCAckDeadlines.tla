--------------------------- MODULE MCAckDeadlines ---------------------------
(* Two sequences, deadlines up to 2 and four calls of push: a deadline can  *)
(* move back and forth and leave duplicates and stale entries of both       *)
(* sequences above and below the live ones.                                 *)
EXTENDS AckDeadlines
=============================================================================
