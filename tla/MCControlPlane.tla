--------------------------- MODULE MCControlPlane ---------------------------
(* Two frames and two timeout values over six ticks: long enough for two    *)
(* reports of the same frame and for a frame sent after the EOF.            *)
EXTENDS ControlPlane
=============================================================================
