-------------------------- MODULE MCFragmentBuffer --------------------------
(* Two frames of two small fragments and one of three large ones, in a      *)
(* buffer of three units: adding a fragment may evict one frame or two, the *)
(* large frame can push itself out, and a duplicate leaves bytes nobody     *)
(* holds.                                                                   *)
EXTENDS FragmentBuffer

MCTotal == [s \in Frames |-> IF s = 3 THEN 3 ELSE 2]
MCSize == [s \in Frames |-> IF s = 3 THEN 2 ELSE 1]
=============================================================================
