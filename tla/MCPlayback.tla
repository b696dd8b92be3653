----------------------------- MODULE MCPlayback -----------------------------
(* Playback with two player tasks that fit into the heap.  A tick is half  *)
(* of the code's five seconds less one: ReadGap and StopTime are one tick. *)
EXTENDS Playback

CONSTANTS s1, s2, s3

TwoSlots   == {s1, s2}
ThreeSlots == {s1, s2, s3}
=============================================================================
