----------------------------- MODULE MCRotation -----------------------------
(* Three waiting relays and an own window of four turns: the window is longer *)
(* than the queue, as 20 is longer than 8 in the code, so a full queue can    *)
(* drain while one own message stays in rotation.  Three frames fill the ring *)
(* with distinct entries at every position of its head.                       *)
EXTENDS RotationOverRing

CONSTANTS f1, f2, f3

FramesMC == {f1, f2, f3}
============================================================================
