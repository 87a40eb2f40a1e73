----------------------------- MODULE MCGestures -----------------------------
(* Instances of Gestures for TLC: two devices, one rack unit and a canvas.  *)
EXTENDS Gestures

CONSTANTS da, db, u, a
=============================================================================
