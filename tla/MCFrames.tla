------------------------------ MODULE MCFrames ------------------------------
(* Model checking Frames: two data values are one more than the properties *)
(* tell apart, so Data is Null alone.                                       *)
EXTENDS Frames

MCData == {Null}
=============================================================================
