---------------------------- MODULE MCFrameBuffer ----------------------------
(* Model-checking instance of FrameBuffer: a ring of three places, overrun *)
(* by the third frame that waits in it, and two inputs.                    *)
EXTENDS FrameBuffer
=============================================================================
