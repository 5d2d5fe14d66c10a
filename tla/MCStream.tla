------------------------------ MODULE MCStream -------------------------------
(* Model-checking instance of Stream: three frames let both buffers be     *)
(* reused while either side is stopped and restarted.                      *)
EXTENDS Stream
=============================================================================
