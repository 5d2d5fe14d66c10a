------------------------------ MODULE MCSplitter -----------------------------
(* Model-checking instance of Splitter: with three streams the change can  *)
(* concern one that has the pending block, one that is blocking it and one *)
(* that is still waiting for it, as in                                     *)
(* tests/continuous_iq_splitter_test.cpp.                                  *)
EXTENDS Splitter
=============================================================================
