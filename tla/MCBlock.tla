------------------------------- MODULE MCBlock -------------------------------
(* Model-checking instance of Block: two threads that control the block.   *)
EXTENDS Block
=============================================================================
