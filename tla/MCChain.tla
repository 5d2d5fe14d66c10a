------------------------------- MODULE MCChain -------------------------------
(* Model-checking instance of Chain: three blocks, so that one can have    *)
(* enabled and disabled neighbours on both sides, and two inputs.          *)
EXTENDS Chain
=============================================================================
