---------------------------- MODULE MCServerClient ----------------------------
(* Three requests: one that times out, one its late answer reaches, and    *)
(* one more; two packets under way, so that samples follow an answer.      *)
EXTENDS ServerClient
=============================================================================
