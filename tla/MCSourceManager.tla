--------------------------- MODULE MCSourceManager ---------------------------
(* Three sources and two banks that both have all of them in their pools:  *)
(* one source to select, one for each bank, and every one may leave.       *)
EXTENDS SourceManager

MCPool == [b \in Banks |-> Sources]
=============================================================================
