--------------------------- MODULE MCMultiReceiver ---------------------------
(* Two receivers of unequal bandwidth.  Keys 10 and 12 exclude each other; *)
(* 12 and 15 can share either receiver, 10 and 15 only the first.          *)
EXTENDS MultiReceiver

MCHalf == [r \in 1 .. 2 |-> IF r = 1 THEN 5 ELSE 3]
MCKeys == {10, 12, 15}
MCCarriers == [k \in MCKeys |-> {k}]

(* Fewer keys: two channels that only the first receiver can share.        *)
MCFewKeys == {10, 14}
MCFewCarriers == [k \in MCFewKeys |-> {k}]
=============================================================================
