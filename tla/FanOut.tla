-------------------------------- MODULE FanOut -------------------------------
(***************************************************************************)
(* What a splitter has to promise while its membership changes: blocks     *)
(* 1, 2, 3, ... arrive one at a time; each is handed once to every current *)
(* consumer and let go only when all of them have it.  A consumer may join *)
(* or leave at any moment, also in the middle of a block.                  *)
(***************************************************************************)
EXTENDS Naturals

CONSTANTS Consumers, MaxBlocks

VARIABLES block,      \* the last block that arrived
          open,       \* it has not been let go yet
          members,    \* the current consumers
          has         \* has[c]: the last block handed to c, 0 since it joined

vars == <<block, open, members, has>>

Init == block = 0 /\ open = FALSE /\ members = {} /\ has = [c \in Consumers |-> 0]

Arrive ==
  /\ ~open /\ block < MaxBlocks
  /\ block' = block + 1 /\ open' = TRUE
  /\ UNCHANGED <<members, has>>

Hand(c) ==
  /\ open /\ c \in members /\ has[c] < block
  /\ has' = [has EXCEPT ![c] = block]
  /\ UNCHANGED <<block, open, members>>

Release ==
  /\ open /\ \A c \in members : has[c] = block
  /\ open' = FALSE
  /\ UNCHANGED <<block, members, has>>

Join(c) ==
  /\ c \notin members
  /\ members' = members \cup {c} /\ has' = [has EXCEPT ![c] = 0]
  /\ UNCHANGED <<block, open>>

Leave(c) ==
  /\ c \in members
  /\ members' = members \ {c}
  /\ UNCHANGED <<block, open, has>>

Next == Arrive \/ Release \/ \E c \in Consumers : Hand(c) \/ Join(c) \/ Leave(c)

Spec == Init /\ [][Next]_vars
=============================================================================
