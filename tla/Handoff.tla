------------------------------- MODULE Handoff -------------------------------
(***************************************************************************)
(* What a dsp::stream promises to the two blocks it connects, with none of *)
(* its mutexes, condition variables or buffers: frames 1, 2, 3, ... are    *)
(* put by one writer and taken by one reader, in order, at most one of     *)
(* them in flight, and either side can be stopped and started again at any *)
(* time without a frame being lost, repeated or reordered.                 *)
(***************************************************************************)
EXTENDS Naturals

CONSTANT MaxFrames                  \* bound on the frames the writer puts

Side == {"up", "stopping", "down"}  \* a block's worker, as stop()/start() see it

VARIABLES sent,     \* frames put so far
          got,      \* the last frame taken, 0 before the first
          writer, reader

vars == <<sent, got, writer, reader>>

Init == sent = 0 /\ got = 0 /\ writer = "down" /\ reader = "down"

(* The writer puts the next frame once the last one has been taken.        *)
Put ==
  /\ writer # "down" /\ sent = got /\ sent < MaxFrames
  /\ sent' = sent + 1
  /\ UNCHANGED <<got, writer, reader>>

(* The reader takes the frame in flight: always the one after the last.    *)
Take ==
  /\ reader # "down" /\ got < sent
  /\ got' = got + 1
  /\ UNCHANGED <<sent, writer, reader>>

WriterControl ==
  /\ \/ writer = "down"     /\ writer' = "up"
     \/ writer = "up"       /\ writer' = "stopping"
     \/ writer = "stopping" /\ writer' = "down"
  /\ UNCHANGED <<sent, got, reader>>

ReaderControl ==
  /\ \/ reader = "down"     /\ reader' = "up"
     \/ reader = "up"       /\ reader' = "stopping"
     \/ reader = "stopping" /\ reader' = "down"
  /\ UNCHANGED <<sent, got, writer>>

Next == Put \/ Take \/ WriterControl \/ ReaderControl

(* A side that is up makes progress whenever it can, and a stop returns;   *)
(* nobody has to call start() or stop().                                   *)
Fairness ==
  /\ WF_vars(writer = "up" /\ Put)
  /\ WF_vars(reader = "up" /\ Take)
  /\ WF_vars(writer = "stopping" /\ WriterControl)
  /\ WF_vars(reader = "stopping" /\ ReaderControl)

Safe == Init /\ [][Next]_vars
Spec == Safe /\ Fairness
=============================================================================
