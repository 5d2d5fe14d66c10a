------------------------------- MODULE Stream --------------------------------
(***************************************************************************)
(* dsp::stream<T> (core/src/dsp/stream.h): the two-buffer hand-off between *)
(* the worker of one block and the worker of the next, together with the   *)
(* block::doStop()/doStart() calls that stop and restart either side.      *)
(*                                                                         *)
(* Each step is one critical section of the code, or the code between two  *)
(* of them.  A thread blocked in cv.wait is at pc "wait": it re-checks its *)
(* predicate when it is notified, or spuriously.  A frame is represented   *)
(* by its number, which is also its size; 0 is a buffer being filled.      *)
(***************************************************************************)
EXTENDS Integers

CONSTANT MaxFrames                  \* bound on the frames the writer publishes
ASSUME MaxFramesAssumption == MaxFrames \in Nat

Torn == 0

VARIABLES
  buf,          \* contents of the two buffers
  writeBuf,     \* which of them is writeBuf; the other one is readBuf
  canSwap, writerStop,      \* under swapMtx
  dataReady, readerStop,    \* under rdyMtx
  dataSize,
  wpc, rpc,     \* the writing block's worker and the reading block's worker
  wctl, rctl,   \* the threads that start and stop those blocks
  count,        \* what read() last returned
  sent, got     \* frames published; the last frame processed by the reader

shared == <<buf, writeBuf, canSwap, writerStop, dataReady, readerStop, dataSize>>
vars == <<buf, writeBuf, canSwap, writerStop, dataReady, readerStop, dataSize,
          wpc, rpc, wctl, rctl, count, sent, got>>

readBuf == 1 - writeBuf

Init ==
  /\ buf = [b \in {0, 1} |-> Torn] /\ writeBuf = 0
  /\ canSwap = TRUE /\ dataReady = FALSE /\ writerStop = FALSE /\ readerStop = FALSE
  /\ dataSize = 0 /\ count = 0 /\ sent = 0 /\ got = 0
  /\ wpc = "exit" /\ rpc = "exit" /\ wctl = "stopped" /\ rctl = "stopped"

(* notify_all: where a thread at pc goes when its variable is notified.    *)
Woken(pc, check) == IF pc = "wait" THEN check ELSE pc

(***************************************************************************)
(* The writer's worker: fill writeBuf, then swap().                        *)
(***************************************************************************)
Fill ==
  /\ wpc = "fill" /\ sent < MaxFrames
  /\ buf' = [buf EXCEPT ![writeBuf] = Torn]
  /\ wpc' = "filling"
  /\ UNCHANGED <<writeBuf, canSwap, writerStop, dataReady, readerStop, dataSize,
                 rpc, wctl, rctl, count, sent, got>>

Filled ==
  /\ wpc = "filling"
  /\ buf' = [buf EXCEPT ![writeBuf] = sent + 1]
  /\ wpc' = "swap"
  /\ UNCHANGED <<writeBuf, canSwap, writerStop, dataReady, readerStop, dataSize,
                 rpc, wctl, rctl, count, sent, got>>

(* doStop() also stops the block's own inputs: the worker then returns     *)
(* without producing a frame.                                              *)
FillAbandon ==
  /\ wpc = "fill" /\ wctl # "run"
  /\ wpc' = "exit"
  /\ UNCHANGED <<shared, rpc, wctl, rctl, count, sent, got>>

MayLeaveSwap == canSwap \/ writerStop

SwapWait ==
  /\ wpc = "swap" /\ ~MayLeaveSwap
  /\ wpc' = "wait"
  /\ UNCHANGED <<shared, rpc, wctl, rctl, count, sent, got>>

SwapAbandon ==
  /\ wpc = "swap" /\ writerStop
  /\ wpc' = "exit"
  /\ UNCHANGED <<shared, rpc, wctl, rctl, count, sent, got>>

SwapBuffers ==
  /\ wpc = "swap" /\ MayLeaveSwap /\ ~writerStop
  /\ dataSize' = sent + 1
  /\ writeBuf' = readBuf
  /\ canSwap' = FALSE
  /\ sent' = sent + 1
  /\ wpc' = "ready"
  /\ UNCHANGED <<buf, writerStop, dataReady, readerStop, rpc, wctl, rctl, count, got>>

SetReady ==
  /\ wpc = "ready"
  /\ dataReady' = TRUE
  /\ wpc' = "notify"
  /\ UNCHANGED <<buf, writeBuf, canSwap, writerStop, readerStop, dataSize,
                 rpc, wctl, rctl, count, sent, got>>

NotifyReader ==
  /\ wpc = "notify"
  /\ rpc' = Woken(rpc, "read")
  /\ wpc' = "fill"
  /\ UNCHANGED <<shared, wctl, rctl, count, sent, got>>

(***************************************************************************)
(* The reader's worker: read(), use readBuf, then flush().                 *)
(***************************************************************************)
(* Seeded fault: the predicate of read() forgets readerStop.               *)
MayLeaveReadOnlyReady == dataReady

MayLeaveRead == dataReady \/ readerStop

ReadWait ==
  /\ rpc = "read" /\ ~MayLeaveRead
  /\ rpc' = "wait"
  /\ UNCHANGED <<shared, wpc, wctl, rctl, count, sent, got>>

ReadAbandon ==
  /\ rpc = "read" /\ readerStop
  /\ rpc' = "exit"
  /\ UNCHANGED <<shared, wpc, wctl, rctl, count, sent, got>>

ReadCount ==
  /\ rpc = "read" /\ MayLeaveRead /\ ~readerStop
  /\ count' = dataSize
  /\ rpc' = "process"
  /\ UNCHANGED <<shared, wpc, wctl, rctl, sent, got>>

Process ==
  /\ rpc = "process"
  /\ got' = buf[readBuf]
  /\ rpc' = "unready"
  /\ UNCHANGED <<shared, wpc, wctl, rctl, count, sent>>

(* flush(), first section: the data is no longer ready ...                 *)
FlushReady ==
  /\ rpc = "unready"
  /\ dataReady' = FALSE
  /\ rpc' = "release"
  /\ UNCHANGED <<buf, writeBuf, canSwap, writerStop, readerStop, dataSize,
                 wpc, wctl, rctl, count, sent, got>>

(* ... second section: and only then can the writer swap again.            *)
FlushSwap ==
  /\ rpc = "release"
  /\ canSwap' = TRUE
  /\ rpc' = "notify"
  /\ UNCHANGED <<buf, writeBuf, writerStop, dataReady, readerStop, dataSize,
                 wpc, wctl, rctl, count, sent, got>>

(* Seeded fault: flush() forgets to notify swapCV.                         *)
NotifyWriterForgotten ==
  /\ rpc = "notify" /\ rpc' = "read"
  /\ UNCHANGED <<shared, wpc, wctl, rctl, count, sent, got>>

NotifyWriter ==
  /\ rpc = "notify"
  /\ wpc' = Woken(wpc, "swap")
  /\ rpc' = "read"
  /\ UNCHANGED <<shared, wctl, rctl, count, sent, got>>

(* A condition variable may wake its thread for no reason.                 *)
Spurious ==
  /\ \/ wpc = "wait" /\ wpc' = "swap" /\ UNCHANGED rpc
     \/ rpc = "wait" /\ rpc' = "read" /\ UNCHANGED wpc
  /\ UNCHANGED <<shared, wctl, rctl, count, sent, got>>

(***************************************************************************)
(* block::doStart()/doStop() of the writing block (its output's writer     *)
(* side) and of the reading block (its input's reader side).               *)
(***************************************************************************)
StartWriter ==
  /\ wctl = "stopped"
  /\ wctl' = "run" /\ wpc' = "fill"
  /\ UNCHANGED <<shared, rpc, rctl, count, sent, got>>

StopWriter ==
  /\ wctl = "run"
  /\ writerStop' = TRUE
  /\ wctl' = "notify"
  /\ UNCHANGED <<buf, writeBuf, canSwap, dataReady, readerStop, dataSize,
                 wpc, rpc, rctl, count, sent, got>>

StopWriterNotify ==
  /\ wctl = "notify"
  /\ wpc' = Woken(wpc, "swap")
  /\ wctl' = "join"
  /\ UNCHANGED <<shared, rpc, rctl, count, sent, got>>

(* Seeded fault: clearing the stop also resets canSwap.                    *)
JoinWriterReset ==
  /\ wctl = "join" /\ wpc = "exit"
  /\ writerStop' = FALSE /\ canSwap' = TRUE
  /\ wctl' = "stopped"
  /\ UNCHANGED <<buf, writeBuf, dataReady, readerStop, dataSize,
                 wpc, rpc, rctl, count, sent, got>>

(* join() has returned: clearWriteStop(), without swapMtx.                 *)
JoinWriter ==
  /\ wctl = "join" /\ wpc = "exit"
  /\ writerStop' = FALSE
  /\ wctl' = "stopped"
  /\ UNCHANGED <<buf, writeBuf, canSwap, dataReady, readerStop, dataSize,
                 wpc, rpc, rctl, count, sent, got>>

StartReader ==
  /\ rctl = "stopped"
  /\ rctl' = "run" /\ rpc' = "read"
  /\ UNCHANGED <<shared, wpc, wctl, count, sent, got>>

StopReader ==
  /\ rctl = "run"
  /\ readerStop' = TRUE
  /\ rctl' = "notify"
  /\ UNCHANGED <<buf, writeBuf, canSwap, writerStop, dataReady, dataSize,
                 wpc, rpc, wctl, count, sent, got>>

StopReaderNotify ==
  /\ rctl = "notify"
  /\ rpc' = Woken(rpc, "read")
  /\ rctl' = "join"
  /\ UNCHANGED <<shared, wpc, wctl, count, sent, got>>

(* Seeded fault: clearing the stop also flushes the stream.                *)
JoinReaderFlush ==
  /\ rctl = "join" /\ rpc = "exit"
  /\ readerStop' = FALSE /\ dataReady' = FALSE /\ canSwap' = TRUE
  /\ rctl' = "stopped"
  /\ UNCHANGED <<buf, writeBuf, writerStop, dataSize, wpc, rpc, wctl, count, sent, got>>

JoinReader ==
  /\ rctl = "join" /\ rpc = "exit"
  /\ readerStop' = FALSE
  /\ rctl' = "stopped"
  /\ UNCHANGED <<buf, writeBuf, canSwap, writerStop, dataReady, dataSize,
                 wpc, rpc, wctl, count, sent, got>>

Writer == Fill \/ Filled \/ FillAbandon \/ SwapWait \/ SwapAbandon \/ SwapBuffers \/ SetReady \/ NotifyReader
Reader == ReadWait \/ ReadAbandon \/ ReadCount \/ Process \/ FlushReady \/ FlushSwap \/ NotifyWriter
FinishStopWriter == StopWriterNotify \/ JoinWriter
FinishStopReader == StopReaderNotify \/ JoinReader
Control == StartWriter \/ StopWriter \/ StartReader \/ StopReader

Next == Writer \/ Reader \/ Spurious \/ Control \/ FinishStopWriter \/ FinishStopReader

(* Every thread keeps being scheduled, and so is a thread inside doStop(); *)
(* nothing forces a call of start() or stop(), nor a spurious wake-up.     *)
Fairness ==
  /\ WF_vars(Writer) /\ WF_vars(Reader)
  /\ WF_vars(FinishStopWriter) /\ WF_vars(FinishStopReader)

Safe == Init /\ [][Next]_vars
Spec == Safe /\ Fairness

-----------------------------------------------------------------------------
Frames == 0 .. MaxFrames
WriterPC == {"fill", "filling", "swap", "wait", "ready", "notify", "exit"}
ReaderPC == {"read", "wait", "process", "unready", "release", "notify", "exit"}
Ctl == {"stopped", "run", "notify", "join"}

(* The variables of a stream (stream.h:130-145) and of its two workers     *)
(* range over these sets.                                                  *)
TypeOK ==
  /\ buf \in [{0, 1} -> Frames] /\ writeBuf \in {0, 1}
  /\ canSwap \in BOOLEAN /\ writerStop \in BOOLEAN
  /\ dataReady \in BOOLEAN /\ readerStop \in BOOLEAN
  /\ dataSize \in Frames /\ count \in Frames /\ sent \in Frames /\ got \in Frames
  /\ wpc \in WriterPC /\ rpc \in ReaderPC
  /\ wctl \in Ctl /\ rctl \in Ctl

(* While the reading block uses readBuf it finds there a whole frame, of   *)
(* the size read() returned, which is the one after the last it processed: *)
(* the writer, which at the same time may be filling its own buffer, being *)
(* stopped or being restarted, never touches it.                           *)
FrameIntegrity ==
  rpc = "process" => buf[readBuf] = count /\ count = got + 1

(* No wake-up is lost on either condition variable: if a worker is blocked *)
(* although its predicate holds, the thread that made the predicate true   *)
(* is still about to call notify_all.                                      *)
NoLostWakeup ==
  /\ wpc = "wait" /\ MayLeaveSwap => rpc = "notify" \/ wctl = "notify"
  /\ rpc = "wait" /\ MayLeaveRead => wpc = "notify" \/ rctl = "notify"

(* doStop() of either block returns, whatever the other block does: it may *)
(* be stopped, blocked, or in the middle of a frame.                       *)
StopReturns ==
  /\ wctl = "notify" ~> wctl = "stopped"
  /\ rctl = "notify" ~> rctl = "stopped"

SideOf(ctl) == CASE ctl = "run" -> "up" [] ctl = "stopped" -> "down" [] OTHER -> "stopping"
H == INSTANCE Handoff WITH writer <- SideOf(wctl), reader <- SideOf(rctl)

(* The two-buffer stream implements the abstract hand-off: no frame is     *)
(* lost, repeated or reordered across any interleaving of stops and        *)
(* restarts of both sides (safety), and frames flow and stops return       *)
(* (liveness).                                                             *)
Implements == H!Spec
=============================================================================
