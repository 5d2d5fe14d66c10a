------------------------------ MODULE FrameBuffer ------------------------------
(***************************************************************************)
(* dsp::buffer::SampleFrameBuffer (core/src/dsp/buffer/frame_buffer.h),    *)
(* the elastic buffer at the head of IQFrontEnd: run() puts the frames of  *)
(* its input on a ring, a second thread, worker(), moves them to the       *)
(* output, and the GUI stops, starts, flushes and re-inputs it.            *)
(*                                                                         *)
(* An input is the place for one frame that module Stream shows a stream   *)
(* to be; of the output the two buffers are kept, because both threads may *)
(* write to it.  The stop flags of the two streams are one flag.  At       *)
(* wpc = "sleep" worker() has found the ring empty and is about to block:  *)
(* it still holds bufMtx.                                                  *)
(*                                                                         *)
(* IQFrontEnd::setBuffering() turns `bypass` on and off under no lock: the *)
(* file source calls it when it is selected and deselected.  With frames   *)
(* on their way the output then has two writers, which share its write     *)
(* buffer; where both copy at a time the later one is taken to win.        *)
(***************************************************************************)
EXTENDS Naturals, Sequences, SequencesExt

CONSTANTS Inputs,         \* the streams it may be given as input
          Size,           \* TEST_BUFFER_SIZE
          MaxFrames,      \* bound on the frames published
          MaxChanges      \* bound on the control calls

ASSUME BoundsAssumption ==
  /\ Size \in Nat \ {0, 1} /\ MaxFrames \in Nat /\ MaxChanges \in Nat /\ Inputs # {}

VARIABLES
  published, input,       \* frames published; input[s]: the one in stream s
  in, bypass,
  buffers, writeCur, readCur,
  writeBuf, readBuf, canSwap,   \* the output stream
  rpc, wpc,               \* run() and worker()
  log, sent,              \* history: frames accepted; frames put in the output
  mixed, clashed,         \* history: see Mixing and CopyOut
  running, stopFlag, stopWorker,
  ctl, op, arg, changes   \* the control call in progress, if any, and its step

ring == <<buffers, writeCur, readCur>>
output == <<writeBuf, readBuf, canSwap, sent, clashed>>
control == <<running, stopFlag, stopWorker, ctl, op, arg, changes>>
vars == <<published, input, in, bypass, mixed, ring, output, rpc, wpc, log, control>>

None == 0
Readable == (writeCur + Size - readCur) % Size
Unlocked == wpc # "sleep"

Init ==
  /\ published = 0 /\ input = [s \in Inputs |-> None] /\ bypass = FALSE
  /\ in = CHOOSE s \in Inputs : TRUE    \* the one given to init()
  /\ buffers = [i \in 0 .. Size - 1 |-> None] /\ writeCur = 0 /\ readCur = 0
  /\ writeBuf = None /\ readBuf = None /\ canSwap = TRUE /\ rpc = "exit" /\ wpc = "exit"
  /\ log = <<>> /\ sent = <<>> /\ mixed = FALSE /\ clashed = FALSE
  /\ running = FALSE /\ stopFlag = FALSE /\ stopWorker = FALSE
  /\ ctl = "idle" /\ op = "none" /\ arg = in /\ changes = 0

(* A source swaps the next frame into an input stream that is free.        *)
Publish(s) ==
  /\ published < MaxFrames /\ input[s] = None
  /\ published' = published + 1 /\ input' = [input EXCEPT ![s] = published']
  /\ UNCHANGED <<in, bypass, mixed, ring, output, rpc, wpc, log, control>>

(* The consumer has read the frame in the output and flushes it.           *)
Consume ==
  /\ ~canSwap /\ canSwap' = TRUE
  /\ UNCHANGED <<published, input, in, bypass, mixed, ring, writeBuf, readBuf, sent, clashed,
                 rpc, wpc, log, control>>

Woken == IF wpc = "wait" THEN "check" ELSE wpc

(* swap() of the output exchanges its buffers: what the write buffer holds *)
(* after it is the frame of the swap before.                               *)
SwapOut ==
  /\ ~stopFlag /\ canSwap
  /\ writeBuf' = readBuf /\ readBuf' = writeBuf /\ canSwap' = FALSE
  /\ sent' = Append(sent, writeBuf)
  /\ UNCHANGED clashed

(* A thread copies frame f into the write buffer; the other one may have a *)
(* frame of its own there that it has not swapped out yet.                 *)
CopyOut(f, other) ==
  /\ writeBuf' = f
  /\ clashed' = (clashed \/ other = "swap")
  /\ UNCHANGED <<readBuf, canSwap, sent>>

(***************************************************************************)
(* run(): read a frame, put it on the ring or, with bypass, in the output. *)
(***************************************************************************)
ReadFrame ==
  /\ rpc = "read" /\ ~stopFlag /\ input[in] # None
  /\ rpc' = IF bypass THEN "copy" ELSE "push"
  /\ UNCHANGED <<published, input, in, bypass, mixed, ring, output, wpc, log, control>>

Accept ==
  /\ log' = Append(log, input[in]) /\ input' = [input EXCEPT ![in] = None]
  /\ UNCHANGED <<published, in, bypass, mixed, readCur, control>>

(* Seeded faults: the newest frame replaces the last one when the ring is  *)
(* full; worker() is not told of the frame.                                *)
PushInPlace ==
  /\ rpc = "push" /\ Unlocked /\ Accept
  /\ buffers' = [buffers EXCEPT ![writeCur] = input[in]]
  /\ writeCur' = IF Readable = Size - 1 THEN writeCur ELSE (writeCur + 1) % Size
  /\ wpc' = Woken /\ rpc' = "read"
  /\ UNCHANGED output

PushSilently ==
  /\ rpc = "push" /\ Unlocked /\ Accept
  /\ buffers' = [buffers EXCEPT ![writeCur] = input[in]]
  /\ writeCur' = (writeCur + 1) % Size
  /\ rpc' = "read"
  /\ UNCHANGED <<output, wpc>>

Push ==
  /\ rpc = "push" /\ Unlocked /\ Accept
  /\ buffers' = [buffers EXCEPT ![writeCur] = input[in]]
  /\ writeCur' = (writeCur + 1) % Size
  /\ wpc' = Woken /\ rpc' = "read"
  /\ UNCHANGED output

Bypass ==
  /\ rpc = "copy" /\ Accept
  /\ CopyOut(input[in], wpc) /\ rpc' = "swap"
  /\ UNCHANGED <<buffers, writeCur, wpc>>

BypassSwap ==
  /\ rpc = "swap" /\ SwapOut
  /\ rpc' = "read"
  /\ UNCHANGED <<published, input, in, bypass, mixed, ring, wpc, log, control>>

RunStopped ==
  /\ rpc \in {"read", "swap"} /\ stopFlag
  /\ rpc' = "exit"
  /\ UNCHANGED <<published, input, in, bypass, mixed, ring, output, wpc, log, control>>

(***************************************************************************)
(* worker()                                                                *)
(***************************************************************************)
(* Seeded fault: the read cursor is not moved on.                          *)
CopyAgain ==
  /\ wpc = "check" /\ ~stopWorker /\ Readable > 0
  /\ CopyOut(buffers[readCur], rpc)
  /\ wpc' = "swap"
  /\ UNCHANGED <<published, input, in, bypass, mixed, ring, rpc, log, control>>

Copy ==
  /\ wpc = "check" /\ ~stopWorker /\ Readable > 0
  /\ CopyOut(buffers[readCur], rpc) /\ readCur' = (readCur + 1) % Size
  /\ wpc' = "swap"
  /\ UNCHANGED <<published, input, in, bypass, mixed, buffers, writeCur, rpc, log, control>>

Empty ==
  /\ wpc = "check" /\ ~stopWorker /\ Readable = 0
  /\ wpc' = "sleep"
  /\ UNCHANGED <<published, input, in, bypass, mixed, ring, output, rpc, log, control>>

(* It blocks, releasing bufMtx; it may wake up spuriously.                 *)
Sleep ==
  /\ wpc = "sleep" /\ wpc' = "wait"
  /\ UNCHANGED <<published, input, in, bypass, mixed, ring, output, rpc, log, control>>

Spurious ==
  /\ wpc = "wait" /\ wpc' = "check"
  /\ UNCHANGED <<published, input, in, bypass, mixed, ring, output, rpc, log, control>>

Swap ==
  /\ wpc = "swap" /\ SwapOut
  /\ wpc' = "check"
  /\ UNCHANGED <<published, input, in, bypass, mixed, ring, rpc, log, control>>

WorkerStopped ==
  /\ \/ wpc = "check" /\ stopWorker
     \/ wpc = "swap" /\ stopFlag
  /\ wpc' = "exit"
  /\ UNCHANGED <<published, input, in, bypass, mixed, ring, output, rpc, log, control>>

(* setBuffering().  The two ways through the buffer mix if a frame is      *)
(* still on one of them.                                                   *)
Mixing == Readable > 0 \/ wpc = "swap" \/ rpc \in {"push", "copy", "swap"}

setBuffering ==
  /\ changes < MaxChanges /\ changes' = changes + 1
  /\ bypass' = ~bypass /\ mixed' = (mixed \/ Mixing)
  /\ UNCHANGED <<published, input, in, ring, output, rpc, wpc, log, running, stopFlag,
                 stopWorker, ctl, op, arg>>

(***************************************************************************)
(* start(), stop(), setInput() and flush(), under ctrlMtx but for flush(). *)
(***************************************************************************)
Call(o, s) ==
  /\ ctl = "idle" /\ changes < MaxChanges
  /\ o = "start" => ~running
  /\ op' = o /\ arg' = s /\ changes' = changes + 1
  /\ ctl' = IF running THEN "streams" ELSE "apply"
  /\ UNCHANGED <<published, input, in, bypass, mixed, ring, output, rpc, wpc, log,
                 running, stopFlag, stopWorker>>

(* doStop(): stopReader() and stopWriter(), then stopWorker, which is set  *)
(* and notified without bufMtx.                                            *)
StopStreams ==
  /\ ctl = "streams"
  /\ stopFlag' = TRUE /\ ctl' = "worker"
  /\ UNCHANGED <<published, input, in, bypass, mixed, ring, output, rpc, wpc, log,
                 running, stopWorker, op, arg, changes>>

StopWorker ==
  /\ ctl = "worker"
  /\ stopWorker' = TRUE /\ wpc' = Woken /\ ctl' = "join"
  /\ UNCHANGED <<published, input, in, bypass, mixed, ring, output, rpc, log,
                 running, stopFlag, op, arg, changes>>

Join ==
  /\ ctl = "join" /\ rpc = "exit" /\ wpc = "exit"
  /\ stopFlag' = FALSE /\ stopWorker' = FALSE /\ ctl' = "apply"
  /\ UNCHANGED <<published, input, in, bypass, mixed, ring, output, rpc, wpc, log,
                 running, op, arg, changes>>

(* The rest of the call: a stopped block stays so, a re-input one is       *)
(* started again if it was running.                                        *)
Apply ==
  /\ ctl = "apply" /\ ctl' = "idle"
  /\ running' = CASE op = "start" -> TRUE [] op = "stop" -> FALSE [] OTHER -> running
  /\ in' = IF op = "setInput" THEN arg ELSE in
  /\ op' = "none" /\ arg' = in'
  /\ rpc' = (IF running' THEN "read" ELSE "exit") /\ wpc' = (IF running' THEN "check" ELSE "exit")
  /\ UNCHANGED <<published, input, bypass, mixed, ring, output, log,
                 stopFlag, stopWorker, changes>>

flush ==
  /\ Unlocked /\ readCur # writeCur
  /\ readCur' = writeCur
  /\ UNCHANGED <<published, input, in, bypass, mixed, buffers, writeCur, output, rpc, wpc, log, control>>

Run == ReadFrame \/ Push \/ Bypass \/ BypassSwap \/ RunStopped
Worker == Copy \/ Empty \/ Sleep \/ Swap \/ WorkerStopped
Finish == StopStreams \/ StopWorker \/ Join \/ Apply

Next ==
  \/ Run \/ Worker \/ Finish \/ Consume \/ Spurious \/ flush \/ setBuffering
  \/ \E s \in Inputs : Publish(s) \/ Call("setInput", s)
  \/ Call("start", in) \/ Call("stop", in)

(* Both threads of the block and a control call that has begun are         *)
(* scheduled.                                                              *)
Spec == Init /\ [][Next]_vars /\ WF_vars(Run) /\ WF_vars(Worker) /\ WF_vars(Finish)
-----------------------------------------------------------------------------
(* The frames between the cursors are the newest ones accepted, with no    *)
(* gap: an overrun, which makes the full ring look empty, and flush()      *)
(* discard all that was waiting, and never only some of it.                *)
NewestKept ==
  ~mixed =>
    \A i \in 0 .. Readable - 1 :
      buffers[(readCur + i) % Size] = log[Len(log) - Readable + i + 1]

(* Across any setBuffering() that finds no frame under way, the frames are *)
(* put in the output in the order in which they were accepted.             *)
InOrder ==
  ~mixed =>
    \A i, j \in DOMAIN sent : i < j =>
      \E a, b \in DOMAIN log : log[a] = sent[i] /\ log[b] = sent[j] /\ a < b

(* No frame is put in the output twice, also across a setBuffering() with  *)
(* frames under way, unless that has led one thread to copy a frame into   *)
(* the write buffer while the other was waiting to swap its own out: one   *)
(* of the two frames is then lost and an old one published in its place.   *)
NoneTwice == ~clashed => \A i, j \in DOMAIN sent : sent[i] = sent[j] => i = j

(* Whatever is lost to overruns, flushes and stops, and also when the ring *)
(* is overrun while worker() waits to swap a frame out, the output gets    *)
(* each frame at most once, and in order, each under its condition.        *)
Ordered == InOrder /\ NoneTwice

(* If the block stays up and its output is drained, the ring is emptied    *)
(* without the help of further frames.  A control call returns, whatever   *)
(* the consumer does, except that worker() may have been about to block    *)
(* when it was told to stop: it then sleeps through it.                    *)
LostWakeup == wpc = "wait" /\ stopWorker

DrainsAndStops ==
  /\ WF_vars(Consume) /\ <>[](running /\ ctl = "idle") => <>[](readCur = writeCur /\ canSwap)
  /\ ctl # "idle" ~> (ctl = "idle" \/ LostWakeup)
=============================================================================
