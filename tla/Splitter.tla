------------------------------- MODULE Splitter ------------------------------
(***************************************************************************)
(* The two splitters of the program, with the parts of block, Sink and     *)
(* stream they run on: dsp::routing::Splitter (core/src/dsp/routing/       *)
(* splitter.h) and channel_bank::ContinuousIQSplitter (misc_modules/       *)
(* channel_bank/src/continuous_iq_splitter.h).  They differ in what a      *)
(* cancelled swap does with the input block: the second keeps it, with the *)
(* progress made; the first flushes it.  The input of the core splitter    *)
(* can be replaced while it runs (IQFrontEnd and SinkManager do so).       *)
(*                                                                         *)
(* A stream is the place for one block that module Stream shows it to be.  *)
(* The stop flags doStop() raises one by one on the input and the outputs  *)
(* are one flag: the worker looks at one stream at a time, in that order.  *)
(***************************************************************************)
EXTENDS Naturals, Sequences, SequencesExt

CONSTANTS Inputs,         \* the streams a splitter may be given as input
          Consumers,      \* output streams
          MaxBlocks,      \* bound on the blocks published on each input
          MaxChanges      \* bound on the control calls

ASSUME BoundsAssumption == MaxBlocks \in Nat /\ MaxChanges \in Nat
ASSUME NamesAssumption == "none" \notin Consumers \cup Inputs /\ Inputs # {}

VARIABLES
  keeps,                \* this is a ContinuousIQSplitter
  published, input,     \* per input stream: blocks published; the one in it
  in,                   \* _in
  streams,              \* the vector of bound streams
  delivered, pending,   \* progress of run() through the block it has read
  full,                 \* output streams that hold a block
  put,                  \* put[c][s]: the last block of s handed to c since bound
  lost,                 \* blocks flushed before every bound stream had them
  pc,                   \* the worker: "read", "copy" or "exit"
  running, stopFlag,
  ctl, op, arg,         \* the control call in progress, if any, and its step
  changes

source == <<published, input>>
outputs == <<full, put>>
worker == <<delivered, pending, lost, pc>>
control == <<running, stopFlag, ctl, op, arg, changes>>
vars == <<keeps, source, in, streams, worker, outputs, control>>

NoArg == "none"
Bound == Range(streams)
None == [s \in Inputs |-> 0]

Init ==
  /\ keeps \in BOOLEAN
  /\ published = None /\ input = None
  /\ in = CHOOSE s \in Inputs : TRUE    \* the one given to the constructor
  /\ streams = <<>> /\ delivered = {} /\ pending = FALSE /\ lost = 0
  /\ full = {} /\ put = [c \in Consumers |-> None]
  /\ pc = "exit" /\ running = FALSE /\ stopFlag = FALSE
  /\ ctl = "idle" /\ op = "none" /\ arg = NoArg /\ changes = 0

(* A source swaps the next block into an input stream that is free.        *)
Publish(s) ==
  /\ input[s] = 0 /\ published[s] < MaxBlocks
  /\ keeps => s = in
  /\ published' = [published EXCEPT ![s] = @ + 1]
  /\ input' = [input EXCEPT ![s] = published[s] + 1]
  /\ UNCHANGED <<keeps, in, streams, worker, outputs, control>>

(* A consumer reads and flushes its stream, whenever it pleases.           *)
Consume(c) ==
  /\ c \in full
  /\ full' = full \ {c}
  /\ UNCHANGED <<keeps, source, in, streams, worker, put, control>>

(***************************************************************************)
(* run()                                                                   *)
(***************************************************************************)
ReadBlock ==
  /\ pc = "read" /\ ~pending /\ ~stopFlag /\ input[in] # 0
  /\ pending' = TRUE /\ delivered' = {}
  /\ pc' = "copy"
  /\ UNCHANGED <<keeps, source, in, streams, lost, outputs, control>>

ReadStopped ==
  /\ pc = "read" /\ ~pending /\ stopFlag
  /\ pc' = "exit"
  /\ UNCHANGED <<keeps, source, in, streams, delivered, pending, lost, outputs, control>>

Resume ==
  /\ pc = "read" /\ pending
  /\ pc' = "copy"
  /\ UNCHANGED <<keeps, source, in, streams, delivered, pending, lost, outputs, control>>

(* The loop skips the streams that have the block and stops at this one.   *)
IsNext(k) ==
  /\ streams[k] \notin delivered
  /\ \A j \in 1 .. k - 1 : streams[j] \in delivered

HandTo(c) ==
  /\ full' = full \cup {c}
  /\ put' = [put EXCEPT ![c][in] = input[in]]

(* Seeded fault: a stream that is still full is passed over.               *)
DeliverOrDrop ==
  /\ pc = "copy" /\ ~stopFlag
  /\ \E k \in DOMAIN streams :
       /\ IsNext(k)
       /\ IF streams[k] \in full THEN UNCHANGED outputs ELSE HandTo(streams[k])
       /\ delivered' = delivered \cup {streams[k]}
  /\ UNCHANGED <<keeps, source, in, streams, pending, lost, pc, control>>

Deliver ==
  /\ pc = "copy" /\ ~stopFlag
  /\ \E k \in DOMAIN streams :
       /\ IsNext(k) /\ streams[k] \notin full
       /\ HandTo(streams[k])
       /\ delivered' = delivered \cup {streams[k]}
  /\ UNCHANGED <<keeps, source, in, streams, pending, lost, pc, control>>

(* What is flushed before every bound stream has it is lost.               *)
FlushInput ==
  /\ input' = [input EXCEPT ![in] = 0] /\ pending' = FALSE
  /\ lost' = IF Bound \subseteq delivered THEN lost ELSE lost + 1

(* A cancelled swap: one splitter keeps the block and its progress, the    *)
(* other lets the block go.                                                *)
Swapless == pc = "copy" /\ stopFlag /\ ~(Bound \subseteq delivered)

Cancelled ==
  /\ pc' = "exit"
  /\ UNCHANGED <<keeps, published, in, streams, delivered, outputs, control>>

(* Seeded fault: both flush the input.                                     *)
CancelFlush == Swapless /\ FlushInput /\ Cancelled

(* Seeded fault: both keep the input, the core's without its progress.     *)
CancelRetain ==
  /\ Swapless
  /\ pending' = keeps /\ UNCHANGED <<input, lost>>
  /\ Cancelled

(* Seeded fault: swap() waits for room even when the writer is stopped.    *)
CancelWithRoom ==
  /\ Swapless /\ ~((Bound \ delivered) \subseteq full)
  /\ IF keeps THEN UNCHANGED <<input, pending, lost>> ELSE FlushInput
  /\ Cancelled

Cancel ==
  /\ Swapless
  /\ IF keeps THEN UNCHANGED <<input, pending, lost>> ELSE FlushInput
  /\ Cancelled

(* Seeded fault: the loop ends one stream early.                           *)
FlushEarly ==
  /\ pc = "copy" /\ \A k \in 1 .. Len(streams) - 1 : streams[k] \in delivered
  /\ FlushInput
  /\ pc' = "read"
  /\ UNCHANGED <<keeps, published, in, streams, delivered, outputs, control>>

(* Seeded fault: the input block is not flushed.                           *)
FlushForgotten ==
  /\ pc = "copy" /\ Bound \subseteq delivered
  /\ pending' = FALSE /\ pc' = "read"
  /\ UNCHANGED <<keeps, source, in, streams, delivered, lost, outputs, control>>

Flush ==
  /\ pc = "copy" /\ Bound \subseteq delivered
  /\ FlushInput
  /\ pc' = "read"
  /\ UNCHANGED <<keeps, published, in, streams, delivered, outputs, control>>

(***************************************************************************)
(* Control calls, one at a time under ctrlMtx.  A call that finds the      *)
(* worker running first stops it: doStop() raises the flags, joins the     *)
(* worker and clears them.                                                 *)
(***************************************************************************)
MayCall(o, a) ==
  CASE o = "bind"     -> a \notin Bound     \* binding twice throws
    [] o = "unbind"   -> a \in Bound        \* so does unbinding a stranger
    [] o = "setInput" -> ~keeps
    [] o = "start"    -> ~running
    [] o = "stop"     -> running

Call(o, a) ==
  /\ ctl = "idle" /\ changes < MaxChanges /\ MayCall(o, a)
  /\ op' = o /\ arg' = a /\ changes' = changes + 1
  /\ stopFlag' = running
  /\ ctl' = IF running THEN "join" ELSE "apply"
  /\ UNCHANGED <<keeps, source, in, streams, worker, outputs, running>>

Joined ==
  /\ ctl = "join" /\ pc = "exit"
  /\ stopFlag' = FALSE
  /\ ctl' = "apply"
  /\ UNCHANGED <<keeps, source, in, streams, worker, outputs, running, op, arg, changes>>

(* tempStart() restarts the worker if tempStop() had stopped it.           *)
Restart(alive) ==
  /\ pc' = IF alive THEN "read" ELSE pc
  /\ running' = alive
  /\ ctl' = "idle" /\ op' = "none" /\ arg' = NoArg
  /\ UNCHANGED <<keeps, source, pending, lost, stopFlag, changes>>

(* A stream that was bound before may still hold an old block.             *)
Bind ==
  /\ ctl = "apply" /\ op = "bind"
  /\ streams' = Append(streams, arg) /\ put' = [put EXCEPT ![arg] = None]
  /\ UNCHANGED <<in, delivered, full>>
  /\ Restart(running)

Without(s, c) == RemoveAt(s, CHOOSE k \in DOMAIN s : s[k] = c)

Unbind ==
  /\ ctl = "apply" /\ op = "unbind"
  /\ streams' = Without(streams, arg)
  /\ delivered' = delivered \ {arg}
  /\ UNCHANGED <<in, outputs>>
  /\ Restart(running)

SetInput ==
  /\ ctl = "apply" /\ op = "setInput"
  /\ in' = arg
  /\ UNCHANGED <<streams, delivered, outputs>>
  /\ Restart(running)

StartStop ==
  /\ ctl = "apply" /\ op \in {"start", "stop"}
  /\ UNCHANGED <<in, streams, delivered, outputs>>
  /\ Restart(op = "start")

Worker == ReadBlock \/ ReadStopped \/ Resume \/ Deliver \/ Cancel \/ Flush
Finish == Joined \/ Bind \/ Unbind \/ SetInput \/ StartStop

Next ==
  \/ Worker \/ Finish
  \/ \E s \in Inputs : Publish(s) \/ Call("setInput", s)
  \/ \E c \in Consumers : Consume(c) \/ Call("bind", c) \/ Call("unbind", c)
  \/ Call("start", NoArg) \/ Call("stop", NoArg)

(* The worker and a control call that has begun are always scheduled;      *)
(* nothing makes a consumer drain its stream or a source publish.          *)
Spec == Init /\ [][Next]_vars /\ WF_vars(Worker) /\ WF_vars(Finish)

-----------------------------------------------------------------------------
(* The refinement speaks of the splitter that keeps its input; for the     *)
(* other one nothing ever arrives.                                         *)
F == INSTANCE FanOut WITH
       block <- IF keeps THEN published[in] ELSE 0,
       open <- keeps /\ input[in] # 0,
       members <- IF keeps THEN Bound ELSE {},
       has <- [c \in Consumers |-> IF keeps THEN put[c][in] ELSE 0]

(* Every block is handed once, in order, to every stream that is bound,    *)
(* and the input block is let go only when all of them have it, whatever   *)
(* is bound, unbound, stopped or restarted in the middle of it.            *)
ImplementsFanOut == F!Spec

(* If that splitter stays up, the source keeps publishing and the          *)
(* consumers keep reading, every published block is in the end distributed *)
(* and let go, whatever was bound, unbound or restarted before.            *)
Drains ==
  /\ keeps /\ <>[]running
  /\ \A s \in Inputs : WF_vars(Publish(s))
  /\ \A c \in Consumers : WF_vars(Consume(c))
  => <>[](published[in] = MaxBlocks /\ input[in] = 0)

(* A control call returns even if a consumer never drains its stream and   *)
(* the source publishes nothing more.                                      *)
CallsReturn == ctl # "idle" ~> ctl = "idle"

(* No consumer of either splitter is handed a block a second time,         *)
(* although the loop starts from the first stream after every restart.     *)
NoRepeat ==
  [][\A c \in full' \ full : \E s \in Inputs : put'[c][s] > put[c][s]]_vars

(* Unless a stop is in progress a block reaches every bound stream before  *)
(* the input is flushed.                                                   *)
CompleteUnlessCancelled ==
  [][\A s \in Inputs : input[s] # 0 /\ input'[s] = 0 =>
       stopFlag \/ \A c \in Bound : put[c][s] = input[s]]_vars

(* A control call costs the consumers at most the one block it interrupts, *)
(* and those of the splitter that keeps its input nothing.                 *)
LossBounded == lost <= IF keeps THEN 0 ELSE changes
=============================================================================
