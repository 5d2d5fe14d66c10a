-------------------------------- MODULE Block --------------------------------
(***************************************************************************)
(* The life cycle of a dsp::block (core/src/dsp/block.h): start(), stop()  *)
(* and the tempStop() ... tempStart() windows in which it is reconfigured, *)
(* called by several control threads while its worker runs.                *)
(*                                                                         *)
(* start() and stop() hold ctrlMtx.  tempStop() and tempStart() hold       *)
(* nothing: the setters of the blocks (Processor::setInput, ...) lock      *)
(* ctrlMtx around the whole window, IQFrontEnd does not.  Unlocked is the  *)
(* set of threads that open their outer window the way IQFrontEnd does.    *)
(***************************************************************************)
EXTENDS Naturals

CONSTANTS Threads, Unlocked,
          MaxCalls                \* bound on the calls made

ASSUME ThreadsAssumption == Unlocked \subseteq Threads /\ "nobody" \notin Threads
ASSUME MaxCallsAssumption == MaxCalls \in Nat

Nobody == "nobody"

VARIABLES
  owner,          \* the thread that holds ctrlMtx
  running, tempStopped, tempStopDepth,
  worker,         \* workerThread: "none", "alive" or "ended" but not joined
  stopFlag,       \* stopReader()/stopWriter() on its streams
  terminated,     \* std::terminate: a joinable std::thread was assigned to
  pc, task,       \* what each thread is doing, and for which call
  level,          \* windows the thread has open
  calls

vars == <<owner, running, tempStopped, tempStopDepth, worker, stopFlag, terminated,
          pc, task, level, calls>>

Init ==
  /\ owner = Nobody /\ running = FALSE /\ tempStopped = FALSE /\ tempStopDepth = 0
  /\ worker = "none" /\ stopFlag = FALSE /\ terminated = FALSE
  /\ pc = [t \in Threads |-> "idle"] /\ task = [t \in Threads |-> "none"]
  /\ level = [t \in Threads |-> 0] /\ calls = 0

Goto(t, where) == pc' = [pc EXCEPT ![t] = where]

(* workerLoop() ends once a stream of the block has been stopped.          *)
WorkerEnds ==
  /\ worker = "alive" /\ stopFlag
  /\ worker' = "ended"
  /\ UNCHANGED <<owner, running, tempStopped, tempStopDepth, stopFlag, terminated,
                 pc, task, level, calls>>

(* doStart()                                                               *)
Spawn == IF worker = "none" THEN worker' = "alive" /\ UNCHANGED terminated
                            ELSE terminated' = TRUE /\ UNCHANGED worker

(***************************************************************************)
(* start() and stop()                                                      *)
(***************************************************************************)
(* Seeded fault: the call does not lock ctrlMtx.                           *)
LockNever(t) == UNCHANGED owner

Lock(t) == owner = Nobody /\ owner' = t

Begin(t, call) ==
  /\ pc[t] = "idle" /\ calls < MaxCalls
  /\ IF call = "window" /\ t \in Unlocked THEN UNCHANGED owner ELSE Lock(t)
  /\ task' = [task EXCEPT ![t] = call]
  /\ Goto(t, call)
  /\ calls' = calls + 1
  /\ UNCHANGED <<running, tempStopped, tempStopDepth, worker, stopFlag, terminated, level>>

Start(t) ==
  /\ pc[t] = "start"
  /\ IF running THEN UNCHANGED <<worker, terminated>> ELSE Spawn
  /\ running' = TRUE
  /\ Goto(t, "return")
  /\ UNCHANGED <<owner, tempStopped, tempStopDepth, stopFlag, task, level, calls>>

Stop(t) ==
  /\ pc[t] = "stop"
  /\ Goto(t, IF running THEN "flag" ELSE "return")
  /\ UNCHANGED <<owner, running, tempStopped, tempStopDepth, worker, stopFlag,
                 terminated, task, level, calls>>

Return(t) ==
  /\ pc[t] = "return"
  /\ owner' = IF owner = t THEN Nobody ELSE owner
  /\ task' = [task EXCEPT ![t] = "none"]
  /\ Goto(t, "idle")
  /\ UNCHANGED <<running, tempStopped, tempStopDepth, worker, stopFlag, terminated,
                 level, calls>>

(***************************************************************************)
(* doStop(): stop the streams, join the worker if it is joinable, clear    *)
(* the streams; then the rest of stop() or of tempStop().                  *)
(***************************************************************************)
(* Seeded fault: a block without inputs stops no stream at all.            *)
StopStreamsNone(t) ==
  /\ pc[t] = "flag"
  /\ Goto(t, "join")
  /\ UNCHANGED <<owner, running, tempStopped, tempStopDepth, worker, stopFlag, terminated,
                 task, level, calls>>

StopStreams(t) ==
  /\ pc[t] = "flag"
  /\ stopFlag' = TRUE
  /\ Goto(t, "join")
  /\ UNCHANGED <<owner, running, tempStopped, tempStopDepth, worker, terminated,
                 task, level, calls>>

(* Seeded fault: a worker that has not ended is abandoned.                 *)
JoinNoWait(t) ==
  /\ pc[t] = "join"
  /\ Goto(t, "clear")
  /\ UNCHANGED <<owner, running, tempStopped, tempStopDepth, worker, stopFlag, terminated,
                 task, level, calls>>

Join(t) ==
  /\ pc[t] = "join" /\ worker # "alive"
  /\ worker' = "none"
  /\ Goto(t, "clear")
  /\ UNCHANGED <<owner, running, tempStopped, tempStopDepth, stopFlag, terminated,
                 task, level, calls>>

ClearStreams(t) ==
  /\ pc[t] = "clear"
  /\ stopFlag' = FALSE
  /\ IF task[t] = "stop"
     THEN running' = FALSE /\ UNCHANGED tempStopped /\ Goto(t, "return")
     ELSE tempStopped' = TRUE /\ UNCHANGED running /\ Goto(t, "inside")
  /\ UNCHANGED <<owner, tempStopDepth, worker, terminated, task, level, calls>>

(***************************************************************************)
(* The reconfiguration windows.  Inside one, a thread may call a setter    *)
(* that opens another (IQFrontEnd::setDecimation calls setRatio); inside   *)
(* the innermost it changes what run() uses.                               *)
(***************************************************************************)
OpenWindow(t) ==
  /\ level' = [level EXCEPT ![t] = @ + 1]
  /\ tempStopDepth' = tempStopDepth + 1
  /\ Goto(t, IF tempStopDepth = 0 /\ running /\ ~tempStopped THEN "flag" ELSE "inside")

TempStop(t) ==
  /\ pc[t] = "window"
  /\ OpenWindow(t)
  /\ UNCHANGED <<owner, running, tempStopped, worker, stopFlag, terminated, task, calls>>

Setter(t) ==
  /\ pc[t] = "inside" /\ level[t] = 1 /\ calls < MaxCalls
  /\ IF owner = t THEN UNCHANGED owner ELSE Lock(t)
  /\ OpenWindow(t)
  /\ calls' = calls + 1
  /\ UNCHANGED <<running, tempStopped, worker, stopFlag, terminated, task>>

(* Seeded fault: tempStopped is not reset.                                 *)
TempStartKeepsFlag(t) ==
  /\ pc[t] = "inside"
  /\ tempStopDepth' = IF tempStopDepth = 0 THEN 0 ELSE tempStopDepth - 1
  /\ IF tempStopDepth = 1 /\ tempStopped THEN Spawn ELSE UNCHANGED <<worker, terminated>>
  /\ level' = [level EXCEPT ![t] = @ - 1]
  /\ Goto(t, IF level[t] = 1 THEN "return" ELSE "inside")
  /\ owner' = IF level[t] = 2 /\ t \in Unlocked THEN Nobody ELSE owner
  /\ UNCHANGED <<running, tempStopped, stopFlag, task, calls>>

TempStart(t) ==
  /\ pc[t] = "inside"
  /\ tempStopDepth' = IF tempStopDepth = 0 THEN 0 ELSE tempStopDepth - 1
  /\ IF tempStopDepth = 1 /\ tempStopped
     THEN Spawn /\ tempStopped' = FALSE
     ELSE UNCHANGED <<worker, terminated, tempStopped>>
  /\ level' = [level EXCEPT ![t] = @ - 1]
  /\ Goto(t, IF level[t] = 1 THEN "return" ELSE "inside")
  /\ owner' = IF level[t] = 2 /\ t \in Unlocked THEN Nobody ELSE owner
  /\ UNCHANGED <<running, stopFlag, task, calls>>

(* A thread inside a call; the process is gone once it has terminated.     *)
Proceed(t) ==
  /\ ~terminated
  /\ \/ Start(t) \/ Stop(t) \/ Return(t)
     \/ StopStreams(t) \/ Join(t) \/ ClearStreams(t)
     \/ TempStop(t) \/ TempStart(t)

Next ==
  \/ ~terminated /\ WorkerEnds
  \/ \E t \in Threads :
       \/ Proceed(t)
       \/ ~terminated /\ Setter(t)
       \/ \E call \in {"start", "stop", "window"} : ~terminated /\ Begin(t, call)

(* The worker runs, and so does every thread inside a call.                *)
Fairness == WF_vars(WorkerEnds) /\ \A t \in Threads : WF_vars(Proceed(t))

Spec == Init /\ [][Next]_vars /\ Fairness

-----------------------------------------------------------------------------
(* What run() uses is never changed under it: while a thread is inside a   *)
(* window, nested or not, the block has no worker.                         *)
StoppedWhileReconfigured ==
  \A t \in Threads : pc[t] = "inside" => worker = "none"

(* No call assigns to workerThread while an earlier worker has not been    *)
(* joined, which would end the program.                                    *)
NeverTerminates == ~terminated

(* Between calls the block is what running says it is: the windows have    *)
(* undone what they did, however they nested.                              *)
AliveIffRunning ==
  (\A t \in Threads : pc[t] = "idle") =>
     /\ running <=> worker = "alive"
     /\ ~tempStopped /\ tempStopDepth = 0 /\ ~stopFlag

(* Every call returns and gives ctrlMtx back.                              *)
CallsReturn == \A t \in Threads : owner = t ~> owner # t
=============================================================================
