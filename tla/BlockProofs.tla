------------------------------ MODULE BlockProofs ------------------------------
(***************************************************************************)
(* What ctrlMtx is for: if every window is opened under it, as the setters *)
(* of the blocks do, then for any number of threads, calls and nested      *)
(* windows the block has no worker while it is reconfigured.               *)
(***************************************************************************)
EXTENDS Block, TLAPS

-----------------------------------------------------------------------------
Positions == {"idle", "start", "stop", "window", "flag", "join", "clear", "inside", "return"}
Calls == {"start", "stop", "window"}

(* The types of the state; windows nest two deep.                          *)
Types ==
  /\ owner \in Threads \cup {Nobody}
  /\ running \in BOOLEAN /\ tempStopped \in BOOLEAN /\ stopFlag \in BOOLEAN
  /\ tempStopDepth \in 0 .. 2 /\ worker \in {"none", "alive", "ended"}
  /\ pc \in [Threads -> Positions] /\ task \in [Threads -> Calls \cup {"none"}]
  /\ level \in [Threads -> 0 .. 2]

(* A thread inside a call holds ctrlMtx, and the windows that are open are *)
(* its own.                                                                *)
Exclusion ==
  \A t \in Threads :
    /\ pc[t] # "idle" <=> owner = t
    /\ owner # t => level[t] = 0
    /\ owner = t => level[t] = tempStopDepth

(* What the place of the thread inside says of its call.                   *)
Place ==
  /\ owner = Nobody => tempStopDepth = 0
  /\ \A t \in Threads :
       /\ pc[t] = "inside" => task[t] = "window" /\ tempStopDepth \in 1 .. 2
       /\ pc[t] \in {"start", "stop", "window", "return"} => tempStopDepth = 0
       /\ pc[t] \in {"start", "stop", "window"} => task[t] = pc[t]
       /\ pc[t] \in {"flag", "join", "clear"} =>
            (task[t] = "stop" /\ tempStopDepth = 0) \/ (task[t] = "window" /\ tempStopDepth = 1)

Among(S) == \E t \in Threads : pc[t] \in S

(* What that place says of the worker.                                     *)
Life ==
  /\ ~Among({"flag", "join", "clear", "inside"}) =>
       /\ worker = IF running THEN "alive" ELSE "none"
       /\ ~tempStopped /\ ~stopFlag
  /\ Among({"inside"}) => worker = "none" /\ ~stopFlag /\ (tempStopped <=> running)
  /\ Among({"flag"}) => worker = "alive" /\ ~stopFlag /\ running /\ ~tempStopped
  /\ Among({"join"}) => worker # "none" /\ stopFlag /\ running /\ ~tempStopped
  /\ Among({"clear"}) => worker = "none" /\ stopFlag /\ running /\ ~tempStopped

(* The inductive invariant.                                                *)
Inv == Types /\ Exclusion /\ Place /\ Life /\ ~terminated

-----------------------------------------------------------------------------
(* The worker ends at the stop flag, before it is joined.                  *)
LEMMA WorkerEndsInv ==
  ASSUME Unlocked = {}, Inv, WorkerEnds
  PROVE  Inv'
<1> USE ThreadsAssumption DEF WorkerEnds, Inv, Nobody
<1>1. Types' BY DEF Types, Exclusion, Place, Positions, Calls
<1>2. Exclusion' BY DEF Types, Exclusion, Place, Positions
<1>3. Place' BY DEF Types, Exclusion, Place, Positions, Calls
<1>4. Life' /\ ~terminated' BY DEF Types, Exclusion, Place, Life, Among, Positions
<1> QED BY <1>1, <1>2, <1>3, <1>4

(* Only one thread gets in.                                                *)
LEMMA BeginInv ==
  ASSUME Unlocked = {}, Inv, NEW t \in Threads, NEW call \in Calls, Begin(t, call)
  PROVE  Inv'
<1> USE ThreadsAssumption DEF Begin, Lock, Inv, Nobody, Goto
<1>0. /\ owner = Nobody /\ tempStopDepth = 0 /\ call # "idle" /\ owner' = t
      /\ \A u \in Threads : pc[u] = "idle" /\ pc'[u] = IF u = t THEN call ELSE "idle"
  BY DEF Types, Exclusion, Place, Positions, Calls
<1>1. Types' BY DEF Types, Exclusion, Place, Positions, Calls
<1>2. Exclusion' BY <1>0 DEF Types, Exclusion, Place, Positions
<1>3. Place' BY DEF Types, Exclusion, Place, Positions, Calls
<1>4. Life' /\ ~terminated' BY <1>0 DEF Calls, Types, Exclusion, Place, Life, Among, Positions
<1> QED BY <1>1, <1>2, <1>3, <1>4

(* The block had no worker.                                                *)
LEMMA StartInv ==
  ASSUME Unlocked = {}, Inv, NEW t \in Threads, Start(t)
  PROVE  Inv'
<1> USE ThreadsAssumption DEF Start, Spawn, Inv, Nobody, Goto
<1>1. Types' BY DEF Types, Exclusion, Place, Positions, Calls
<1>2. Exclusion' BY DEF Types, Exclusion, Place, Positions
<1>3. Place' BY DEF Types, Exclusion, Place, Positions, Calls
<1>4. Life' /\ ~terminated' BY DEF Types, Exclusion, Place, Life, Among, Positions
<1> QED BY <1>1, <1>2, <1>3, <1>4

(* A block that does not run is left as it is.                             *)
LEMMA StopInv ==
  ASSUME Unlocked = {}, Inv, NEW t \in Threads, Stop(t)
  PROVE  Inv'
<1> USE ThreadsAssumption DEF Stop, Inv, Nobody, Goto
<1>1. Types' BY DEF Types, Exclusion, Place, Positions, Calls
<1>2. Exclusion' BY DEF Types, Exclusion, Place, Positions
<1>3. Place' BY DEF Types, Exclusion, Place, Positions, Calls
<1>4. Life' /\ ~terminated' BY DEF Types, Exclusion, Place, Life, Among, Positions
<1> QED BY <1>1, <1>2, <1>3, <1>4

(* The thread leaves with its windows closed.                              *)
LEMMA ReturnInv ==
  ASSUME Unlocked = {}, Inv, NEW t \in Threads, Return(t)
  PROVE  Inv'
<1> USE ThreadsAssumption DEF Return, Inv, Nobody, Goto
<1>1. Types' BY DEF Types, Exclusion, Place, Positions, Calls
<1>2. Exclusion' BY DEF Types, Exclusion, Place, Positions
<1>3. Place' BY DEF Types, Exclusion, Place, Positions, Calls
<1>4. Life' /\ ~terminated' BY DEF Types, Exclusion, Place, Life, Among, Positions
<1> QED BY <1>1, <1>2, <1>3, <1>4

(* The streams are stopped while the worker lives.                         *)
LEMMA StopStreamsInv ==
  ASSUME Unlocked = {}, Inv, NEW t \in Threads, StopStreams(t)
  PROVE  Inv'
<1> USE ThreadsAssumption DEF StopStreams, Inv, Nobody, Goto
<1>1. Types' BY DEF Types, Exclusion, Place, Positions, Calls
<1>2. Exclusion' BY DEF Types, Exclusion, Place, Positions
<1>3. Place' BY DEF Types, Exclusion, Place, Positions, Calls
<1>4. Life' /\ ~terminated' BY DEF Types, Exclusion, Place, Life, Among, Positions
<1> QED BY <1>1, <1>2, <1>3, <1>4

(* The worker is gone before the streams are cleared.                      *)
LEMMA JoinInv ==
  ASSUME Unlocked = {}, Inv, NEW t \in Threads, Join(t)
  PROVE  Inv'
<1> USE ThreadsAssumption DEF Join, Inv, Nobody, Goto
<1>1. Types' BY DEF Types, Exclusion, Place, Positions, Calls
<1>2. Exclusion' BY DEF Types, Exclusion, Place, Positions
<1>3. Place' BY DEF Types, Exclusion, Place, Positions, Calls
<1>4. Life' /\ ~terminated' BY DEF Types, Exclusion, Place, Life, Among, Positions
<1> QED BY <1>1, <1>2, <1>3, <1>4

(* stop() forgets the worker, a window remembers it.                       *)
LEMMA ClearStreamsInv ==
  ASSUME Unlocked = {}, Inv, NEW t \in Threads, ClearStreams(t)
  PROVE  Inv'
<1> USE ThreadsAssumption DEF ClearStreams, Inv, Nobody, Goto
<1>0. task[t] \in {"stop", "window"} /\ pc[t] = "clear"
  BY DEF Types, Place, Calls
<1>1. Types'
  <2>1. CASE task[t] = "stop"
    BY <2>1 DEF Types, Positions, Calls
  <2>2. CASE task[t] # "stop"
    BY <2>2 DEF Types, Positions, Calls
  <2> QED BY <2>1, <2>2
<1>2. Exclusion' BY DEF Types, Exclusion, Place, Positions
<1>3. Place' BY DEF Types, Exclusion, Place, Positions, Calls
<1>4. Life' /\ ~terminated' BY DEF Types, Exclusion, Place, Life, Among, Positions
<1> QED BY <1>1, <1>2, <1>3, <1>4

(* The outer window stops a worker, if there is one.                       *)
LEMMA TempStopInv ==
  ASSUME Unlocked = {}, Inv, NEW t \in Threads, TempStop(t)
  PROVE  Inv'
<1> USE ThreadsAssumption DEF TempStop, OpenWindow, Inv, Nobody, Goto
<1>1. Types' BY DEF Types, Exclusion, Place, Positions, Calls
<1>2. Exclusion' BY DEF Types, Exclusion, Place, Positions
<1>3. Place' BY DEF Types, Exclusion, Place, Positions, Calls
<1>4. Life' /\ ~terminated' BY DEF Types, Exclusion, Place, Life, Among, Positions
<1> QED BY <1>1, <1>2, <1>3, <1>4

(* A nested window finds the worker stopped.                               *)
LEMMA SetterInv ==
  ASSUME Unlocked = {}, Inv, NEW t \in Threads, Setter(t)
  PROVE  Inv'
<1> USE ThreadsAssumption DEF Setter, Lock, OpenWindow, Inv, Nobody, Goto
<1>1. Types' BY DEF Types, Exclusion, Place, Positions, Calls
<1>2. Exclusion' BY DEF Types, Exclusion, Place, Positions
<1>3. Place' BY DEF Types, Exclusion, Place, Positions, Calls
<1>4. Life' /\ ~terminated' BY DEF Types, Exclusion, Place, Life, Among, Positions
<1> QED BY <1>1, <1>2, <1>3, <1>4

(* The last window to close restarts what the first stopped.               *)
LEMMA TempStartInv ==
  ASSUME Unlocked = {}, Inv, NEW t \in Threads, TempStart(t)
  PROVE  Inv'
<1> USE ThreadsAssumption DEF TempStart, Spawn, Inv, Nobody, Goto
<1>0. /\ owner = t /\ level[t] = tempStopDepth /\ tempStopDepth \in 1 .. 2
      /\ worker = "none" /\ (tempStopped <=> running)
  BY DEF Types, Exclusion, Place, Life, Among
<1>1. Types'
  <2>1. worker' \in {"none", "alive", "ended"} /\ tempStopped' \in BOOLEAN
    BY DEF Types
  <2>2. tempStopDepth' \in 0 .. 2 /\ level' \in [Threads -> 0 .. 2]
    BY <1>0 DEF Types
  <2>3. pc' \in [Threads -> Positions] /\ owner' \in Threads \cup {Nobody}
    BY <1>0 DEF Types, Positions
  <2> QED BY <2>1, <2>2, <2>3 DEF Types
<1>2. Exclusion' BY DEF Types, Exclusion, Place, Positions
<1>3. Place' BY DEF Types, Exclusion, Place, Positions, Calls
<1>4. Life' /\ ~terminated' BY DEF Types, Exclusion, Place, Life, Among, Positions
<1> QED BY <1>1, <1>2, <1>3, <1>4

(* No step breaks the invariant.                                           *)
LEMMA NextInv ==
  ASSUME Unlocked = {}
  PROVE  Inv /\ [Next]_vars => Inv'
<1> SUFFICES ASSUME Inv, [Next]_vars PROVE Inv'
  OBVIOUS
<1>1. CASE UNCHANGED vars
  BY <1>1 DEF vars, Inv, Types, Exclusion, Place, Life, Among
<1>2. ASSUME NEW t \in Threads, Proceed(t)
      PROVE  Inv'
  BY <1>2, StartInv, StopInv, ReturnInv, StopStreamsInv, JoinInv, ClearStreamsInv, TempStopInv,
     TempStartInv DEF Proceed
<1>3. ASSUME NEW t \in Threads, NEW call \in Calls, Begin(t, call)
      PROVE  Inv'
  BY <1>3, BeginInv
<1> QED BY <1>1, <1>2, <1>3, WorkerEndsInv, SetterInv DEF Next, Calls

(* At most one thread is in a call, and its place says what the block is.  *)
THEOREM InvHolds ==
  ASSUME Unlocked = {}
  PROVE  Spec => []Inv
<1>1. Init => Inv
  <2> SUFFICES ASSUME Init PROVE Inv
    OBVIOUS
  <2>1. Types
    <3>1. pc \in [Threads -> Positions]
      BY DEF Init, Positions
    <3>2. task \in [Threads -> Calls \cup {"none"}] /\ level \in [Threads -> 0 .. 2]
      BY DEF Init
    <3>3. tempStopDepth \in 0 .. 2 /\ worker \in {"none", "alive", "ended"}
      BY DEF Init
    <3>4. owner \in Threads \cup {Nobody}
      BY DEF Init
    <3>5. running \in BOOLEAN /\ tempStopped \in BOOLEAN /\ stopFlag \in BOOLEAN
      BY DEF Init
    <3> QED BY <3>1, <3>2, <3>3, <3>4, <3>5 DEF Types
  <2>2. \A t \in Threads : pc[t] = "idle" /\ level[t] = 0 /\ owner # t
    BY ThreadsAssumption DEF Init, Nobody
  <2>3. Exclusion /\ Place
    BY <2>2 DEF Init, Exclusion, Place
  <2>4. Life /\ ~terminated
    BY <2>2 DEF Init, Life, Among
  <2> QED BY <2>1, <2>3, <2>4 DEF Inv
<1> QED BY <1>1, NextInv, PTL DEF Spec

(* The block has no worker inside a window, nested or not.                 *)
THEOREM StoppedWhileReconfiguredHolds ==
  ASSUME Unlocked = {}
  PROVE  Spec => []StoppedWhileReconfigured
<1>1. Inv => StoppedWhileReconfigured
  BY DEF Inv, Life, Among, StoppedWhileReconfigured
<1> QED BY <1>1, InvHolds, PTL

(* No worker is overwritten while it is joinable.                          *)
THEOREM NeverTerminatesHolds ==
  ASSUME Unlocked = {}
  PROVE  Spec => []NeverTerminates
<1>1. Inv => NeverTerminates
  BY DEF Inv, NeverTerminates
<1> QED BY <1>1, InvHolds, PTL

(* Windows and calls, however they nest and follow each other, leave the   *)
(* block as running says.                                                  *)
THEOREM AliveIffRunningHolds ==
  ASSUME Unlocked = {}
  PROVE  Spec => []AliveIffRunning
<1>1. Inv => AliveIffRunning
  <2> SUFFICES ASSUME Inv, \A t \in Threads : pc[t] = "idle"
               PROVE  /\ running <=> worker = "alive"
                      /\ ~tempStopped /\ tempStopDepth = 0 /\ ~stopFlag
    BY DEF AliveIffRunning
  <2>1. owner = Nobody
    BY DEF Inv, Types, Exclusion
  <2> QED BY <2>1 DEF Inv, Types, Place, Life, Among
<1> QED BY <1>1, InvHolds, PTL

-----------------------------------------------------------------------------
(* The steps a thread has before its call returns, if it opens no further  *)
(* window.                                                                 *)
StepsLeft(t) ==
  CASE pc[t] = "idle" -> 0
    [] pc[t] = "return" -> 1
    [] pc[t] = "start" -> 2
    [] pc[t] = "inside" -> 1 + level[t]
    [] pc[t] = "clear" -> 4
    [] pc[t] = "join" -> 5
    [] pc[t] = "flag" -> 6
    [] pc[t] \in {"stop", "window"} -> 7

(* Every step of a thread inside a call brings the call nearer to its end, *)
(* but for the opening of a nested window, which counts as a call. No      *)
(* other thread is in its way, and a worker it joins has been told to stop.*)
CallsBounded ==
  \A t \in Threads : pc[t] # "idle" =>
    /\ <<pc[t], level[t]>>' # <<pc[t], level[t]>> =>
         StepsLeft(t)' < StepsLeft(t) \/ (pc[t] = "inside" /\ calls' = calls + 1)
    /\ \A u \in Threads \ {t} : pc[u] = "idle" /\ pc'[u] = "idle"
    /\ pc[t] = "join" => worker = "ended" \/ stopFlag

(* What a step of one thread does to its own place.                        *)
LEMMA ProceedMoves ==
  ASSUME Unlocked = {}, Inv, NEW t \in Threads, Proceed(t)
  PROVE  StepsLeft(t)' < StepsLeft(t) /\ \A u \in Threads \ {t} : UNCHANGED <<pc[u], level[u]>>
<1> USE DEF Inv, Types, Goto
<1>1. CASE Start(t) \/ Stop(t) \/ Return(t) \/ StopStreams(t) \/ Join(t)
  BY <1>1 DEF Start, Stop, Return, StopStreams, Join, StepsLeft, Positions
<1>2. CASE ClearStreams(t)
  <2>1. pc[t] = "clear" /\ level[t] \in 0 .. 1 /\ level' = level
        /\ pc' \in [Threads -> Positions] /\ pc'[t] \in {"return", "inside"}
    BY <1>2 DEF ClearStreams, Exclusion, Place, Positions
  <2>2. \A u \in Threads \ {t} : pc'[u] = pc[u]
    BY <1>2 DEF ClearStreams
  <2> QED BY <2>1, <2>2 DEF StepsLeft
<1>3. CASE TempStop(t)
  <2>1. pc[t] = "window" /\ level[t] = 0 /\ level'[t] = 1 /\ pc'[t] \in {"flag", "inside"}
    BY <1>3 DEF TempStop, OpenWindow, Exclusion, Place, Positions
  <2>2. \A u \in Threads \ {t} : pc'[u] = pc[u] /\ level'[u] = level[u]
    BY <1>3 DEF TempStop, OpenWindow
  <2> QED BY <2>1, <2>2 DEF StepsLeft
<1>4. CASE TempStart(t)
  <2>1. pc[t] = "inside" /\ level[t] \in 1 .. 2 /\ level'[t] = level[t] - 1
        /\ pc'[t] = IF level[t] = 1 THEN "return" ELSE "inside"
    BY <1>4 DEF TempStart, Exclusion, Place, Positions
  <2>2. \A u \in Threads \ {t} : pc'[u] = pc[u] /\ level'[u] = level[u]
    BY <1>4 DEF TempStart
  <2> QED BY <2>1, <2>2 DEF StepsLeft
<1> QED BY <1>1, <1>2, <1>3, <1>4 DEF Proceed

(* A call of start(), stop() or a setter takes a bounded number of steps,  *)
(* however many threads call.                                              *)
THEOREM CallsBoundedHolds ==
  ASSUME Unlocked = {}
  PROVE  Spec => [][CallsBounded]_vars
<1>1. Inv /\ [Next]_vars => [CallsBounded]_vars
  <2> SUFFICES ASSUME Inv, Next, NEW t \in Threads, pc[t] # "idle"
               PROVE  /\ <<pc[t], level[t]>>' # <<pc[t], level[t]>> =>
                           StepsLeft(t)' < StepsLeft(t) \/ (pc[t] = "inside" /\ calls' = calls + 1)
                      /\ \A u \in Threads \ {t} : pc[u] = "idle" /\ pc'[u] = "idle"
                      /\ pc[t] = "join" => worker = "ended" \/ stopFlag
    BY DEF CallsBounded
  <2>1. owner = t /\ \A u \in Threads \ {t} : pc[u] = "idle"
    BY DEF Inv, Exclusion
  <2>2. pc[t] = "join" => worker = "ended" \/ stopFlag
    BY DEF Inv, Life, Among
  <2>3. CASE WorkerEnds
    BY <2>1, <2>2, <2>3 DEF WorkerEnds
  <2>4. ASSUME NEW u \in Threads, Proceed(u)
        PROVE  u = t
    BY <2>1, <2>4 DEF Proceed, Start, Stop, Return, StopStreams, Join, ClearStreams, TempStop, TempStart
  <2>5. CASE Proceed(t)
    BY <2>1, <2>2, <2>5, ProceedMoves
  <2>6. ASSUME NEW u \in Threads, Setter(u)
        PROVE  u = t /\ pc[t] = "inside" /\ calls' = calls + 1 /\ \A w \in Threads \ {t} : pc'[w] = "idle"
    BY <2>1, <2>6 DEF Setter, OpenWindow, Goto, Inv, Types
  <2>7. ~ \E u \in Threads, call \in {"start", "stop", "window"} : Begin(u, call)
    BY <2>1, ThreadsAssumption DEF Begin, Lock, Nobody
  <2> QED BY <2>1, <2>2, <2>3, <2>4, <2>5, <2>6, <2>7 DEF Next
<1> QED BY <1>1, InvHolds, PTL DEF Spec
=============================================================================
