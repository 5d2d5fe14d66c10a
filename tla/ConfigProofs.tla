------------------------------ MODULE ConfigProofs ------------------------------
(***************************************************************************)
(* The configuration loses no change, for any number of threads, edits and *)
(* crashes.  NoLostChange is not inductive: ConfigInv adds what holds of   *)
(* the document and of `changed` at each place where the mutex is held.    *)
(***************************************************************************)
EXTENDS ConfigManager, TLAPS

Types ==
  /\ file \in {Torn, Missing, Directory} \cup Nat
  /\ conf \in {Partial} \cup Nat
  /\ committed \in Nat /\ atExit \in Nat /\ edits \in Nat
  /\ changed \in BOOLEAN /\ autoSaveEnabled \in BOOLEAN /\ termFlag \in BOOLEAN
  /\ pc \in {"load", "loadWrite", "loaded", "running", "join", "save", "saving", "ended"}
  /\ wpc \in {"off", "top", "try", "open", "write", "sleep"}
  /\ mtx \in Threads \cup {"free", "main", "worker"}
  /\ tpc \in [Threads -> {"idle", "read", "edit"}]

(* Who holds the mutex, and that main saves only when the worker is gone.  *)
Holders ==
  /\ \A t \in Threads : tpc[t] # "idle" <=> mtx = t
  /\ wpc \in {"open", "write"} <=> mtx = "worker"
  /\ pc \in {"load", "loadWrite", "saving"} => mtx = "main"
  /\ file = Directory => mtx = "main" /\ pc \notin {"loadWrite", "saving"}
  /\ pc \notin {"running", "join"} => wpc = "off"

(* The document is the released one, except inside an edit.                *)
Document ==
  conf = committed \/ \E t \in Threads : tpc[t] = "edit"

(* The file is the released document unless `changed` says otherwise, or   *)
(* it is being written.                                                    *)
Saved ==
  pc # "load" /\ file # Directory =>
    file = committed \/ changed \/ pc \in {"loadWrite", "saving"} \/ wpc = "write"

(* Edits are numbered upwards, so what was released later is greater.      *)
Order ==
  /\ committed =< edits /\ file =< edits /\ atExit =< committed /\ edits =< MaxEdits
  /\ conf =< edits /\ (pc = "load" => atExit = Default)
  /\ \A t \in Threads : tpc[t] = "edit" => edits < MaxEdits

ConfigInv == Types /\ Holders /\ Document /\ Saved /\ Order /\ CleanExit

(* A thread's name differs from the other holders of the mutex, and the    *)
(* special values from each other and from the edits.                      *)
LEMMA Names ==
  /\ "free" \notin Threads /\ "main" \notin Threads /\ "worker" \notin Threads
  /\ MaxEdits \in Nat
BY ConfigAssumption

USE DEF Default, Missing, Torn, Directory, Partial

(* ConfigInv holds of a program that starts on any path.                   *)
LEMMA InitConfig == Init => ConfigInv
<1> SUFFICES ASSUME Init PROVE ConfigInv
  OBVIOUS
<1>1. file \in {Default, Missing, Torn, Directory}
  BY ConfigAssumption DEF Init
<1>2. tpc \in [Threads -> {"idle", "read", "edit"}]
  BY DEF Init, Fresh
<1>3. Types
  <2>1. file \in {Torn, Missing, Directory} \cup Nat
    BY <1>1
  <2>2. /\ conf \in {Partial} \cup Nat /\ committed \in Nat /\ atExit \in Nat /\ edits \in Nat
        /\ mtx \in Threads \cup {"free", "main", "worker"}
    BY DEF Init, Fresh
  <2>3. /\ changed \in BOOLEAN /\ autoSaveEnabled \in BOOLEAN /\ termFlag \in BOOLEAN
        /\ pc = "load" /\ wpc = "off"
    BY DEF Init, Fresh
  <2> QED BY <1>2, <2>1, <2>2, <2>3 DEF Types
<1>4. Order
  BY <1>1, Names DEF Init, Fresh, Order
<1>5. Holders /\ Document /\ Saved /\ CleanExit
  BY Names, ConfigAssumption DEF Init, Fresh, Holders, Document, Saved, CleanExit
<1> QED BY <1>3, <1>4, <1>5 DEF ConfigInv

(* While the worker or main holds the mutex the document is released.      *)
LEMMA NoEdit ==
  ASSUME Types, Holders, Document, mtx \in {"main", "worker", "free"}
  PROVE  conf = committed
BY Names DEF Types, Holders, Document

(* The steps of the main thread.                                           *)
LEMMA MainConfig == ConfigInv /\ (Main \/ disableAutoSave) => ConfigInv'
<1> SUFFICES ASSUME ConfigInv, Main \/ disableAutoSave PROVE ConfigInv'
  OBVIOUS
<1> USE Names DEF ConfigInv, Types, Holders, Document, Saved, Order, CleanExit, memory, flags, counters
<1>1. CASE LoadFile
  <2>t. Types'
    BY <1>1 DEF LoadFile
  <2>u. Holders'
    BY <1>1 DEF LoadFile
  <2>v. Document'
    BY <1>1 DEF LoadFile
  <2>w. Saved'
    BY <1>1 DEF LoadFile
  <2>x. Order'
    BY <1>1 DEF LoadFile
  <2>y. CleanExit'
    BY <1>1 DEF LoadFile
  <2> QED BY <2>t, <2>u, <2>v, <2>w, <2>x, <2>y DEF ConfigInv
<1>2. CASE LoadDefault
  <2>t. Types'
    BY <1>2 DEF LoadDefault
  <2>u. Holders'
    BY <1>2 DEF LoadDefault
  <2>v. Document'
    BY <1>2 DEF LoadDefault
  <2>w. Saved'
    BY <1>2 DEF LoadDefault
  <2>x. Order'
    BY <1>2 DEF LoadDefault
  <2>y. CleanExit'
    BY <1>2 DEF LoadDefault
  <2> QED BY <2>t, <2>u, <2>v, <2>w, <2>x, <2>y DEF ConfigInv
<1>3. CASE LoadWrite
  <2>1. conf = committed
    BY <1>3, NoEdit DEF LoadWrite
  <2>t. Types'
    BY <1>3, <2>1 DEF LoadWrite
  <2>u. Holders'
    BY <1>3, <2>1 DEF LoadWrite
  <2>v. Document'
    BY <1>3, <2>1 DEF LoadWrite
  <2>w. Saved'
    BY <1>3, <2>1 DEF LoadWrite
  <2>x. Order'
    BY <1>3, <2>1 DEF LoadWrite
  <2>y. CleanExit'
    BY <1>3, <2>1 DEF LoadWrite
  <2> QED BY <2>t, <2>u, <2>v, <2>w, <2>x, <2>y DEF ConfigInv
<1>4. CASE LoadNotAFile
  <2>t. Types'
    BY <1>4 DEF LoadNotAFile
  <2>u. Holders'
    BY <1>4 DEF LoadNotAFile
  <2>v. Document'
    BY <1>4 DEF LoadNotAFile
  <2>w. Saved'
    BY <1>4 DEF LoadNotAFile
  <2>x. Order'
    BY <1>4 DEF LoadNotAFile
  <2>y. CleanExit'
    BY <1>4 DEF LoadNotAFile
  <2> QED BY <2>t, <2>u, <2>v, <2>w, <2>x, <2>y DEF ConfigInv
<1>5. CASE enableAutoSave
  <2>t. Types'
    BY <1>5 DEF enableAutoSave
  <2>u. Holders'
    BY <1>5 DEF enableAutoSave
  <2>v. Document'
    BY <1>5 DEF enableAutoSave
  <2>w. Saved'
    BY <1>5 DEF enableAutoSave
  <2>x. Order'
    BY <1>5 DEF enableAutoSave
  <2>y. CleanExit'
    BY <1>5 DEF enableAutoSave
  <2> QED BY <2>t, <2>u, <2>v, <2>w, <2>x, <2>y DEF ConfigInv
<1>6. CASE disableAutoSave
  <2>t. Types'
    BY <1>6 DEF disableAutoSave
  <2>u. Holders'
    BY <1>6 DEF disableAutoSave
  <2>v. Document'
    BY <1>6 DEF disableAutoSave
  <2>w. Saved'
    BY <1>6 DEF disableAutoSave
  <2>x. Order'
    BY <1>6 DEF disableAutoSave
  <2>y. CleanExit'
    BY <1>6 DEF disableAutoSave
  <2> QED BY <2>t, <2>u, <2>v, <2>w, <2>x, <2>y DEF ConfigInv
<1>7. CASE Join
  BY <1>7 DEF Join
<1>8. CASE FinalSave
  <2>t. Types'
    BY <1>8 DEF FinalSave
  <2>u. Holders'
    BY <1>8 DEF FinalSave
  <2>v. Document'
    BY <1>8 DEF FinalSave
  <2>w. Saved'
    BY <1>8 DEF FinalSave
  <2>x. Order'
    BY <1>8 DEF FinalSave
  <2>y. CleanExit'
    BY <1>8 DEF FinalSave
  <2> QED BY <2>t, <2>u, <2>v, <2>w, <2>x, <2>y DEF ConfigInv
<1>9. CASE FinalWrite
  <2>1. conf = committed
    BY <1>9, NoEdit DEF FinalWrite
  <2>t. Types'
    BY <1>9, <2>1 DEF FinalWrite
  <2>u. Holders'
    BY <1>9, <2>1 DEF FinalWrite
  <2>v. Document'
    BY <1>9, <2>1 DEF FinalWrite
  <2>w. Saved'
    BY <1>9, <2>1 DEF FinalWrite
  <2>x. Order'
    BY <1>9, <2>1 DEF FinalWrite
  <2>y. CleanExit'
    BY <1>9, <2>1 DEF FinalWrite
  <2> QED BY <2>t, <2>u, <2>v, <2>w, <2>x, <2>y DEF ConfigInv
<1> QED BY <1>1, <1>2, <1>3, <1>4, <1>5, <1>6, <1>7, <1>8, <1>9 DEF Main

(* The steps of the auto-save thread.                                      *)
LEMMA WorkerConfig == ConfigInv /\ Worker => ConfigInv'
<1> SUFFICES ASSUME ConfigInv, Worker PROVE ConfigInv'
  OBVIOUS
<1> USE Names DEF ConfigInv, Types, Holders, Document, Saved, Order, CleanExit, memory, flags, counters
<1>1. CASE WorkerTop
  BY <1>1 DEF WorkerTop
<1>2. CASE TryFails
  BY <1>2 DEF TryFails
<1>3. CASE TryLock
  <2>t. Types'
    BY <1>3 DEF TryLock
  <2>u. Holders'
    BY <1>3 DEF TryLock
  <2>v. Document'
    BY <1>3 DEF TryLock
  <2>w. Saved'
    BY <1>3 DEF TryLock
  <2>x. Order'
    BY <1>3 DEF TryLock
  <2>y. CleanExit'
    BY <1>3 DEF TryLock
  <2> QED BY <2>t, <2>u, <2>v, <2>w, <2>x, <2>y DEF ConfigInv
<1>4. CASE AutoSave
  <2>t. Types'
    BY <1>4 DEF AutoSave
  <2>u. Holders'
    BY <1>4 DEF AutoSave
  <2>v. Document'
    BY <1>4 DEF AutoSave
  <2>w. Saved'
    BY <1>4 DEF AutoSave
  <2>x. Order'
    BY <1>4 DEF AutoSave
  <2>y. CleanExit'
    BY <1>4 DEF AutoSave
  <2> QED BY <2>t, <2>u, <2>v, <2>w, <2>x, <2>y DEF ConfigInv
<1>5. CASE AutoSaveWrite
  <2>1. conf = committed
    BY <1>5, NoEdit DEF AutoSaveWrite
  <2> QED BY <1>5, <2>1 DEF AutoSaveWrite
<1>6. CASE WakeUp
  BY <1>6 DEF WakeUp
<1> QED BY <1>1, <1>2, <1>3, <1>4, <1>5, <1>6 DEF Worker

(* The steps of the users, and of whoever kills the process.               *)
LEMMA UserConfig == ConfigInv /\ (Acquire \/ Release \/ Restart) => ConfigInv'
<1> SUFFICES ASSUME ConfigInv, Acquire \/ Release \/ Restart PROVE ConfigInv'
  OBVIOUS
<1> USE Names DEF ConfigInv, Types, Holders, Document, Saved, Order, CleanExit, memory, flags, counters
<1>1. ASSUME NEW t \in Threads, NEW use \in {"read", "edit"}, acquire(t, use)
      PROVE  ConfigInv'
  <2>1. conf = committed
    BY <1>1, NoEdit DEF acquire
  <2>t. Types'
    BY <1>1, <2>1 DEF acquire
  <2>u. Holders'
    BY <1>1, <2>1 DEF acquire
  <2>v. Document'
    BY <1>1, <2>1 DEF acquire
  <2>w. Saved'
    BY <1>1, <2>1 DEF acquire
  <2>x. Order'
    BY <1>1, <2>1 DEF acquire
  <2>y. CleanExit'
    BY <1>1, <2>1 DEF acquire
  <2> QED BY <2>t, <2>u, <2>v, <2>w, <2>x, <2>y DEF ConfigInv
<1>2. ASSUME NEW t \in Threads, release(t, TRUE)
      PROVE  ConfigInv'
  <2>t. Types'
    BY <1>2 DEF release
  <2>u. Holders'
    BY <1>2 DEF release
  <2>v. Document'
    BY <1>2 DEF release
  <2>w. Saved'
    BY <1>2 DEF release
  <2>x. Order'
    BY <1>2 DEF release
  <2>y. CleanExit'
    BY <1>2 DEF release
  <2> QED BY <2>t, <2>u, <2>v, <2>w, <2>x, <2>y DEF ConfigInv
<1>3. ASSUME NEW t \in Threads, release(t, FALSE)
      PROVE  ConfigInv'
  <2>t. Types'
    BY <1>3 DEF release
  <2>u. Holders'
    BY <1>3 DEF release
  <2>v. Document'
    BY <1>3 DEF release
  <2>w. Saved'
    BY <1>3 DEF release
  <2>x. Order'
    BY <1>3 DEF release
  <2>y. CleanExit'
    BY <1>3 DEF release
  <2> QED BY <2>t, <2>u, <2>v, <2>w, <2>x, <2>y DEF ConfigInv
<1>4. CASE Restart
  <2>t. Types'
    BY <1>4 DEF Restart, Fresh
  <2>u. Holders'
    BY <1>4 DEF Restart, Fresh
  <2>v. Document'
    BY <1>4 DEF Restart, Fresh
  <2>w. Saved'
    BY <1>4 DEF Restart, Fresh
  <2>x. Order'
    BY <1>4 DEF Restart, Fresh
  <2>y. CleanExit'
    BY <1>4 DEF Restart, Fresh
  <2> QED BY <2>t, <2>u, <2>v, <2>w, <2>x, <2>y DEF ConfigInv
<1> QED BY <1>1, <1>2, <1>3, <1>4 DEF Acquire, Release

(* ConfigInv is inductive.                                                 *)
LEMMA NextConfig == ConfigInv /\ [Next]_vars => ConfigInv'
<1> SUFFICES ASSUME ConfigInv, [Next]_vars PROVE ConfigInv'
  OBVIOUS
<1>1. CASE UNCHANGED vars
  BY <1>1 DEF vars, ConfigInv, Types, Holders, Document, Saved, Order, CleanExit
<1> QED BY <1>1, MainConfig, WorkerConfig, UserConfig DEF Next

(* ConfigInv holds of every reachable state.                               *)
LEMMA ConfigInvariance == Spec => []ConfigInv
BY InitConfig, NextConfig, PTL DEF Spec

(* Every variable keeps its type, and the mutex its holder.                *)
THEOREM TypeCorrect == Spec => []TypeOK
<1>1. ConfigInv => TypeOK
  BY Names DEF ConfigInv, Types, Holders, Order, TypeOK
<1> QED BY <1>1, ConfigInvariance, PTL

(* However many threads edit and whenever the process is killed, a         *)
(* released change is in the file, or `changed` is set.                    *)
THEOREM NoLostChangeHolds == Spec => []NoLostChange
<1>1. ConfigInv => NoLostChange
  BY Names DEF ConfigInv, Types, Holders, Saved, NoLostChange
<1> QED BY <1>1, ConfigInvariance, PTL

(* No save writes a document in the middle of an edit.                     *)
THEOREM NeverPartialHolds == Spec => []NeverPartial
<1>1. ConfigInv => NeverPartial
  <2> SUFFICES ASSUME ConfigInv PROVE NeverPartial
    OBVIOUS
  <2>1. wpc = "write" => conf = committed
    BY NoEdit DEF ConfigInv, Types, Holders
  <2> QED BY <2>1 DEF ConfigInv, Types, NeverPartial
<1> QED BY <1>1, ConfigInvariance, PTL

(* A clean exit keeps every edit released before it began.                 *)
THEOREM CleanExitHolds == Spec => []CleanExit
BY ConfigInvariance, PTL DEF ConfigInv

(***************************************************************************)
(* What ExitReturns rests on.  Once the program has asked for its end the  *)
(* auto-save thread does not start its loop again: at most five steps of   *)
(* its own, the last save among them, and no lock in them that it must     *)
(* wait for.  Then save() finds the mutex free or with a user who will     *)
(* release it, never with the main thread itself.                          *)
(***************************************************************************)
WorkLeft ==
  CASE wpc = "try" -> 5 [] wpc = "open" -> 4 [] wpc = "write" -> 3
    [] wpc = "sleep" -> 2 [] wpc = "top" -> 1 [] wpc = "off" -> 0

(* disableAutoSave has cleared the flag of the loop; main holds the mutex  *)
(* only inside load() and save(), unless load() left it so.                *)
Leaving ==
  /\ pc = "join" => ~autoSaveEnabled
  /\ mtx = "main" /\ file # Directory => pc \in {"load", "loadWrite", "saving"}

LEMMA LeavingInvariant == Spec => []Leaving
<1>1. Init => Leaving
  BY DEF Init, Fresh, Leaving
<1>2. ASSUME ConfigInv, Leaving, [Next]_vars PROVE Leaving'
  <2> USE Names DEF ConfigInv, Types, Holders, Leaving, memory, flags, counters
  <2>1. CASE Main \/ disableAutoSave
    BY <1>2, <2>1 DEF Main, LoadFile, LoadDefault, LoadWrite, LoadNotAFile, enableAutoSave,
                      disableAutoSave, Join, FinalSave, FinalWrite
  <2>2. CASE Worker
    BY <1>2, <2>2 DEF Worker, WorkerTop, TryFails, TryLock, AutoSave, AutoSaveWrite, WakeUp
  <2>3. CASE Acquire \/ Release
    BY <1>2, <2>3 DEF Acquire, Release, acquire, release
  <2>4. CASE Restart
    BY <1>2, <2>4 DEF Restart, Fresh
  <2>5. CASE UNCHANGED vars
    BY <1>2, <2>5 DEF vars
  <2> QED BY <1>2, <2>1, <2>2, <2>3, <2>4, <2>5 DEF Next
<1> QED BY <1>1, <1>2, ConfigInvariance, PTL DEF Spec

ExitBounded ==
  /\ pc = "join" => UNCHANGED wpc \/ WorkLeft' < WorkLeft \/ pc' = "load"
  /\ pc = "join" /\ wpc = "try" => mtx = "free" \/ ~autoSaveEnabled
  /\ pc = "save" /\ file # Directory => mtx = "free" \/ \E t \in Threads : mtx = t /\ tpc[t] # "idle"

(* A worker that nobody wants any more only moves towards its end.         *)
LEMMA WorkerLeaves ==
  ASSUME ConfigInv, Leaving, pc = "join", Worker
  PROVE  WorkLeft' < WorkLeft
<1>1. \/ wpc = "top" /\ wpc' = "off"
      \/ wpc = "try" /\ wpc' \in {"off", "open", "sleep"}
      \/ wpc = "open" /\ wpc' = "write"
      \/ wpc = "write" /\ wpc' = "sleep"
      \/ wpc = "sleep" /\ wpc' = "top"
  BY DEF Leaving, Worker, WorkerTop, TryFails, TryLock, AutoSave, AutoSaveWrite, WakeUp
<1> QED BY <1>1 DEF WorkLeft

(* A program that ends waits for at most five steps of its auto-save       *)
(* thread, and for the release of the mutex by a user.                     *)
THEOREM ExitBoundedHolds == Spec => [][ExitBounded]_vars
<1>1. ASSUME ConfigInv, Leaving, [Next]_vars PROVE ExitBounded
  <2>1. pc = "join" => UNCHANGED wpc \/ WorkLeft' < WorkLeft \/ pc' = "load"
    <3>1. CASE Worker
      BY <1>1, <3>1, WorkerLeaves
    <3>2. CASE Restart
      BY <3>2 DEF Restart, Fresh
    <3>3. CASE Main \/ disableAutoSave \/ Acquire \/ Release \/ UNCHANGED vars
      BY <3>3 DEF vars, Main, LoadFile, LoadDefault, LoadWrite, LoadNotAFile, enableAutoSave,
           disableAutoSave, Join, FinalSave, FinalWrite, Acquire, acquire, Release, release
    <3> QED BY <1>1, <3>1, <3>2, <3>3 DEF Next
  <2>2. pc = "join" => ~autoSaveEnabled
    BY <1>1 DEF Leaving
  <2>3. pc = "save" /\ file # Directory => mtx \in Threads \cup {"free"}
    BY <1>1, Names DEF ConfigInv, Types, Holders, Leaving
  <2>4. \A t \in Threads : mtx = t => tpc[t] # "idle"
    BY <1>1 DEF ConfigInv, Holders
  <2> QED BY <2>1, <2>2, <2>3, <2>4 DEF ExitBounded
<1> QED BY <1>1, ConfigInvariance, LeavingInvariant, PTL DEF Spec
=============================================================================
