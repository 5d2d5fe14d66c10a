----------------------------- MODULE ConfigManager -----------------------------
(***************************************************************************)
(* ConfigManager (core/src/config.cpp): a JSON document in memory, edited  *)
(* between acquire() and release() by any thread, and written to a file by *)
(* an auto-save thread and at shutdown.  The main thread runs the life of  *)
(* the program: load, enableAutoSave, ..., disableAutoSave, save, exit.    *)
(*                                                                         *)
(* A committed document is the number of the edit that made it; 0 is the   *)
(* default document.  Opening the file for writing truncates it, so a save *)
(* is two steps, and the process may be killed between them.               *)
(***************************************************************************)
EXTENDS Integers

CONSTANTS
  Threads,        \* the threads that use the configuration
  Paths,          \* what the path may designate when the program first runs
  MaxEdits,       \* bound on the edits
  MaxCrashes      \* bound on the times the process is killed

Default == 0
Missing == -1       \* there is no file
Torn == -2          \* a file cut short: it does not parse
Directory == -3     \* the path is not a regular file
Partial == -4       \* a document whose edit is under way

ASSUME ConfigAssumption ==
  /\ MaxEdits \in Nat /\ MaxCrashes \in Nat
  /\ Paths \subseteq {Default, Missing, Torn, Directory}
  /\ Threads \cap {"free", "main", "worker"} = {}

VARIABLES
  file,         \* contents of the file, or what the path is instead
  conf,         \* ConfigManager::conf
  changed, autoSaveEnabled, termFlag,
  mtx,          \* holder of the mutex
  pc,           \* the main thread
  wpc,          \* autoSaveWorker
  tpc,          \* the user threads
  committed,    \* history: the last document that was released
  atExit,       \* history: committed when disableAutoSave was called
  edits, crashes    \* counters for the bounds

vars == <<file, conf, changed, autoSaveEnabled, termFlag, mtx, pc, wpc, tpc,
          committed, atExit, edits, crashes>>
memory == <<conf, changed, committed>>
flags == <<autoSaveEnabled, termFlag>>
counters == <<edits, crashes>>

(* A process that has just been started, about to load under the mutex.    *)
Fresh(holder, main, worker, user) ==
  /\ holder = "main" /\ main = "load" /\ worker = "off"
  /\ user = [t \in Threads |-> "idle"]

Init ==
  /\ file \in Paths /\ Fresh(mtx, pc, wpc, tpc)
  /\ conf = Default /\ committed = Default /\ atExit = Default
  /\ changed = FALSE /\ autoSaveEnabled = FALSE /\ termFlag = FALSE
  /\ edits = 0 /\ crashes = 0

(***************************************************************************)
(* load(): a missing or unreadable file is replaced by the default         *)
(* document; on a path that is not a file it returns with the mutex held.  *)
(***************************************************************************)
LoadFile ==
  /\ pc = "load" /\ file >= Default
  /\ conf' = file /\ committed' = file
  /\ mtx' = "free" /\ pc' = "loaded"
  /\ UNCHANGED <<file, changed, flags, wpc, tpc, atExit, counters>>

LoadDefault ==
  /\ pc = "load" /\ file \in {Missing, Torn}
  /\ conf' = Default /\ committed' = Default
  /\ file' = Torn /\ pc' = "loadWrite"
  /\ UNCHANGED <<changed, flags, mtx, wpc, tpc, atExit, counters>>

LoadWrite ==
  /\ pc = "loadWrite"
  /\ file' = conf
  /\ mtx' = "free" /\ pc' = "loaded"
  /\ UNCHANGED <<memory, flags, wpc, tpc, atExit, counters>>

LoadNotAFile ==
  /\ pc = "load" /\ file = Directory
  /\ pc' = "loaded"
  /\ UNCHANGED <<file, memory, flags, mtx, wpc, tpc, atExit, counters>>

(***************************************************************************)
(* The rest of the main thread.                                            *)
(***************************************************************************)
enableAutoSave ==
  /\ pc = "loaded"
  /\ autoSaveEnabled' = TRUE /\ termFlag' = FALSE
  /\ wpc' = "top" /\ pc' = "running"
  /\ UNCHANGED <<file, memory, mtx, tpc, atExit, counters>>

(* Seeded fault: only the wait is ended, not the loop.                     *)
DisableWaitOnly ==
  /\ pc = "running"
  /\ termFlag' = TRUE /\ atExit' = committed
  /\ pc' = "join"
  /\ UNCHANGED <<file, memory, autoSaveEnabled, mtx, wpc, tpc, counters>>

disableAutoSave ==
  /\ pc = "running"
  /\ autoSaveEnabled' = FALSE /\ termFlag' = TRUE
  /\ atExit' = committed
  /\ pc' = "join"
  /\ UNCHANGED <<file, memory, mtx, wpc, tpc, counters>>

(* Seeded fault: the program ends without save().                          *)
JoinWithoutSave ==
  /\ pc = "join" /\ wpc = "off"
  /\ pc' = "ended"
  /\ UNCHANGED <<file, memory, flags, mtx, wpc, tpc, atExit, counters>>

Join ==
  /\ pc = "join" /\ wpc = "off"
  /\ pc' = "save"
  /\ UNCHANGED <<file, memory, flags, mtx, wpc, tpc, atExit, counters>>

(* save(true)                                                              *)
FinalSave ==
  /\ pc = "save" /\ mtx = "free"
  /\ mtx' = "main" /\ file' = IF file = Directory THEN file ELSE Torn
  /\ pc' = "saving"
  /\ UNCHANGED <<memory, flags, wpc, tpc, atExit, counters>>

FinalWrite ==
  /\ pc = "saving"
  /\ file' = IF file = Directory THEN file ELSE conf
  /\ mtx' = "free" /\ pc' = "ended"
  /\ UNCHANGED <<memory, flags, wpc, tpc, atExit, counters>>

(***************************************************************************)
(* autoSaveWorker.                                                         *)
(***************************************************************************)
WorkerTop ==
  /\ wpc = "top"
  /\ wpc' = IF autoSaveEnabled THEN "try" ELSE "off"
  /\ UNCHANGED <<file, memory, flags, mtx, pc, tpc, atExit, counters>>

(* A failed attempt only leads back to the test of the loop.               *)
TryFails ==
  /\ wpc = "try" /\ mtx # "free" /\ ~autoSaveEnabled
  /\ wpc' = "off"
  /\ UNCHANGED <<file, memory, flags, mtx, pc, tpc, atExit, counters>>

(* Seeded fault: the document is saved whoever holds the mutex.            *)
TryIgnoresMutex ==
  /\ wpc = "try"
  /\ IF changed THEN mtx' = "worker" /\ wpc' = "open"
                ELSE UNCHANGED mtx /\ wpc' = "sleep"
  /\ UNCHANGED <<file, memory, flags, pc, tpc, atExit, counters>>

TryLock ==
  /\ wpc = "try" /\ mtx = "free"
  /\ IF changed THEN mtx' = "worker" /\ wpc' = "open"
                ELSE UNCHANGED mtx /\ wpc' = "sleep"
  /\ UNCHANGED <<file, memory, flags, pc, tpc, atExit, counters>>

AutoSave ==
  /\ wpc = "open"
  /\ changed' = FALSE
  /\ file' = Torn /\ wpc' = "write"
  /\ UNCHANGED <<conf, committed, flags, mtx, pc, tpc, atExit, counters>>

AutoSaveWrite ==
  /\ wpc = "write"
  /\ file' = conf
  /\ mtx' = "free" /\ wpc' = "sleep"
  /\ UNCHANGED <<memory, flags, pc, tpc, atExit, counters>>

(* Seeded fault: the wait has no timeout.                                  *)
WakeUpAtEnd ==
  /\ wpc = "sleep" /\ termFlag
  /\ wpc' = "top"
  /\ UNCHANGED <<file, memory, flags, mtx, pc, tpc, atExit, counters>>

(* The wait ends after a second, or as soon as termFlag is set.            *)
WakeUp ==
  /\ wpc = "sleep"
  /\ wpc' = "top"
  /\ UNCHANGED <<file, memory, flags, mtx, pc, tpc, atExit, counters>>

(***************************************************************************)
(* The users: a thread reads the document, or edits it in several writes.  *)
(***************************************************************************)
acquire(t, use) ==
  /\ tpc[t] = "idle" /\ mtx = "free" /\ pc # "load"
  /\ use = "edit" => edits < MaxEdits
  /\ mtx' = t /\ tpc' = [tpc EXCEPT ![t] = use]
  /\ conf' = IF use = "edit" THEN Partial ELSE conf
  /\ UNCHANGED <<file, changed, committed, flags, pc, wpc, atExit, counters>>

(* Seeded fault: a reader's release clears `changed`.                      *)
ReleaseOverwrites(t, modified) ==
  /\ tpc[t] = IF modified THEN "edit" ELSE "read"
  /\ changed' = modified
  /\ IF modified THEN edits' = edits + 1 /\ conf' = edits' /\ committed' = edits'
                 ELSE UNCHANGED <<edits, conf, committed>>
  /\ mtx' = "free" /\ tpc' = [tpc EXCEPT ![t] = "idle"]
  /\ UNCHANGED <<file, flags, pc, wpc, atExit, crashes>>

release(t, modified) ==
  /\ tpc[t] = IF modified THEN "edit" ELSE "read"
  /\ changed' = (changed \/ modified)
  /\ IF modified THEN edits' = edits + 1 /\ conf' = edits' /\ committed' = edits'
                 ELSE UNCHANGED <<edits, conf, committed>>
  /\ mtx' = "free" /\ tpc' = [tpc EXCEPT ![t] = "idle"]
  /\ UNCHANGED <<file, flags, pc, wpc, atExit, crashes>>

(***************************************************************************)
(* The process is killed, or has ended, and is started again.              *)
(***************************************************************************)
Restart ==
  /\ pc # "ended" => crashes < MaxCrashes
  /\ crashes' = IF pc = "ended" THEN crashes ELSE crashes + 1
  /\ Fresh(mtx', pc', wpc', tpc')
  /\ conf' = Default /\ committed' = Default /\ atExit' = Default
  /\ changed' = FALSE /\ autoSaveEnabled' = FALSE /\ termFlag' = FALSE
  /\ UNCHANGED <<file, edits>>

Main ==
  \/ LoadFile \/ LoadDefault \/ LoadWrite \/ LoadNotAFile \/ enableAutoSave
  \/ Join \/ FinalSave \/ FinalWrite
Worker == WorkerTop \/ TryFails \/ TryLock \/ AutoSave \/ AutoSaveWrite \/ WakeUp
Release == \E t \in Threads, modified \in BOOLEAN : release(t, modified)
Acquire == \E t \in Threads, use \in {"read", "edit"} : acquire(t, use)

Next == Main \/ disableAutoSave \/ Worker \/ Acquire \/ Release \/ Restart

(* Threads run and critical sections end.  Whoever tries again and again   *)
(* for the mutex finds it free in the end: it is held for microseconds and *)
(* tried once a second.  Nobody has to edit, to exit or to be killed.      *)
Spec ==
  /\ Init /\ [][Next]_vars
  /\ WF_vars(Main) /\ WF_vars(Worker) /\ WF_vars(Release)
  /\ SF_vars(TryLock) /\ SF_vars(FinalSave)
-----------------------------------------------------------------------------
(* Every variable stays in its range; the holder of the mutex is a thread  *)
(* that is inside a critical section.                                      *)
TypeOK ==
  /\ file \in {Torn, Missing, Directory} \cup 0 .. MaxEdits
  /\ conf \in {Partial} \cup 0 .. MaxEdits /\ committed \in 0 .. MaxEdits /\ atExit \in 0 .. MaxEdits
  /\ changed \in BOOLEAN /\ autoSaveEnabled \in BOOLEAN /\ termFlag \in BOOLEAN
  /\ mtx \in Threads \cup {"free", "main", "worker"}
  /\ \A t \in Threads : tpc[t] # "idle" <=> mtx = t
  /\ wpc \in {"open", "write"} <=> mtx = "worker"

(* No change is forgotten: when the mutex is free and `changed` is clear,  *)
(* the file holds the last released document.                              *)
NoLostChange == mtx = "free" /\ ~changed /\ file # Directory => file = committed

(* What is written is a document some thread released, never one whose     *)
(* edit is under way.                                                      *)
NeverPartial == file # Partial /\ (wpc = "write" => conf = committed)

(* A clean exit keeps every edit released before disableAutoSave(): after  *)
(* it the file parses, and is no older than that.                          *)
CleanExit == pc = "ended" /\ file # Directory => file >= atExit

(* An edit reaches the file without the help of another edit, unless the   *)
(* program ends first.                                                     *)
SavedEventually ==
  \A v \in 1 .. MaxEdits : committed = v /\ pc = "running" ~> file >= v \/ pc # "running"

(* Shutdown ends: neither the auto-save thread nor a user keeps it waiting,*)
(* if the path was one that load() could handle.                           *)
ExitReturns == pc = "join" /\ file # Directory ~> pc \in {"ended", "load"}
=============================================================================
