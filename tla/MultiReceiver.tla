----------------------------- MODULE MultiReceiver -----------------------------
(***************************************************************************)
(* channel_bank's Multi-Receiver Scan (misc_modules/channel_bank/src/      *)
(* main.cpp): the management thread detects channels and ends them, the    *)
(* dispatch thread places them on receivers, sources are unregistered by a *)
(* third thread, and start()/stop() run on a fourth.                       *)
(*                                                                         *)
(* The allocator, receiverRuntimes and activeChannels are only touched     *)
(* under multiReceiverMtx and channelsMtx: a step is one section under     *)
(* these locks, and the dispatcher drops them while a receiver is tuned.   *)
(* dispatchQueueMtx is held at dpc = "sleep": the predicate of the wait    *)
(* was evaluated and the thread is about to block.                         *)
(***************************************************************************)
EXTENDS ReceiverAllocator, Sequences

VARIABLES
  runtimes,     \* receiverRuntimes: the receivers that are open and started
  tunedHz,      \* ReceiverRuntime::centerHz
  slots,        \* activeChannels
  queue, dispatchRunning,
  dpc, request, chosen,     \* dispatchThreadFunc
  mpc, scanned, pushing, ready,     \* managementThreadFunc
  running, mgmtRunning, cpc,    \* start() and stop()
  leaving       \* the source whose unregistration is being handled

dvars == <<queue, dispatchRunning, dpc, request, chosen>>
mvars == <<mpc, scanned, pushing, ready>>
cvars == <<running, mgmtRunning, cpc>>
vars == <<receivers, available, centerHz, channels, dispatch, assignments,
          runtimes, tunedHz, slots, queue, dispatchRunning, dpc, request, chosen,
          mpc, scanned, pushing, ready, running, mgmtRunning, cpc, leaving>>

NoRequest == [key |-> 0, carrier |-> 0]
Requests == {[key |-> k, carrier |-> f] : k \in Keys, f \in UNION {Carriers[j] : j \in Keys}}
NoSlot == [rx |-> NoReceiver, carrier |-> 0, offset |-> 0, releaseRequested |-> FALSE, suppress |-> FALSE]
Slot(r, f, center) ==
  [rx |-> r, carrier |-> f, offset |-> f - center, releaseRequested |-> FALSE, suppress |-> FALSE]
Hosted == {k \in Keys : slots[k] # NoSlot}

Init ==
  /\ AllocatorInit
  /\ runtimes = {} /\ tunedHz = [r \in Receivers |-> 0] /\ slots = [k \in Keys |-> NoSlot]
  /\ queue = <<>> /\ dispatchRunning = FALSE
  /\ dpc = "off" /\ request = NoRequest /\ chosen = NoAllocation
  /\ mpc = "off" /\ scanned = 0 /\ pushing = NoRequest /\ ready = {}
  /\ running = FALSE /\ mgmtRunning = FALSE /\ cpc = "stopped" /\ leaving = NoReceiver

(***************************************************************************)
(* The management thread.                                                  *)
(***************************************************************************)
(* A pass over the detected channels, in order.  enqueueDispatch marks the *)
(* key and only then, in another section, queues the request.              *)
EnqueueDispatch ==
  /\ mpc = "detect"
  /\ \E k \in Keys : \E f \in Carriers[k] :
       k > scanned /\ scanned' = k /\ markPendingDistinct(k) /\ pushing' = [key |-> k, carrier |-> f]
  /\ mpc' = "push"
  /\ UNCHANGED <<runtimes, tunedHz, slots, dvars, ready, cvars, leaving>>

(* Seeded fault: the dispatcher is not notified.                           *)
PushSilently ==
  /\ mpc = "push" /\ dpc # "sleep"
  /\ queue' = Append(queue, pushing)
  /\ mpc' = "detect" /\ pushing' = NoRequest
  /\ UNCHANGED <<avars, runtimes, tunedHz, slots, dispatchRunning, dpc, request, chosen,
                 scanned, ready, cvars, leaving>>

Push ==
  /\ mpc = "push" /\ dpc # "sleep"
  /\ queue' = Append(queue, pushing)
  /\ dpc' = IF dpc = "blocked" THEN "check" ELSE dpc
  /\ mpc' = "detect" /\ pushing' = NoRequest
  /\ UNCHANGED <<avars, runtimes, tunedHz, slots, dispatchRunning, request, chosen, scanned,
                 ready, cvars, leaving>>

(* What a pass over activeChannels may find of a slot: still on the air,   *)
(* quiet, blocked by the user, or past the maximum monitor time.           *)
Observed(s, seen) ==
  CASE seen = "quiet" -> [s EXCEPT !.releaseRequested = TRUE]
    [] seen = "blocked" -> [s EXCEPT !.releaseRequested = TRUE, !.suppress = FALSE]
    [] seen = "maximum" /\ ~s.releaseRequested ->
         [s EXCEPT !.releaseRequested = TRUE, !.suppress = TRUE]
    [] OTHER -> s

(* Seeded fault: every slot of the pass is released.                       *)
ObserveReleasesAll ==
  /\ mpc = "detect" /\ ready' = Hosted
  /\ mpc' = "finish" /\ scanned' = 0
  /\ UNCHANGED <<avars, runtimes, tunedHz, slots, dvars, pushing, cvars, leaving>>

(* The pass under channelsMtx.  What was copied from the detectors before  *)
(* it, under multiReceiverMtx, may be of a slot that has gone or that has  *)
(* come since, and is a choice.  Slots whose recording is still open are   *)
(* not ready to be released.                                               *)
Observe ==
  /\ mpc = "detect"
  /\ \E seen \in [Hosted -> {"present", "quiet", "blocked", "maximum"}] :
       slots' = [k \in Keys |-> IF k \in Hosted THEN Observed(slots[k], seen[k]) ELSE NoSlot]
  /\ ready' \in SUBSET {k \in Keys : slots'[k].releaseRequested}
  /\ mpc' = "finish" /\ scanned' = 0
  /\ UNCHANGED <<avars, runtimes, tunedHz, dvars, pushing, cvars, leaving>>

finishMultiReceiverRelease ==
  /\ mpc = "finish"
  /\ \E k \in ready :
       /\ ready' = ready \ {k}
       /\ IF slots[k] # NoSlot
          THEN slots' = [slots EXCEPT ![k] = NoSlot] /\ release(k, slots[k].suppress)
          ELSE UNCHANGED <<slots, avars>>
  /\ UNCHANGED <<runtimes, tunedHz, dvars, mpc, scanned, pushing, cvars, leaving>>

(* Discovery moves on: the suppressed keys of this stop that were not      *)
(* observed are cleared.  Then the loop of the thread tests mgmtRunning.   *)
AdvanceDiscovery ==
  /\ mpc = "finish" /\ ready = {}
  /\ \E S \in SUBSET Keys : clearSuppressed(S)
  /\ mpc' = IF mgmtRunning THEN "detect" ELSE "off"
  /\ UNCHANGED <<runtimes, tunedHz, slots, dvars, scanned, pushing, ready, cvars, leaving>>

(***************************************************************************)
(* The dispatch thread.                                                    *)
(***************************************************************************)
DispatchTop ==
  /\ dpc = "top"
  /\ dpc' = IF dispatchRunning THEN "check" ELSE "off"
  /\ UNCHANGED <<avars, runtimes, tunedHz, slots, queue, dispatchRunning, request, chosen,
                 mvars, cvars, leaving>>

(* The wait of the queue: the predicate, and what follows it.              *)
Sleep ==
  /\ dpc = "check" /\ dispatchRunning /\ queue = <<>>
  /\ dpc' = "sleep"
  /\ UNCHANGED <<avars, runtimes, tunedHz, slots, queue, dispatchRunning, request, chosen,
                 mvars, cvars, leaving>>

Block ==
  /\ dpc = "sleep"
  /\ dpc' = "blocked"
  /\ UNCHANGED <<avars, runtimes, tunedHz, slots, queue, dispatchRunning, request, chosen,
                 mvars, cvars, leaving>>

SpuriousWakeup ==
  /\ dpc = "blocked"
  /\ dpc' = "check"
  /\ UNCHANGED <<avars, runtimes, tunedHz, slots, queue, dispatchRunning, request, chosen,
                 mvars, cvars, leaving>>

Leave ==
  /\ dpc = "check" /\ ~dispatchRunning /\ queue = <<>>
  /\ dpc' = "off"
  /\ UNCHANGED <<avars, runtimes, tunedHz, slots, queue, dispatchRunning, request, chosen,
                 mvars, cvars, leaving>>

Pop ==
  /\ dpc = "check" /\ queue # <<>>
  /\ request' = Head(queue) /\ queue' = Tail(queue)
  /\ dpc' = "choose"
  /\ UNCHANGED <<avars, runtimes, tunedHz, slots, dispatchRunning, chosen, mvars, cvars, leaving>>

(* stop() ended the loop: the popped request keeps its pending entry.      *)
Abandon ==
  /\ dpc = "choose" /\ ~dispatchRunning
  /\ dpc' = "off" /\ request' = NoRequest
  /\ UNCHANGED <<avars, runtimes, tunedHz, slots, queue, dispatchRunning, chosen, mvars, cvars, leaving>>

(* Seeded fault: the pending entry of a refused channel is kept.           *)
NoCapacityKeepsPending ==
  /\ dpc = "choose" /\ dispatchRunning
  /\ choose(request.carrier) = NoAllocation
  /\ dpc' = "top" /\ request' = NoRequest
  /\ UNCHANGED <<avars, runtimes, tunedHz, slots, queue, dispatchRunning, chosen, mvars, cvars, leaving>>

NoCapacity ==
  /\ dpc = "choose" /\ dispatchRunning
  /\ choose(request.carrier) = NoAllocation
  /\ failPending({request.key})
  /\ dpc' = "top" /\ request' = NoRequest
  /\ UNCHANGED <<runtimes, tunedHz, slots, queue, dispatchRunning, chosen, mvars, cvars, leaving>>

(* Create the slot, then activate; a refused activation removes it again.  *)
Host(a, center) ==
  LET k == request.key IN
  /\ IF CanActivate(k, a)
     THEN activate(k, a) /\ slots' = [slots EXCEPT ![k] = Slot(a.receiver, request.carrier, center)]
     ELSE failPending({k}) /\ slots' = [slots EXCEPT ![k] = NoSlot]
  /\ dpc' = "top" /\ request' = NoRequest /\ chosen' = NoAllocation

ReuseCoverage ==
  /\ dpc = "choose" /\ dispatchRunning
  /\ LET a == choose(request.carrier) IN
       a.reused /\ a.receiver \in runtimes /\ Host(a, tunedHz[a.receiver])
  /\ UNCHANGED <<runtimes, tunedHz, queue, dispatchRunning, mvars, cvars, leaving>>

(* An idle receiver: the locks are dropped while the source tunes.         *)
BeginTune ==
  /\ dpc = "choose" /\ dispatchRunning
  /\ LET a == choose(request.carrier) IN
       a.receiver \in runtimes /\ ~a.reused /\ chosen' = a
  /\ dpc' = "tuning"
  /\ UNCHANGED <<avars, runtimes, tunedHz, slots, queue, dispatchRunning, request, mvars, cvars, leaving>>

(* Seeded fault: the runtime keeps its former center.                      *)
TunedStaleCenter ==
  /\ dpc = "tuning" /\ chosen.receiver \in runtimes
  /\ Host(chosen, request.carrier)
  /\ UNCHANGED <<runtimes, tunedHz, queue, dispatchRunning, mvars, cvars, leaving>>

Tuned ==
  /\ dpc = "tuning" /\ chosen.receiver \in runtimes
  /\ tunedHz' = [tunedHz EXCEPT ![chosen.receiver] = request.carrier]
  /\ Host(chosen, request.carrier)
  /\ UNCHANGED <<runtimes, queue, dispatchRunning, mvars, cvars, leaving>>

(* The receiver has no runtime, or failed to tune: the next one is tried.  *)
SetupFailed ==
  /\ \/ dpc = "tuning" /\ setUnavailable(chosen.receiver)
     \/ /\ dpc = "choose" /\ dispatchRunning
        /\ choose(request.carrier).receiver \notin runtimes \cup {NoReceiver}
        /\ setUnavailable(choose(request.carrier).receiver)
  /\ dpc' = "choose" /\ chosen' = NoAllocation
  /\ UNCHANGED <<runtimes, tunedHz, slots, queue, dispatchRunning, request, mvars, cvars, leaving>>

(***************************************************************************)
(* Unregistration of a source: `running` is read first, then the locks are *)
(* taken.                                                                  *)
(***************************************************************************)
SourceUnregister ==
  /\ leaving = NoReceiver /\ running
  /\ leaving' \in Receivers
  /\ UNCHANGED <<avars, runtimes, tunedHz, slots, dvars, mvars, cvars>>

(* Seeded fault: the slots of the hosted channels are left.                *)
DisconnectKeepsSlots ==
  /\ leaving # NoReceiver
  /\ IF leaving \in receivers THEN disconnect(leaving) ELSE UNCHANGED avars
  /\ runtimes' = runtimes \ {leaving}
  /\ leaving' = NoReceiver
  /\ UNCHANGED <<tunedHz, slots, dvars, mvars, cvars>>

handleMultiReceiverDisconnect ==
  /\ leaving # NoReceiver
  /\ IF leaving \in receivers THEN disconnect(leaving) ELSE UNCHANGED avars
  /\ slots' = [k \in Keys |-> IF k \in channels[leaving] THEN NoSlot ELSE slots[k]]
  /\ runtimes' = runtimes \ {leaving}
  /\ leaving' = NoReceiver
  /\ UNCHANGED <<tunedHz, dvars, mvars, cvars>>

(***************************************************************************)
(* start() and stop().                                                     *)
(***************************************************************************)
(* prepareMultiReceiverScan opens the receivers it can claim; all are      *)
(* tuned to the first scan stop.  The management thread is started here.   *)
Prepare ==
  /\ cpc = "stopped"
  /\ \E S \in SUBSET Receivers \ {{}} : setReceivers(S) /\ runtimes' = S
  /\ tunedHz' = [r \in Receivers |-> 0]     \* parked; the first stop is no carrier
  /\ mgmtRunning' = TRUE /\ mpc' = "detect" /\ cpc' = "starting"
  /\ UNCHANGED <<slots, dvars, scanned, pushing, ready, running, leaving>>

StartDispatch ==
  /\ cpc = "starting"
  /\ running' = TRUE /\ dispatchRunning' = TRUE
  /\ dpc' = "top" /\ cpc' = "running"
  /\ UNCHANGED <<avars, runtimes, tunedHz, slots, queue, request, chosen, mvars, mgmtRunning, leaving>>

Stop ==
  /\ cpc = "running"
  /\ running' = FALSE /\ mgmtRunning' = FALSE
  /\ cpc' = "joinMgmt"
  /\ UNCHANGED <<avars, runtimes, tunedHz, slots, dvars, mvars, leaving>>

(* dispatchRunning is cleared, and notified, without dispatchQueueMtx.     *)
StopDispatch ==
  /\ cpc = "joinMgmt" /\ mpc = "off"
  /\ dispatchRunning' = FALSE
  /\ dpc' = IF dpc = "blocked" THEN "check" ELSE dpc
  /\ cpc' = "joinDispatch"
  /\ UNCHANGED <<avars, runtimes, tunedHz, slots, queue, request, chosen, mvars, running,
                 mgmtRunning, leaving>>

DrainQueue ==
  /\ cpc = "joinDispatch" /\ dpc = "off"
  /\ failPending({queue[i].key : i \in DOMAIN queue})
  /\ queue' = <<>>
  /\ cpc' = "teardown"
  /\ UNCHANGED <<runtimes, tunedHz, slots, dispatchRunning, dpc, request, chosen, mvars,
                 running, mgmtRunning, leaving>>

DestroySlots ==
  /\ cpc = "teardown"
  /\ slots' = [k \in Keys |-> NoSlot]
  /\ cpc' = "release"
  /\ UNCHANGED <<avars, runtimes, tunedHz, dvars, mvars, running, mgmtRunning, leaving>>

(* Seeded fault: the sources are released, the allocator is not cleared.   *)
ReleaseKeepsAllocator ==
  /\ cpc = "release"
  /\ runtimes' = {} /\ cpc' = "stopped"
  /\ UNCHANGED <<avars, tunedHz, slots, dvars, mvars, running, mgmtRunning, leaving>>

releaseMultiReceiverSources ==
  /\ cpc = "release"
  /\ runtimes' = {} /\ clear
  /\ cpc' = "stopped"
  /\ UNCHANGED <<tunedHz, slots, dvars, mvars, running, mgmtRunning, leaving>>

Management ==
  EnqueueDispatch \/ Push \/ Observe \/ finishMultiReceiverRelease \/ AdvanceDiscovery
Dispatcher ==
  \/ DispatchTop \/ Sleep \/ Block \/ Leave \/ Pop \/ Abandon \/ NoCapacity
  \/ ReuseCoverage \/ BeginTune \/ Tuned \/ SetupFailed
Stopping == StopDispatch \/ DrainQueue \/ DestroySlots \/ releaseMultiReceiverSources

Next ==
  \/ Management \/ Dispatcher \/ SpuriousWakeup
  \/ SourceUnregister \/ handleMultiReceiverDisconnect
  \/ Prepare \/ StartDispatch \/ Stop \/ Stopping

(* The threads are scheduled, and a call of start() or stop() goes on;     *)
(* nobody has to call stop(), and no wake-up need be spurious.  Push waits *)
(* for a mutex that is released again and again, and gets it in the end.   *)
Spec ==
  /\ Init /\ [][Next]_vars
  /\ WF_vars(Management) /\ WF_vars(Dispatcher) /\ WF_vars(Stopping) /\ WF_vars(StartDispatch)
  /\ SF_vars(Push)
-----------------------------------------------------------------------------
(* activeChannels and the allocator agree, except while stop() tears both  *)
(* down: a channel is active exactly when it has a slot, on the receiver   *)
(* it is assigned to.                                                      *)
SlotsAgree ==
  cpc # "release" =>
    \A k \in Keys : /\ dispatch[k] = "active" <=> slots[k] # NoSlot
                    /\ slots[k] # NoSlot => slots[k].rx = assignments[k]

(* Every VFO hears its carrier: the receiver it was bound to is tuned so   *)
(* that the slot's offset lands on the carrier, within the usable span     *)
(* unless the receiver was tuned for it; and a receiver being tuned hosts  *)
(* nobody.                                                                 *)
Heard ==
  /\ \A k \in Hosted : LET s == slots[k] IN
       /\ tunedHz[s.rx] + s.offset = s.carrier
       /\ s.offset = 0 \/ Abs(s.offset) =< Half[s.rx]
  /\ dpc = "tuning" => \A k \in Hosted : slots[k].rx # chosen.receiver

(* A pending key is on its way: it is being queued, is in the queue, or is *)
(* in the hands of the dispatcher, so that it cannot block its             *)
(* neighbourhood for ever.  stop() alone may leave one behind, for         *)
(* releaseMultiReceiverSources to clear.                                   *)
PendingTracked ==
  \A k \in Keys : dispatch[k] = "pending" =>
    \/ k \in {pushing.key, request.key} \cup {queue[i].key : i \in DOMAIN queue}
    \/ cpc \in {"joinDispatch", "teardown", "release"}

(* A channel loses its slot only because its release was requested, its    *)
(* source was unregistered, or the scan is stopped: "discovery moving to   *)
(* another scan stop does not end its channel".                            *)
EndsForAReason ==
  [][\A k \in Hosted : slots'[k] = NoSlot =>
       slots[k].releaseRequested \/ leaving = slots[k].rx \/ cpc = "teardown"]_vars

(* All the calls of the allocator are legal uses of it; in particular      *)
(* every allocation is still sound when it is activated, although the      *)
(* locks were dropped for the tuning, and it is cleared before it is set.  *)
ImplementsAllocator == AllocatorSpec

(* A pending key is always decided: it gets a receiver, or it is dropped.  *)
PendingDecided == \A k \in Keys : dispatch[k] = "pending" ~> dispatch[k] # "pending"

(* "clean stop/restart": a stop() that was begun returns.                  *)
StopReturns == cpc = "joinMgmt" ~> cpc = "stopped"
=============================================================================
