-------------------------- MODULE MultiReceiverProofs --------------------------
(***************************************************************************)
(* What ReceiverAllocator promises for every pool, set of keys, bandwidth  *)
(* and exclusion radius; then that the multi-receiver scan uses it as      *)
(* AllocatorSpec allows, so that what is proved of AllocatorSpec holds in  *)
(* the scan too, that the slots agree with the allocator and hear their    *)
(* carriers, and that they end for a reason.                               *)
(***************************************************************************)
EXTENDS MultiReceiver, WellFoundedInduction, TLAPS

(* Consistent needs the types only; Distinct needs that it is symmetric,   *)
(* which Excludes states for one side.                                     *)
AllocatorInv == AllocatorTypeOK /\ Consistent /\ Parked /\ Distinct

(* The allocations the callers use have a receiver and a frequency.        *)
LEMMA AllocationType ==
  ASSUME NEW a \in Allocations
  PROVE  a.receiver \in Receivers /\ a.center \in Nat \ {0}
BY AllocatorAssumption DEF Allocations, Allocation

(* The empty allocator is consistent.                                      *)
LEMMA InitInv == AllocatorInit => AllocatorInv
BY AllocatorAssumption
   DEF AllocatorInit, AllocatorInv, AllocatorTypeOK, Consistent, Parked, Distinct, Receivers,
       NoReceiver, DispatchStates, idle

(* markPendingDistinct: what is not yet dispatched gets no channel, and    *)
(* the keys it is near to are neither pending nor active.                  *)
LEMMA MarkInv ==
  ASSUME AllocatorInv, NEW k \in Keys, markPendingDistinct(k)
  PROVE  AllocatorInv'
<1> USE AllocatorAssumption
<1>1. AllocatorTypeOK'
  BY DEF AllocatorInv, AllocatorTypeOK, markPendingDistinct, DispatchStates
<1>2. Consistent' /\ Parked'
  BY DEF AllocatorInv, AllocatorTypeOK, Consistent, Parked, markPendingDistinct, idle
<1>3. Distinct'
  <2> SUFFICES ASSUME NEW i \in Keys, NEW j \in Keys,
                      {dispatch'[i], dispatch'[j]} \subseteq {"pending", "active"},
                      Abs(i - j) =< Radius, i # j
               PROVE  FALSE
    BY DEF Distinct
  <2>1. Abs(j - i) = Abs(i - j)
    BY DEF Abs
  <2>2. CASE i # k /\ j # k
    BY <2>2 DEF AllocatorInv, AllocatorTypeOK, Distinct, markPendingDistinct
  <2>3. CASE i = k
    BY <2>1, <2>3 DEF AllocatorInv, AllocatorTypeOK, markPendingDistinct, Excludes
  <2>4. CASE j = k
    BY <2>4 DEF AllocatorInv, AllocatorTypeOK, markPendingDistinct, Excludes
  <2> QED BY <2>2, <2>3, <2>4
<1> QED BY <1>1, <1>2, <1>3 DEF AllocatorInv

(* activate moves one pending key into one receiver.                       *)
LEMMA ActivateInv ==
  ASSUME AllocatorInv, NEW k \in Keys, NEW f \in Carriers[k], NEW a \in Allocations,
         Sound(a, f), activate(k, a)
  PROVE  AllocatorInv'
<1> USE AllocatorAssumption, AllocationType
<1>1. AllocatorTypeOK'
  BY DEF AllocatorInv, AllocatorTypeOK, activate, DispatchStates
<1>2. assignments[k] = NoReceiver /\ dispatch[k] = "pending"
  BY DEF AllocatorInv, Consistent, activate, CanActivate
<1> DEFINE r == a.receiver
<1>a. r \in Receivers /\ r \in receivers /\ r # NoReceiver
  BY DEF activate, CanActivate, Receivers, NoReceiver
<1>b. /\ channels' = [channels EXCEPT ![r] = @ \cup {k}]
      /\ assignments' = [assignments EXCEPT ![k] = r]
      /\ dispatch' = [dispatch EXCEPT ![k] = "active"]
      /\ UNCHANGED receivers
  BY DEF activate
<1> HIDE DEF r
<1>3. Consistent'
  <2>1. \A j \in Keys : dispatch'[j] = "active" <=> assignments'[j] # NoReceiver
    BY <1>2, <1>a, <1>b DEF AllocatorInv, AllocatorTypeOK, Consistent
  <2>2. \A j \in Keys, q \in Receivers : j \in channels'[q] <=> assignments'[j] = q
    BY <1>2, <1>a, <1>b DEF AllocatorInv, AllocatorTypeOK, Consistent, NoReceiver, Receivers
  <2>3. \A q \in Receivers : channels'[q] # {} => q \in receivers'
    BY <1>a, <1>b DEF AllocatorInv, AllocatorTypeOK, Consistent, idle
  <2> QED BY <2>1, <2>2, <2>3 DEF Consistent, idle
<1>4. Parked'
  BY DEF AllocatorInv, AllocatorTypeOK, Parked, activate, idle
<1>5. Distinct'
  BY <1>2 DEF AllocatorInv, AllocatorTypeOK, Distinct, activate
<1> QED BY <1>1, <1>3, <1>4, <1>5 DEF AllocatorInv

(* release takes the key out of the receiver it is assigned to.            *)
LEMMA ReleaseInv ==
  ASSUME AllocatorInv, NEW k \in Keys, NEW suppress \in BOOLEAN,
         dispatch[k] = "active", release(k, suppress)
  PROVE  AllocatorInv'
<1> USE AllocatorAssumption
<1> DEFINE r == assignments[k]
<1>1. r \in Receivers /\ r \in receivers /\ k \in channels[r]
  BY DEF AllocatorInv, AllocatorTypeOK, Consistent, idle
<1>2. /\ channels' = [channels EXCEPT ![r] = @ \ {k}]
      /\ centerHz' = [centerHz EXCEPT ![r] = IF channels'[r] = {} THEN 0 ELSE @]
      /\ assignments' = [assignments EXCEPT ![k] = NoReceiver]
      /\ dispatch' = [dispatch EXCEPT ![k] = IF suppress THEN "suppressed" ELSE "none"]
      /\ UNCHANGED <<receivers, available>>
  BY <1>1 DEF release
<1>3. AllocatorTypeOK'
  BY <1>1, <1>2 DEF AllocatorInv, AllocatorTypeOK, DispatchStates
<1>4. Consistent'
  BY <1>1, <1>2 DEF AllocatorInv, AllocatorTypeOK, Consistent, idle, NoReceiver, Receivers
<1>5. Parked'
  BY <1>1, <1>2 DEF AllocatorInv, AllocatorTypeOK, Parked, idle
<1>6. Distinct'
  BY <1>2 DEF AllocatorInv, AllocatorTypeOK, Distinct
<1> QED BY <1>3, <1>4, <1>5, <1>6 DEF AllocatorInv

(* disconnect ends the channels of a receiver.                             *)
LEMMA DisconnectInv ==
  ASSUME AllocatorInv, NEW r \in Receivers, disconnect(r)
  PROVE  AllocatorInv'
<1> USE AllocatorAssumption
<1>1. AllocatorTypeOK'
  BY DEF AllocatorInv, AllocatorTypeOK, disconnect, DispatchStates
<1>2. Consistent'
  BY DEF AllocatorInv, AllocatorTypeOK, Consistent, disconnect, idle, NoReceiver, Receivers
<1>3. Parked'
  BY DEF AllocatorInv, AllocatorTypeOK, Parked, disconnect, idle
<1>4. Distinct'
  BY DEF AllocatorInv, AllocatorTypeOK, Distinct, disconnect
<1> QED BY <1>1, <1>2, <1>3, <1>4 DEF AllocatorInv

(* The calls that only end dispatches: none of them touches an active key. *)
LEMMA ForgetInv ==
  ASSUME AllocatorInv, NEW S \in SUBSET Keys, failPending(S) \/ clearSuppressed(S)
  PROVE  AllocatorInv'
<1> USE AllocatorAssumption
<1>1. /\ UNCHANGED <<receivers, available, centerHz, channels, assignments>>
      /\ dispatch' \in [Keys -> DispatchStates]
      /\ \A k \in Keys : \/ dispatch'[k] = dispatch[k]
                         \/ dispatch'[k] = "none" /\ dispatch[k] \in {"pending", "suppressed"}
  BY DEF AllocatorInv, AllocatorTypeOK, failPending, clearSuppressed, DispatchStates
<1>2. AllocatorTypeOK'
  BY <1>1 DEF AllocatorInv, AllocatorTypeOK
<1>3. Consistent' /\ Parked'
  BY <1>1 DEF AllocatorInv, Consistent, Parked, idle
<1>4. Distinct'
  BY <1>1 DEF AllocatorInv, Distinct
<1> QED BY <1>2, <1>3, <1>4 DEF AllocatorInv

(* The calls that reset the pool.                                          *)
LEMMA ResetInv ==
  ASSUME AllocatorInv, SetReceivers \/ SetUnavailable \/ clear
  PROVE  AllocatorInv'
<1> USE AllocatorAssumption
<1>1. CASE SetReceivers
  <2>1. PICK S \in SUBSET Receivers : setReceivers(S)
    BY <1>1 DEF SetReceivers
  <2>2. \A k \in Keys : dispatch[k] = "none" /\ assignments[k] = NoReceiver
    BY <1>1 DEF SetReceivers, AllocatorInv, Consistent
  <2>3. AllocatorTypeOK'
    BY <2>1 DEF AllocatorInv, AllocatorTypeOK, setReceivers
  <2>4. Consistent'
    BY <2>1, <2>2 DEF Consistent, setReceivers, idle, NoReceiver, Receivers
  <2>5. Parked' /\ Distinct'
    BY <2>1 DEF AllocatorInv, Parked, Distinct, setReceivers, idle
  <2> QED BY <2>3, <2>4, <2>5 DEF AllocatorInv
<1>2. CASE SetUnavailable
  BY <1>2 DEF SetUnavailable, setUnavailable, AllocatorInv, AllocatorTypeOK, Consistent, Parked,
              Distinct, idle
<1>3. CASE clear
  BY <1>3 DEF clear, AllocatorInv, AllocatorTypeOK, Consistent, Parked, Distinct, idle,
              DispatchStates, NoReceiver, Receivers
<1> QED BY <1>1, <1>2, <1>3

(* AllocatorInv is inductive.                                              *)
LEMMA NextInv == AllocatorInv /\ [AllocatorNext]_avars => AllocatorInv'
<1> SUFFICES ASSUME AllocatorInv, [AllocatorNext]_avars PROVE AllocatorInv'
  OBVIOUS
<1>1. CASE Mark
  BY <1>1, MarkInv DEF Mark
<1>2. CASE Activate
  BY <1>2, ActivateInv DEF Activate
<1>3. CASE Fail
  BY <1>3, ForgetInv DEF Fail
<1>4. CASE ClearSuppressed
  BY <1>4, ForgetInv DEF ClearSuppressed
<1>5. CASE Release
  BY <1>5, ReleaseInv DEF Release
<1>6. CASE Disconnect
  BY <1>6, DisconnectInv DEF Disconnect
<1>7. CASE SetReceivers \/ SetUnavailable \/ clear
  BY <1>7, ResetInv
<1>8. CASE UNCHANGED avars
  BY <1>8 DEF avars, AllocatorInv, AllocatorTypeOK, Consistent, Parked, Distinct, idle
<1> QED BY <1>1, <1>2, <1>3, <1>4, <1>5, <1>6, <1>7, <1>8 DEF AllocatorNext

(* AllocatorInv holds in every behaviour.                                  *)
LEMMA Invariance == AllocatorSpec => []AllocatorInv
BY InitInv, NextInv, PTL DEF AllocatorSpec

(* Every field of the allocator keeps its type.                            *)
THEOREM TypeCorrect == AllocatorSpec => []AllocatorTypeOK
BY Invariance, PTL DEF AllocatorInv

(* The dispatch state, the assignment and the hosting receiver of a        *)
(* channel always agree.                                                   *)
THEOREM ConsistentHolds == AllocatorSpec => []Consistent
BY Invariance, PTL DEF AllocatorInv

(* A receiver has a center exactly while it hosts channels.                *)
THEOREM ParkedHolds == AllocatorSpec => []Parked
BY Invariance, PTL DEF AllocatorInv

(* Two dispatched channels are always further apart than the radius.       *)
THEOREM DistinctHolds == AllocatorSpec => []Distinct
BY Invariance, PTL DEF AllocatorInv

(* One call never moves a receiver that hosts channels before and after.   *)
LEMMA StepNeverMoves ==
  ASSUME AllocatorInv, [AllocatorNext]_avars, NEW r \in Receivers,
         channels[r] # {}, channels'[r] # {}
  PROVE  centerHz'[r] = centerHz[r]
<1> USE AllocatorAssumption DEF AllocatorInv, AllocatorTypeOK
<1>1. CASE Mark
  BY <1>1 DEF Mark, markPendingDistinct
<1>2. CASE Activate
  <2>1. PICK k \in Keys : \E f \in Carriers[k], a \in Allocations : Sound(a, f) /\ activate(k, a)
    BY <1>2 DEF Activate
  <2>2. PICK f \in Carriers[k], a \in Allocations : Sound(a, f) /\ activate(k, a)
    BY <2>1
  <2> QED BY <2>2, AllocationType DEF Sound, activate, idle
<1>3. CASE Fail \/ ClearSuppressed \/ SetUnavailable
  BY <1>3 DEF Fail, failPending, ClearSuppressed, clearSuppressed, SetUnavailable, setUnavailable
<1>4. CASE Release
  BY <1>4 DEF Release, release
<1>5. CASE Disconnect
  BY <1>5 DEF Disconnect, disconnect
<1>6. CASE SetReceivers \/ clear
  BY <1>6 DEF SetReceivers, setReceivers, clear
<1>7. CASE UNCHANGED avars
  BY <1>7 DEF avars
<1> QED BY <1>1, <1>2, <1>3, <1>4, <1>5, <1>6, <1>7 DEF AllocatorNext

(* A receiver is never moved from under the channels it hosts.             *)
THEOREM NeverMovedHolds == AllocatorSpec => NeverMoved
<1>1. AllocatorInv /\ [AllocatorNext]_avars =>
        [\A r \in Receivers : channels[r] # {} /\ channels'[r] # {} => centerHz'[r] = centerHz[r]]_avars
  BY StepNeverMoves
<1> QED BY <1>1, Invariance, PTL DEF AllocatorSpec, NeverMoved

(* First(S) is a member of S: a set of receivers has a least one.          *)
LEMMA FirstInSet ==
  ASSUME NEW S \in SUBSET Receivers, S # {}
  PROVE  First(S) \in S
<1>1. S \subseteq Nat
  BY AllocatorAssumption DEF Receivers
<1>2. PICK r \in S : \A q \in S : ~ (<<q, r>> \in OpToRel(<, Nat))
  BY <1>1, WFMin, NatLessThanWellFounded
<1>3. \A q \in Nat : q < r => <<q, r>> \in OpToRel(<, Nat)
  BY <1>1 DEF OpToRel
<1>4. \A q \in S : ~ (q < r)
  BY <1>1, <1>2, <1>3, Zenon
<1>5. \A q \in S : r =< q
  BY <1>1, <1>4
<1> QED BY <1>5 DEF First

(* choose() returns an allocation that is sound for its carrier, or none:  *)
(* it never moves a receiver in use nor leaves its usable span.            *)
THEOREM ChooseIsSound ==
  ASSUME AllocatorTypeOK, NEW f \in Nat, choose(f) # NoAllocation
  PROVE  Sound(choose(f), f)
<1>1. Covering(f) \subseteq Receivers /\ Idle \subseteq Receivers
  BY DEF AllocatorTypeOK, Covering, Idle
<1>2. CASE Covering(f) # {}
  <2>1. First(Covering(f)) \in Covering(f)
    BY <1>1, <1>2, FirstInSet
  <2>2. choose(f) = Allocation(First(Covering(f)), centerHz[First(Covering(f))], TRUE)
    BY <1>2 DEF choose
  <2> QED BY <2>1, <2>2 DEF Covering, Sound, Allocation
<1>3. CASE Covering(f) = {} /\ Idle # {}
  <2>1. First(Idle) \in Idle
    BY <1>1, <1>3, FirstInSet
  <2>2. choose(f) = Allocation(First(Idle), f, FALSE)
    BY <1>3 DEF choose
  <2> QED BY <2>1, <2>2 DEF Idle, Sound, Allocation
<1> QED BY <1>2, <1>3 DEF choose

(* choose() gives up only when it must: if it returns no allocation, there *)
(* is none that would be sound, whichever receiver one tried.              *)
THEOREM ChooseRefuses ==
  ASSUME AllocatorTypeOK, NEW f \in Nat, choose(f) = NoAllocation
  PROVE  \A a : ~Sound(a, f)
<1>1. Covering(f) \subseteq Receivers /\ Idle \subseteq Receivers
  BY DEF AllocatorTypeOK, Covering, Idle
<1>2. \A r \in Receivers : \A c, b : Allocation(r, c, b) # NoAllocation
  <2>1. \A r, c, b : Allocation(r, c, b).receiver = r
    BY DEF Allocation
  <2>2. NoAllocation.receiver \notin Receivers
    BY DEF Allocation, NoAllocation, NoReceiver, Receivers
  <2> QED BY <2>1, <2>2
<1>3. Covering(f) = {}
  <2>1. Covering(f) # {} => choose(f) = Allocation(First(Covering(f)), centerHz[First(Covering(f))], TRUE)
    BY DEF choose
  <2> QED BY <1>1, <1>2, <2>1, FirstInSet
<1>4. Idle = {}
  <2>1. Idle # {} => choose(f) = Allocation(First(Idle), f, FALSE)
    BY <1>3 DEF choose
  <2> QED BY <1>1, <1>2, <2>1, FirstInSet
<1> QED BY <1>3, <1>4 DEF Sound, Covering, Idle

-----------------------------------------------------------------------------
(***************************************************************************)
(* The scan                                                                *)
(***************************************************************************)

Detected == {q \in [key : Keys, carrier : Nat \ {0}] : q.carrier \in Carriers[q.key]}
Slots == [rx : Nat, carrier : Nat, offset : Int, releaseRequested : BOOLEAN, suppress : BOOLEAN]
Deciding == dpc \in {"choose", "tuning"}

(* The types of the state.                                                 *)
ScanTypes ==
  /\ slots \in [Keys -> Slots] /\ tunedHz \in [Receivers -> Nat]
  /\ queue \in Seq(Detected) /\ ready \subseteq Keys /\ leaving \in Receivers \cup {NoReceiver}
  /\ runtimes \subseteq Receivers
  /\ mpc = "push" => pushing \in Detected
  /\ Deciding => request \in Detected

(* Which threads there are while the scan is started and stopped, and what *)
(* is left of it.                                                          *)
Phases ==
  /\ cpc \in {"stopped", "starting", "running", "joinMgmt", "joinDispatch", "teardown", "release"}
  /\ cpc \in {"stopped", "starting", "teardown", "release"} => dpc = "off"
  /\ cpc \in {"stopped", "joinDispatch", "teardown", "release"} => mpc = "off"
  /\ dispatchRunning <=> cpc \in {"running", "joinMgmt"}
  /\ cpc \in {"stopped", "teardown", "release"} => queue = <<>>
  /\ cpc = "stopped" => \A k \in Keys : dispatch[k] = "none"
  /\ cpc = "release" => \A k \in Keys : slots[k] = NoSlot

(* A request on its way is that of a pending key, and is the only one of   *)
(* its key.                                                                *)
Flying ==
  /\ \A i \in DOMAIN queue : dispatch[queue[i].key] = "pending"
  /\ \A i, j \in DOMAIN queue : queue[i].key = queue[j].key => i = j
  /\ mpc = "push" => /\ dispatch[pushing.key] = "pending"
                     /\ \A i \in DOMAIN queue : queue[i].key # pushing.key
  /\ Deciding => /\ dispatch[request.key] = "pending"
                 /\ \A i \in DOMAIN queue : queue[i].key # request.key
                 /\ mpc = "push" => request.key # pushing.key

(* A pending key is on its way, or stop() has left it behind.              *)
Tracked ==
  \A k \in Keys : dispatch[k] = "pending" =>
    \/ mpc = "push" /\ k = pushing.key
    \/ Deciding /\ k = request.key
    \/ \E i \in DOMAIN queue : k = queue[i].key
    \/ cpc \in {"joinDispatch", "teardown", "release"}

(* A receiver that hosts channels is tuned where the allocator has it; one *)
(* that is being tuned hosts none.                                         *)
Centers ==
  /\ \A r \in Receivers : ~idle(r) =>
       centerHz[r] = tunedHz[r] /\ centerHz[r] \in UNION {Carriers[k] : k \in Keys}
  /\ dpc = "tuning" => /\ chosen.receiver \in Receivers /\ idle(chosen.receiver)
                       /\ chosen = Allocation(chosen.receiver, request.carrier, FALSE)

(* Every slot's offset lands on its carrier.                               *)
Bound ==
  \A k \in Keys : slots[k] # NoSlot =>
    /\ tunedHz[slots[k].rx] + slots[k].offset = slots[k].carrier
    /\ slots[k].offset = 0 \/ Abs(slots[k].offset) =< Half[slots[k].rx]

(* The channels about to end have been asked to, or have ended already.    *)
Ending ==
  mpc = "finish" => \A k \in ready :
    dispatch[k] # "pending" /\ (slots[k] # NoSlot => slots[k].releaseRequested)

(* The inductive invariant.                                                *)
ScanInv ==
  /\ AllocatorInv /\ ScanTypes /\ Phases /\ Flying /\ Tracked /\ Centers /\ SlotsAgree /\ Bound /\ Ending

-----------------------------------------------------------------------------
(* What Append and Tail do to the elements of a sequence.                  *)
LEMMA AppendMore ==
  ASSUME NEW S, NEW q \in Seq(S), NEW x \in S
  PROVE  /\ Append(q, x) \in Seq(S) /\ DOMAIN Append(q, x) = 1 .. Len(q) + 1
         /\ Len(q) \in Nat /\ DOMAIN q = 1 .. Len(q)
         /\ \A i \in 1 .. Len(q) + 1 : Append(q, x)[i] = IF i = Len(q) + 1 THEN x ELSE q[i]
OBVIOUS

LEMMA TailLess ==
  ASSUME NEW S, NEW q \in Seq(S), q # <<>>
  PROVE  /\ Head(q) = q[1] /\ q[1] \in S /\ Len(q) \in Nat \ {0} /\ DOMAIN q = 1 .. Len(q)
         /\ Tail(q) \in Seq(S) /\ DOMAIN Tail(q) = 1 .. Len(q) - 1
         /\ \A i \in 1 .. Len(q) - 1 : Tail(q)[i] = q[i + 1]
OBVIOUS

LEMMA Elements ==
  ASSUME NEW S, NEW q \in Seq(S)
  PROVE  DOMAIN q = 1 .. Len(q) /\ Len(q) \in Nat /\ \A i \in DOMAIN q : q[i] \in S
OBVIOUS

(* What is detected is a carrier of a key.                                 *)
LEMMA DetectedType ==
  ASSUME NEW q \in Detected
  PROVE  q.key \in Keys /\ q.carrier \in Carriers[q.key] /\ q.carrier \in Nat \ {0}
BY DEF Detected

LEMMA AllocationFields ==
  /\ NoAllocation.receiver = NoReceiver /\ NoAllocation.reused = FALSE
  /\ NoReceiver \notin Receivers
BY DEF Allocation, NoAllocation, Receivers, NoReceiver

(* An allocation is a covered span, an idle receiver, or none.             *)
LEMMA ChooseKinds ==
  ASSUME AllocatorTypeOK, NEW f \in Nat
  PROVE  \/ choose(f) = NoAllocation
         \/ \E r \in receivers :
              choose(f) = Allocation(r, centerHz[r], TRUE) /\ available[r] /\ ~idle(r)
              /\ Abs(f - centerHz[r]) =< Half[r]
         \/ \E r \in receivers : choose(f) = Allocation(r, f, FALSE) /\ available[r] /\ idle(r)
<1>1. Covering(f) \subseteq Receivers /\ Idle \subseteq Receivers
  BY DEF AllocatorTypeOK, Covering, Idle
<1>2. CASE Covering(f) # {}
  <2>1. First(Covering(f)) \in Covering(f)
    BY <1>1, <1>2, FirstInSet
  <2>2. choose(f) = Allocation(First(Covering(f)), centerHz[First(Covering(f))], TRUE)
    BY <1>2 DEF choose
  <2> QED BY <2>1, <2>2 DEF Covering
<1>3. CASE Covering(f) = {} /\ Idle # {}
  <2>1. First(Idle) \in Idle
    BY <1>1, <1>3, FirstInSet
  <2>2. choose(f) = Allocation(First(Idle), f, FALSE)
    BY <1>3 DEF choose
  <2> QED BY <2>1, <2>2 DEF Idle
<1> QED BY <1>2, <1>3 DEF choose

(* A slot that is taken has a receiver.                                    *)
LEMMA SlotTaken ==
  ASSUME NEW r \in Receivers, NEW f, NEW c
  PROVE  Slot(r, f, c) # NoSlot
<1>1. Slot(r, f, c).rx = r /\ NoSlot.rx = 0 /\ r # 0
  BY DEF Slot, NoSlot, Receivers, NoReceiver
<1> QED BY <1>1

(* The keys of the requests on their way.                                  *)
LEMMA Known ==
  ASSUME ScanTypes
  PROVE  /\ \A i \in DOMAIN queue : queue[i] \in Detected /\ queue[i].key \in Keys
         /\ mpc = "push" => pushing.key \in Keys
         /\ Deciding => /\ request.key \in Keys /\ request.carrier \in Carriers[request.key]
                        /\ request.carrier \in Nat \ {0}
<1>1. queue \in Seq(Detected) BY DEF ScanTypes
<1>2. \A i \in DOMAIN queue : queue[i] \in Detected BY <1>1, Elements
<1> QED BY <1>2, DetectedType DEF ScanTypes

(* A channel with a slot is hosted by the receiver it is bound to, and     *)
(* only a channel with a slot is hosted.                                   *)
LEMMA HostedSlot ==
  ASSUME ScanInv, NEW k \in Keys
  PROVE  /\ slots[k] # NoSlot =>
              /\ slots[k].rx \in Receivers /\ slots[k].rx # 0 /\ assignments[k] = slots[k].rx
              /\ k \in channels[slots[k].rx] /\ dispatch[k] = "active"
         /\ cpc # "release" /\ dispatch[k] = "active" => slots[k] # NoSlot
<1>1. CASE slots[k] # NoSlot
  <2>1. cpc # "release"
    BY <1>1 DEF ScanInv, Phases
  <2>2. dispatch[k] = "active" /\ assignments[k] = slots[k].rx
    BY <1>1, <2>1 DEF ScanInv, SlotsAgree
  <2>3. assignments[k] \in Receivers
    BY <2>2 DEF ScanInv, AllocatorInv, AllocatorTypeOK, Consistent
  <2>4. k \in channels[assignments[k]] /\ assignments[k] # 0
    BY <2>3 DEF ScanInv, AllocatorInv, Consistent, Receivers
  <2> QED BY <1>1, <2>2, <2>3, <2>4
<1>2. CASE slots[k] = NoSlot BY <1>2 DEF ScanInv, SlotsAgree
<1> QED BY <1>1, <1>2

(* An observation changes what is asked of a slot, and not where it is.    *)
LEMMA ObservedSlot ==
  ASSUME NEW s \in Slots, NEW seen
  PROVE  /\ Observed(s, seen) \in Slots /\ Observed(s, seen).rx = s.rx
         /\ Observed(s, seen).carrier = s.carrier /\ Observed(s, seen).offset = s.offset
BY DEF Observed, Slots

LEMMA NoSlotType ==
  NoSlot \in Slots /\ NoSlot.rx = 0 /\ NoSlot.releaseRequested = FALSE
BY DEF NoSlot, Slots, NoReceiver

(* failPending forgets pending keys and nothing else.                      *)
LEMMA FailStep ==
  ASSUME AllocatorInv, NEW S \in SUBSET Keys, failPending(S)
  PROVE  /\ [AllocatorNext]_avars
         /\ UNCHANGED <<receivers, available, centerHz, channels, assignments>>
         /\ \A k \in Keys : dispatch'[k] = IF k \in S /\ dispatch[k] = "pending" THEN "none"
                                           ELSE dispatch[k]
<1>1. AllocatorNext BY DEF AllocatorNext, Fail
<1> QED BY <1>1 DEF failPending

(* A request is decided: the channel is activated on a sound allocation    *)
(* and gets its slot, or it is dropped.                                    *)
LEMMA HostKeeps ==
  ASSUME ScanInv, Deciding, NEW r \in Receivers, NEW c \in Nat, NEW old, NEW b \in BOOLEAN,
         tunedHz' \in [Receivers -> Nat], tunedHz'[r] = c,
         \A q \in Receivers : ~idle(q) => tunedHz'[q] = tunedHz[q],
         idle(r) => old = request.carrier /\ c = request.carrier,
         ~idle(r) => /\ old = centerHz[r] /\ c = centerHz[r]
                     /\ Abs(request.carrier - c) =< Half[r],
         Host(Allocation(r, old, b), c),
         UNCHANGED <<runtimes, queue, dispatchRunning, mvars, cvars, leaving>>
  PROVE  ScanInv' /\ [AllocatorNext]_avars
<1> USE DEF ScanInv
<1> DEFINE k == request.key  f == request.carrier  a == Allocation(r, c, b)
<1>1. /\ k \in Keys /\ f \in Carriers[k] /\ f \in Nat \ {0} /\ dispatch[k] = "pending"
      /\ old = c /\ cpc # "release" /\ slots[k] = NoSlot /\ a.receiver = r /\ a.center = c
  BY Known, HostedSlot DEF Flying, Phases, Deciding, Allocation
<1>2. c \in UNION {Carriers[j] : j \in Keys} BY <1>1 DEF Centers
<1>3. a \in Allocations BY <1>2 DEF Allocations
<1>4. dpc' = "top" /\ ~Deciding' BY DEF Host, Deciding
<1>5. CASE CanActivate(k, a)
  <2>1. activate(k, a) /\ slots' = [slots EXCEPT ![k] = Slot(r, f, c)]
    BY <1>1, <1>5 DEF Host
  <2>2. Sound(a, f)
    BY <1>1, <1>5 DEF Sound, CanActivate
  <2>3. [AllocatorNext]_avars /\ AllocatorInv'
    BY <1>1, <1>3, <2>1, <2>2, NextInv DEF AllocatorNext, Activate
  <2> HIDE DEF k, f, a
  <2>4. /\ dispatch'[k] = "active" /\ assignments'[k] = r
        /\ \A j \in Keys \ {k} : dispatch'[j] = dispatch[j] /\ assignments'[j] = assignments[j]
        /\ centerHz'[r] = c /\ \A q \in Receivers \ {r} : centerHz'[q] = centerHz[q] /\ channels'[q] = channels[q]
    BY <1>1, <2>1 DEF activate, AllocatorInv, AllocatorTypeOK
  <2>5. /\ slots'[k] = Slot(r, f, c) /\ slots'[k] # NoSlot /\ slots' \in [Keys -> Slots]
        /\ \A j \in Keys \ {k} : slots'[j] = slots[j]
        /\ slots'[k].rx = r /\ slots'[k].carrier = f /\ slots'[k].offset = f - c
    <3>1. Slot(r, f, c) \in Slots
      BY <1>1 DEF Slot, Slots, Receivers
    <3>2. slots \in [Keys -> Slots]
      BY DEF ScanTypes
    <3> QED BY <1>1, <2>1, <3>1, <3>2, SlotTaken DEF Slot
  <2>6. ScanTypes' /\ Phases'
    BY <1>1, <1>4, <2>4, <2>5 DEF ScanTypes, Phases, Deciding, mvars, cvars
  <2>7. Flying' /\ Tracked'
    BY <1>1, <1>4, <2>4, Known DEF Flying, Tracked, Deciding, mvars, cvars, k
  <2>8. Centers'
    BY <1>2, <1>4, <2>4 DEF Centers, idle
  <2>9. SlotsAgree' /\ Ending'
    <3>1. UNCHANGED <<mpc, ready, cpc>>
      BY DEF mvars, cvars
    <3>2. \A j \in Keys : dispatch'[j] = "pending" => dispatch[j] = "pending" /\ j # k
      BY <2>4
    <3>3. ready \subseteq Keys
      BY DEF ScanTypes
    <3>4. mpc = "finish" => k \notin ready
      BY <1>1 DEF Ending, k
    <3>5. Ending'
      BY <2>5, <3>1, <3>2, <3>3, <3>4 DEF Ending
    <3>6. SlotsAgree'
      BY <1>1, <2>4, <2>5, <3>1 DEF SlotsAgree
    <3> QED BY <3>5, <3>6
  <2>10. Bound'
    <3>1. ASSUME NEW j \in Keys \ {k}, slots[j] # NoSlot
          PROVE  tunedHz'[slots[j].rx] = tunedHz[slots[j].rx]
      BY <3>1, HostedSlot DEF idle
    <3>2. f - c = 0 \/ Abs(f - c) =< Half[r]
      BY <1>1 DEF f
    <3>3. c + (f - c) = f
      BY <1>1
    <3> QED BY <2>5, <3>1, <3>2, <3>3 DEF Bound
  <2> QED BY <2>3, <2>6, <2>7, <2>8, <2>9, <2>10
<1>6. CASE ~CanActivate(k, a)
  <2>1. failPending({k}) /\ slots' = [slots EXCEPT ![k] = NoSlot]
    BY <1>1, <1>6 DEF Host
  <2>2. /\ [AllocatorNext]_avars /\ AllocatorInv'
        /\ UNCHANGED <<centerHz, channels, assignments>>
        /\ dispatch'[k] = "none" /\ \A j \in Keys \ {k} : dispatch'[j] = dispatch[j]
    BY <1>1, <2>1, FailStep, NextInv
  <2>3. slots' = slots
    BY <1>1, <2>1 DEF ScanTypes
  <2> HIDE DEF k, f, a
  <2>4. ScanTypes' /\ Phases'
    BY <1>1, <1>4, <2>2, <2>3 DEF ScanTypes, Phases, Deciding, mvars, cvars
  <2>5. Flying' /\ Tracked'
    BY <1>1, <1>4, <2>2, Known DEF Flying, Tracked, Deciding, mvars, cvars, k
  <2>6. Centers'
    BY <1>4, <2>2 DEF Centers, idle
  <2>7. SlotsAgree' /\ Ending'
    <3>1. UNCHANGED <<mpc, ready, cpc>>
      BY DEF mvars, cvars
    <3>2. \A j \in Keys : /\ dispatch'[j] = "pending" => dispatch[j] = "pending"
                          /\ dispatch'[j] = "active" <=> dispatch[j] = "active"
      <4>1. dispatch[k] = "pending"
        BY <1>1 DEF k
      <4> QED BY <2>2, <4>1
    <3>3. ready \subseteq Keys
      BY DEF ScanTypes
    <3>4. Ending'
      BY <2>3, <3>1, <3>2, <3>3 DEF Ending
    <3>5. SlotsAgree'
      BY <2>2, <2>3, <3>1, <3>2 DEF SlotsAgree
    <3> QED BY <3>4, <3>5
  <2>8. Bound'
    <3>1. ASSUME NEW j \in Keys, slots[j] # NoSlot
          PROVE  tunedHz'[slots[j].rx] = tunedHz[slots[j].rx]
      BY <3>1, HostedSlot DEF idle
    <3> QED BY <2>3, <3>1 DEF Bound
  <2> QED BY <2>2, <2>4, <2>5, <2>6, <2>7, <2>8
<1> QED BY <1>5, <1>6

-----------------------------------------------------------------------------
(* A channel is marked and its request is made.                            *)
LEMMA EnqueueDispatchKeeps ==
  ASSUME ScanInv, EnqueueDispatch
  PROVE  ScanInv' /\ [AllocatorNext]_avars
<1> USE DEF ScanInv
<1>c. PICK k \in Keys : markPendingDistinct(k) /\
                        \E f \in Carriers[k] : pushing' = [key |-> k, carrier |-> f]
  BY DEF EnqueueDispatch
<1>a. PICK f \in Carriers[k] : markPendingDistinct(k) /\ pushing' = [key |-> k, carrier |-> f]
  BY <1>c
<1>b. /\ mpc = "detect" /\ mpc' = "push" /\ pushing' \in Detected /\ pushing'.key = k
      /\ dispatch[k] = "none" /\ dispatch'[k] = "pending"
      /\ \A j \in Keys \ {k} : dispatch'[j] = dispatch[j]
      /\ UNCHANGED <<centerHz, channels, assignments, runtimes, tunedHz, slots, queue,
                     dispatchRunning, dpc, request, chosen, ready, cpc, leaving>>
  <2>1. f \in Nat \ {0}
    BY AllocatorAssumption
  <2>2. dispatch \in [Keys -> DispatchStates]
    BY DEF AllocatorInv, AllocatorTypeOK
  <2> QED BY <1>a, <2>1, <2>2 DEF EnqueueDispatch, markPendingDistinct, Detected, avars, dvars, mvars, cvars
<1>0. [AllocatorNext]_avars BY <1>a DEF AllocatorNext, Mark
<1>1. AllocatorInv' BY <1>0, NextInv
<1>2. ScanTypes' BY <1>b DEF ScanTypes, Deciding
<1>3. Phases' BY <1>b DEF Phases
<1>4. Flying' BY <1>b, Known DEF Flying, Deciding
<1>5. Tracked' BY <1>b DEF Tracked, Deciding
<1>6. Centers' BY <1>b DEF Centers, idle
<1>7. SlotsAgree' BY <1>b DEF SlotsAgree
<1>8. Bound' BY <1>b DEF Bound
<1>9. Ending' BY <1>b DEF Ending
<1> QED BY <1>0, <1>1, <1>2, <1>3, <1>4, <1>5, <1>6, <1>7, <1>8, <1>9

(* The request is queued behind the others.                                *)
LEMMA PushKeeps ==
  ASSUME ScanInv, Push
  PROVE  ScanInv' /\ [AllocatorNext]_avars
<1> USE DEF ScanInv, Push, avars, dvars, mvars, cvars
<1>0. [AllocatorNext]_avars
  OBVIOUS
<1>1. AllocatorInv' BY <1>0, NextInv
<1>2. ScanTypes' BY DEF ScanTypes, Deciding
<1>3. Phases' BY DEF Phases
<1>4. Flying' BY DEF Flying, Deciding
<1>5. Tracked' BY DEF Tracked, Deciding
<1>6. Centers' BY DEF Centers, idle
<1>7. SlotsAgree' BY DEF SlotsAgree, Phases
<1>8. Bound' BY DEF Bound
<1>9. Ending' BY DEF Ending
<1> QED BY <1>0, <1>1, <1>2, <1>3, <1>4, <1>5, <1>6, <1>7, <1>8, <1>9

(* What a pass finds only asks for releases.                               *)
LEMMA ObserveKeeps ==
  ASSUME ScanInv, Observe
  PROVE  ScanInv' /\ [AllocatorNext]_avars
<1> USE DEF ScanInv
<1>a. PICK seen \in [Hosted -> {"present", "quiet", "blocked", "maximum"}] :
        slots' = [k \in Keys |-> IF k \in Hosted THEN Observed(slots[k], seen[k]) ELSE NoSlot]
  BY DEF Observe
<1>b. /\ mpc = "detect" /\ mpc' = "finish" /\ ready' \subseteq Keys
      /\ \A k \in ready' : slots'[k].releaseRequested
      /\ UNCHANGED <<centerHz, channels, dispatch, assignments, runtimes, tunedHz, queue,
                     dispatchRunning, dpc, request, chosen, pushing, cpc, leaving>>
  BY DEF Observe, avars, dvars, mvars, cvars
<1>c. /\ slots' \in [Keys -> Slots]
      /\ \A k \in Keys : /\ slots'[k] = NoSlot <=> slots[k] = NoSlot
                         /\ slots'[k].rx = slots[k].rx /\ slots'[k].carrier = slots[k].carrier
                         /\ slots'[k].offset = slots[k].offset
  <2>1. ASSUME NEW k \in Keys, slots[k] # NoSlot
        PROVE  /\ slots'[k] \in Slots /\ slots'[k] # NoSlot /\ slots'[k].rx = slots[k].rx
               /\ slots'[k].carrier = slots[k].carrier /\ slots'[k].offset = slots[k].offset
    <3>1. slots'[k] = Observed(slots[k], seen[k]) /\ slots[k] \in Slots
      BY <1>a, <2>1 DEF Hosted, ScanTypes
    <3>2. slots[k].rx # 0
      BY <2>1, HostedSlot
    <3> QED BY <3>1, <3>2, ObservedSlot, NoSlotType
  <2>2. ASSUME NEW k \in Keys, slots[k] = NoSlot
        PROVE  slots'[k] = NoSlot
    BY <1>a, <2>2 DEF Hosted
  <2>3. slots' = [k \in Keys |-> slots'[k]]
    BY <1>a
  <2> QED BY <2>1, <2>2, <2>3, NoSlotType
<1>0. [AllocatorNext]_avars BY <1>b DEF avars, Observe
<1>1. AllocatorInv' BY <1>0, NextInv
<1>2. ScanTypes' BY <1>b, <1>c DEF ScanTypes, Deciding
<1>3. Phases' BY <1>b DEF Phases
<1>4. Flying' BY <1>b DEF Flying, Deciding
<1>5. Tracked' BY <1>b DEF Tracked, Deciding
<1>6. Centers' BY <1>b DEF Centers, idle
<1>7. SlotsAgree' BY <1>b, <1>c DEF SlotsAgree
<1>8. Bound' BY <1>b, <1>c DEF Bound
<1>9. Ending'
  <2> SUFFICES ASSUME NEW k \in ready' PROVE dispatch[k] # "pending"
    BY <1>b DEF Ending
  <2>1. slots[k] # NoSlot
    BY <1>b, <1>c, NoSlotType
  <2> QED BY <1>b, <2>1, HostedSlot
<1> QED BY <1>0, <1>1, <1>2, <1>3, <1>4, <1>5, <1>6, <1>7, <1>8, <1>9

(* A channel that was asked to end ends.                                   *)
LEMMA FinishMultiReceiverReleaseKeeps ==
  ASSUME ScanInv, finishMultiReceiverRelease
  PROVE  ScanInv' /\ [AllocatorNext]_avars
<1> USE DEF ScanInv
<1>a. PICK k \in ready : /\ ready' = ready \ {k}
                        /\ \/ slots[k] = NoSlot /\ UNCHANGED <<slots, avars>>
                           \/ /\ slots[k] # NoSlot /\ slots' = [slots EXCEPT ![k] = NoSlot]
                              /\ release(k, slots[k].suppress)
  BY DEF finishMultiReceiverRelease
<1>b. /\ mpc = "finish" /\ k \in Keys /\ cpc # "release"
      /\ UNCHANGED <<runtimes, tunedHz, queue, dispatchRunning, dpc, request, chosen, mpc,
                     pushing, cpc, leaving>>
  BY DEF finishMultiReceiverRelease, ScanTypes, Phases, avars, dvars, mvars, cvars
<1>c. CASE slots[k] = NoSlot /\ UNCHANGED <<slots, avars>>
  <2>1. [AllocatorNext]_avars /\ AllocatorInv'
    BY <1>c, NextInv
  <2>2. ScanTypes' /\ Phases' /\ Flying' /\ Tracked'
    BY <1>a, <1>b, <1>c DEF avars, ScanTypes, Phases, Flying, Tracked, Deciding
  <2>3. Centers' /\ SlotsAgree' /\ Bound' /\ Ending'
    BY <1>a, <1>b, <1>c DEF avars, Centers, idle, SlotsAgree, Bound, Ending
  <2> QED BY <2>1, <2>2, <2>3
<1> SUFFICES ASSUME slots[k] # NoSlot, slots' = [slots EXCEPT ![k] = NoSlot],
                    release(k, slots[k].suppress)
             PROVE  ScanInv' /\ [AllocatorNext]_avars
  BY <1>a, <1>c
<1>d. /\ dispatch[k] = "active" /\ assignments[k] \in Receivers /\ slots[k].suppress \in BOOLEAN
      /\ assignments[k] \in receivers
  BY <1>b, HostedSlot DEF ScanTypes, Slots, AllocatorInv, AllocatorTypeOK, Consistent, idle
<1>e. /\ dispatch'[k] \in {"none", "suppressed"}
      /\ \A j \in Keys \ {k} : dispatch'[j] = dispatch[j] /\ assignments'[j] = assignments[j]
      /\ \A r \in Receivers : channels'[r] # {} => channels[r] # {} /\ centerHz'[r] = centerHz[r]
      /\ \A r \in Receivers : channels[r] = {} => channels'[r] = {}
      /\ slots'[k] = NoSlot /\ \A j \in Keys \ {k} : slots'[j] = slots[j]
      /\ slots' \in [Keys -> Slots]
  BY <1>b, <1>d, NoSlotType DEF release, AllocatorInv, AllocatorTypeOK, ScanTypes
<1>0. [AllocatorNext]_avars BY <1>b, <1>d DEF AllocatorNext, Release
<1>1. AllocatorInv' BY <1>0, NextInv
<1>2. ScanTypes' BY <1>a, <1>b, <1>e DEF ScanTypes, Deciding
<1>3. Phases' BY <1>b DEF Phases
<1>4. Flying' BY <1>b, <1>d, <1>e, Known DEF Flying, Deciding
<1>5. Tracked' BY <1>b, <1>e DEF Tracked, Deciding
<1>6. Centers' BY <1>b, <1>e DEF Centers, idle
<1>7. SlotsAgree' BY <1>e DEF SlotsAgree, Phases
<1>8. Bound' BY <1>b DEF Bound
<1>9. Ending'
  <2>1. ready' \subseteq ready /\ ready \subseteq Keys /\ UNCHANGED mpc
    BY <1>a, <1>b DEF ScanTypes
  <2>2. \A j \in Keys : /\ dispatch'[j] = "pending" => dispatch[j] = "pending"
                        /\ slots'[j] = NoSlot \/ slots'[j] = slots[j]
    BY <1>d, <1>e
  <2> QED BY <2>1, <2>2 DEF Ending
<1> QED BY <1>0, <1>1, <1>2, <1>3, <1>4, <1>5, <1>6, <1>7, <1>8, <1>9

(* Suppressed keys are forgotten.                                          *)
LEMMA AdvanceDiscoveryKeeps ==
  ASSUME ScanInv, AdvanceDiscovery
  PROVE  ScanInv' /\ [AllocatorNext]_avars
<1> USE DEF ScanInv
<1>a. PICK S \in SUBSET Keys : clearSuppressed(S)
  BY DEF AdvanceDiscovery
<1>b. /\ mpc = "finish" /\ mpc' \in {"detect", "off"}
      /\ \A k \in Keys : \/ dispatch'[k] = dispatch[k]
                         \/ dispatch'[k] = "none" /\ dispatch[k] = "suppressed"
      /\ UNCHANGED <<centerHz, channels, assignments, runtimes, tunedHz, slots, queue,
                     dispatchRunning, dpc, request, chosen, pushing, ready, cpc, leaving>>
  BY <1>a DEF AdvanceDiscovery, clearSuppressed, avars, dvars, mvars, cvars
<1>0. [AllocatorNext]_avars BY <1>a DEF AllocatorNext, ClearSuppressed
<1>1. AllocatorInv' BY <1>0, NextInv
<1>2. ScanTypes' BY <1>b DEF ScanTypes, Deciding
<1>3. Phases' BY <1>b DEF Phases
<1>4. Flying' BY <1>b, Known DEF Flying, Deciding
<1>5. Tracked' BY <1>b DEF Tracked, Deciding
<1>6. Centers' BY <1>b DEF Centers, idle
<1>7. SlotsAgree' BY <1>b DEF SlotsAgree
<1>8. Bound' BY <1>b DEF Bound
<1>9. Ending' BY <1>b DEF Ending
<1> QED BY <1>0, <1>1, <1>2, <1>3, <1>4, <1>5, <1>6, <1>7, <1>8, <1>9

(* The dispatch thread tests whether to go on, waits for a request, wakes  *)
(* up, and ends.                                                           *)
LEMMA DispatchWaitKeeps ==
  ASSUME ScanInv, DispatchTop \/ Sleep \/ Block \/ SpuriousWakeup \/ Leave
  PROVE  ScanInv' /\ [AllocatorNext]_avars
<1> USE DEF ScanInv
<1>a. /\ ~Deciding /\ ~Deciding' /\ dpc' # "tuning" /\ dpc # "off"
      /\ UNCHANGED <<avars, runtimes, tunedHz, slots, queue, dispatchRunning, request, chosen,
                     mvars, cvars, leaving>>
  BY DEF DispatchTop, Sleep, Block, SpuriousWakeup, Leave, Deciding
<1>b. UNCHANGED <<receivers, available, centerHz, channels, dispatch, assignments, mpc, pushing,
                  ready, cpc>>
  BY <1>a DEF avars, mvars, cvars
<1>0. [AllocatorNext]_avars BY <1>a
<1>1. AllocatorInv' BY <1>0, NextInv
<1>2. ScanTypes' BY <1>a, <1>b DEF ScanTypes
<1>3. Phases' BY <1>a, <1>b DEF Phases
<1>4. Flying' BY <1>a, <1>b DEF Flying
<1>5. Tracked' BY <1>a, <1>b DEF Tracked
<1>6. Centers' BY <1>a, <1>b DEF Centers, idle
<1>7. SlotsAgree' BY <1>b, <1>a DEF SlotsAgree
<1>8. Bound' BY <1>a DEF Bound
<1>9. Ending' BY <1>a, <1>b DEF Ending
<1> QED BY <1>0, <1>1, <1>2, <1>3, <1>4, <1>5, <1>6, <1>7, <1>8, <1>9

(* The oldest request is taken from the queue.                             *)
LEMMA PopKeeps ==
  ASSUME ScanInv, Pop
  PROVE  ScanInv' /\ [AllocatorNext]_avars
<1> USE DEF ScanInv
<1>b. /\ dpc = "check" /\ dpc' = "choose" /\ request' = queue[1] /\ 1 \in DOMAIN queue
      /\ Len(queue) \in Nat \ {0} /\ DOMAIN queue = 1 .. Len(queue)
      /\ queue' \in Seq(Detected) /\ DOMAIN queue' = 1 .. Len(queue) - 1
      /\ \A i \in DOMAIN queue' : i + 1 \in DOMAIN queue /\ i + 1 # 1 /\ queue'[i] = queue[i + 1]
      /\ \A i \in DOMAIN queue : i # 1 => i - 1 \in DOMAIN queue' /\ queue'[i - 1] = queue[i]
      /\ UNCHANGED <<centerHz, channels, dispatch, assignments, runtimes, tunedHz, slots,
                     dispatchRunning, chosen, mpc, pushing, ready, cpc, leaving>>
  <2>1. queue \in Seq(Detected) /\ queue # <<>> /\ queue' = Tail(queue) /\ request' = Head(queue)
    BY DEF Pop, ScanTypes
  <2>2. /\ Len(queue) \in Nat \ {0} /\ DOMAIN queue = 1 .. Len(queue) /\ request' = queue[1]
        /\ queue' \in Seq(Detected) /\ DOMAIN queue' = 1 .. Len(queue) - 1
        /\ \A i \in 1 .. Len(queue) - 1 : queue'[i] = queue[i + 1]
    BY <2>1, TailLess
  <2> QED BY <2>2 DEF Pop, avars, dvars, mvars, cvars
<1>0. [AllocatorNext]_avars BY <1>b DEF avars, Pop
<1>1. AllocatorInv' BY <1>0, NextInv
<1>2. ScanTypes' BY <1>b DEF ScanTypes
<1>3. Phases' BY <1>b DEF Phases
<1>4. Flying'
  <2>1. /\ \A i \in DOMAIN queue' : dispatch[queue'[i].key] = "pending" /\ queue'[i].key # request'.key
        /\ dispatch[request'.key] = "pending"
    BY <1>b DEF Flying
  <2>2. \A i, j \in DOMAIN queue' : queue'[i].key = queue'[j].key => i = j
    BY <1>b DEF Flying
  <2>3. mpc = "push" => /\ dispatch[pushing.key] = "pending" /\ request'.key # pushing.key
                        /\ \A i \in DOMAIN queue' : queue'[i].key # pushing.key
    BY <1>b DEF Flying
  <2> QED BY <1>b, <2>1, <2>2, <2>3 DEF Flying, Deciding
<1>5. Tracked'
  <2> SUFFICES ASSUME NEW k \in Keys, dispatch[k] = "pending",
                      \E i \in DOMAIN queue : k = queue[i].key
               PROVE  k = request'.key \/ \E i \in DOMAIN queue' : k = queue'[i].key
    BY <1>b DEF Tracked, Deciding
  <2> QED BY <1>b
<1>6. Centers' BY <1>b DEF Centers, idle
<1>7. SlotsAgree' BY <1>b DEF SlotsAgree
<1>8. Bound' BY <1>b DEF Bound
<1>9. Ending' BY <1>b DEF Ending
<1> QED BY <1>0, <1>1, <1>2, <1>3, <1>4, <1>5, <1>6, <1>7, <1>8, <1>9

(* A request is dropped when the scan stops.                               *)
LEMMA AbandonKeeps ==
  ASSUME ScanInv, Abandon
  PROVE  ScanInv' /\ [AllocatorNext]_avars
<1> USE DEF ScanInv
<1>b. /\ dpc = "choose" /\ dpc' = "off" /\ cpc = "joinDispatch"
      /\ UNCHANGED <<centerHz, channels, dispatch, assignments, runtimes, tunedHz, slots,
                     queue, dispatchRunning, chosen, mpc, pushing, ready, cpc, leaving>>
  BY DEF Abandon, Phases, avars, dvars, mvars, cvars
<1>0. [AllocatorNext]_avars BY <1>b DEF avars, Abandon
<1>1. AllocatorInv' BY <1>0, NextInv
<1>2. ScanTypes' BY <1>b DEF ScanTypes, Deciding
<1>3. Phases' BY <1>b DEF Phases
<1>4. Flying' BY <1>b DEF Flying, Deciding
<1>5. Tracked' BY <1>b DEF Tracked
<1>6. Centers' BY <1>b DEF Centers, idle
<1>7. SlotsAgree' BY <1>b DEF SlotsAgree
<1>8. Bound' BY <1>b DEF Bound
<1>9. Ending' BY <1>b DEF Ending
<1> QED BY <1>0, <1>1, <1>2, <1>3, <1>4, <1>5, <1>6, <1>7, <1>8, <1>9

(* A request is refused.                                                   *)
LEMMA NoCapacityKeeps ==
  ASSUME ScanInv, NoCapacity
  PROVE  ScanInv' /\ [AllocatorNext]_avars
<1> USE DEF ScanInv
<1>a. Deciding /\ request.key \in Keys
  BY Known DEF NoCapacity, Deciding
<1>b. /\ dpc = "choose" /\ dpc' = "top" /\ failPending({request.key})
      /\ \A k \in Keys : dispatch'[k] = IF k = request.key /\ dispatch[k] = "pending" THEN "none"
                                        ELSE dispatch[k]
      /\ UNCHANGED <<centerHz, channels, assignments, runtimes, tunedHz, slots, queue,
                     dispatchRunning, chosen, mpc, pushing, ready, cpc, leaving>>
  BY <1>a, FailStep DEF NoCapacity, avars, dvars, mvars, cvars
<1>0. [AllocatorNext]_avars BY <1>a, <1>b, FailStep
<1>1. AllocatorInv' BY <1>0, NextInv
<1>2. ScanTypes' BY <1>b DEF ScanTypes, Deciding
<1>3. Phases' BY <1>b DEF Phases
<1>4. Flying' BY <1>b, Known DEF Flying, Deciding
<1>5. Tracked' BY <1>b DEF Tracked
<1>6. Centers' BY <1>b DEF Centers, idle
<1>7. SlotsAgree' BY <1>b DEF SlotsAgree
<1>8. Bound' BY <1>b DEF Bound
<1>9. Ending'
  <2>1. ready \subseteq Keys
    BY DEF ScanTypes
  <2>2. \A j \in Keys : dispatch'[j] = "pending" => dispatch[j] = "pending"
    BY <1>b
  <2> QED BY <1>b, <2>1, <2>2 DEF Ending
<1> QED BY <1>0, <1>1, <1>2, <1>3, <1>4, <1>5, <1>6, <1>7, <1>8, <1>9

(* A channel joins a receiver that covers it.                              *)
LEMMA ReuseCoverageKeeps ==
  ASSUME ScanInv, ReuseCoverage
  PROVE  ScanInv' /\ [AllocatorNext]_avars
<1> DEFINE a == choose(request.carrier)
<1>1. /\ dpc = "choose" /\ a.reused /\ a.receiver \in runtimes /\ Host(a, tunedHz[a.receiver])
      /\ UNCHANGED <<runtimes, tunedHz, queue, dispatchRunning, mvars, cvars, leaving>>
  BY DEF ReuseCoverage
<1>2. request.carrier \in Nat /\ AllocatorTypeOK
  BY <1>1, Known DEF ScanInv, AllocatorInv, Deciding
<1>3. PICK r \in receivers : /\ a = Allocation(r, centerHz[r], TRUE) /\ ~idle(r)
                             /\ Abs(request.carrier - centerHz[r]) =< Half[r]
  <2> DEFINE f == request.carrier
  <2>1. choose(f) # NoAllocation /\ choose(f).reused # FALSE
    BY <1>1, AllocationFields
  <2>2. \A r \in receivers : choose(f) # Allocation(r, f, FALSE)
    <3>1. \A r : Allocation(r, f, FALSE).reused = FALSE
      BY DEF Allocation
    <3> QED BY ONLY <2>1, <3>1
  <2>3. f \in Nat
    BY <1>2
  <2> HIDE DEF f
  <2>4. \E r \in receivers : /\ choose(f) = Allocation(r, centerHz[r], TRUE) /\ ~idle(r)
                            /\ Abs(f - centerHz[r]) =< Half[r]
    BY <1>2, <2>1, <2>2, <2>3, ChooseKinds
  <2> QED BY <2>4 DEF f
<1>4. /\ r \in Receivers /\ a.receiver = r /\ tunedHz[r] = centerHz[r] /\ tunedHz[r] \in Nat
      /\ tunedHz' \in [Receivers -> Nat]
  BY <1>1, <1>2, <1>3 DEF ScanInv, ScanTypes, Centers, AllocatorTypeOK, Allocation
<1> HIDE DEF a
<1> QED BY <1>1, <1>3, <1>4, HostKeeps DEF Deciding

(* An idle receiver is to be tuned.                                        *)
LEMMA BeginTuneKeeps ==
  ASSUME ScanInv, BeginTune
  PROVE  ScanInv' /\ [AllocatorNext]_avars
<1> USE DEF ScanInv
<1>a. /\ chosen' = choose(request.carrier) /\ ~chosen'.reused /\ dpc = "choose"
      /\ chosen'.receiver \in runtimes /\ dpc' = "tuning"
      /\ UNCHANGED <<centerHz, channels, dispatch, assignments, runtimes, tunedHz, slots,
                     queue, dispatchRunning, request, mpc, pushing, ready, cpc, leaving>>
  BY DEF BeginTune, avars, dvars, mvars, cvars
<1>b. /\ chosen'.receiver \in Receivers /\ idle(chosen'.receiver)
      /\ chosen' = Allocation(chosen'.receiver, request.carrier, FALSE)
  <2>1. request.carrier \in Nat
    BY <1>a, Known DEF Deciding
  <2>2. AllocatorTypeOK
    BY DEF AllocatorInv
  <2> DEFINE f == request.carrier
  <2>3. choose(f).receiver \in Receivers /\ choose(f).reused # TRUE
    BY <1>a DEF ScanTypes
  <2>4. choose(f) # NoAllocation
    BY <2>3, AllocationFields
  <2>5. \A r \in receivers : choose(f) # Allocation(r, centerHz[r], TRUE)
    <3>1. \A r, c : Allocation(r, c, TRUE).reused = TRUE
      BY DEF Allocation
    <3> QED BY ONLY <2>3, <3>1
  <2>6. f \in Nat
    BY <2>1
  <2>7. chosen' = choose(f)
    BY <1>a
  <2> HIDE DEF f
  <2>8. PICK r \in receivers : choose(f) = Allocation(r, f, FALSE) /\ idle(r)
    BY <2>2, <2>4, <2>5, <2>6, ChooseKinds
  <2>9. choose(f).receiver = r
    <3>1. Allocation(r, f, FALSE).receiver = r
      BY DEF Allocation
    <3> QED BY ONLY <2>8, <3>1
  <2> QED BY <2>3, <2>7, <2>8, <2>9 DEF f
<1>0. [AllocatorNext]_avars BY <1>a DEF avars, BeginTune
<1>1. AllocatorInv' BY <1>0, NextInv
<1>2. ScanTypes' BY <1>a DEF ScanTypes, Deciding
<1>3. Phases' BY <1>a DEF Phases
<1>4. Flying' BY <1>a DEF Flying, Deciding
<1>5. Tracked' BY <1>a DEF Tracked, Deciding
<1>6. Centers' BY <1>a, <1>b DEF Centers, idle
<1>7. SlotsAgree' BY <1>a DEF SlotsAgree
<1>8. Bound' BY <1>a DEF Bound
<1>9. Ending' BY <1>a DEF Ending
<1> QED BY <1>0, <1>1, <1>2, <1>3, <1>4, <1>5, <1>6, <1>7, <1>8, <1>9

(* The receiver hosts the channel it was tuned for.                        *)
LEMMA TunedKeeps ==
  ASSUME ScanInv, Tuned
  PROVE  ScanInv' /\ [AllocatorNext]_avars
<1>1. /\ dpc = "tuning" /\ Host(chosen, request.carrier)
      /\ tunedHz' = [tunedHz EXCEPT ![chosen.receiver] = request.carrier]
      /\ UNCHANGED <<runtimes, queue, dispatchRunning, mvars, cvars, leaving>>
  BY DEF Tuned
<1>2. /\ chosen.receiver \in Receivers /\ idle(chosen.receiver)
      /\ chosen = Allocation(chosen.receiver, request.carrier, FALSE)
  BY <1>1 DEF ScanInv, Centers
<1>3. request.carrier \in Nat /\ tunedHz \in [Receivers -> Nat]
  BY <1>1, Known DEF ScanInv, ScanTypes, Deciding
<1> DEFINE r == chosen.receiver
<1>4. /\ tunedHz' \in [Receivers -> Nat] /\ tunedHz'[r] = request.carrier
      /\ \A q \in Receivers : ~idle(q) => tunedHz'[q] = tunedHz[q]
  BY <1>1, <1>2, <1>3
<1>5. Host(Allocation(r, request.carrier, FALSE), request.carrier) BY <1>1, <1>2
<1> HIDE DEF r
<1>6. r \in Receivers /\ idle(r) BY <1>2 DEF r
<1> QED BY <1>1, <1>3, <1>4, <1>5, <1>6, HostKeeps DEF Deciding

(* A receiver is given up.                                                 *)
LEMMA SetupFailedKeeps ==
  ASSUME ScanInv, SetupFailed
  PROVE  ScanInv' /\ [AllocatorNext]_avars
<1> USE DEF ScanInv
<1>a. PICK r \in Receivers : setUnavailable(r)
  <2>1. CASE dpc = "tuning"
    BY <2>1 DEF SetupFailed, Centers
  <2>2. CASE dpc # "tuning"
    <3>1. dpc = "choose" /\ setUnavailable(choose(request.carrier).receiver)
          /\ choose(request.carrier).receiver # NoReceiver
      BY <2>2 DEF SetupFailed
    <3>2. AllocatorTypeOK /\ request.carrier \in Nat
      BY <3>1, Known DEF AllocatorInv, Deciding
    <3>3. choose(request.carrier).receiver \in receivers
      BY <3>1, <3>2, ChooseKinds DEF Allocation, NoAllocation
    <3> QED BY <3>1, <3>2, <3>3 DEF AllocatorTypeOK
  <2> QED BY <2>1, <2>2
<1>b. /\ dpc \in {"choose", "tuning"} /\ dpc' = "choose"
      /\ UNCHANGED <<centerHz, channels, dispatch, assignments, runtimes, tunedHz, slots,
                     queue, dispatchRunning, request, mpc, pushing, ready, cpc, leaving>>
  BY <1>a DEF SetupFailed, setUnavailable, avars, dvars, mvars, cvars
<1>0. [AllocatorNext]_avars BY <1>a DEF AllocatorNext, SetUnavailable
<1>1. AllocatorInv' BY <1>0, NextInv
<1>2. ScanTypes' BY <1>b DEF ScanTypes, Deciding
<1>3. Phases' BY <1>b DEF Phases
<1>4. Flying' BY <1>b DEF Flying, Deciding
<1>5. Tracked' BY <1>b DEF Tracked, Deciding
<1>6. Centers' BY <1>b DEF Centers, idle
<1>7. SlotsAgree' BY <1>b DEF SlotsAgree
<1>8. Bound' BY <1>b DEF Bound
<1>9. Ending' BY <1>b DEF Ending
<1> QED BY <1>0, <1>1, <1>2, <1>3, <1>4, <1>5, <1>6, <1>7, <1>8, <1>9

(* A source is about to go.                                                *)
LEMMA SourceUnregisterKeeps ==
  ASSUME ScanInv, SourceUnregister
  PROVE  ScanInv' /\ [AllocatorNext]_avars
<1> USE DEF ScanInv, SourceUnregister, avars, dvars, mvars, cvars
<1>0. [AllocatorNext]_avars
  OBVIOUS
<1>1. AllocatorInv' BY <1>0, NextInv
<1>2. ScanTypes' BY DEF ScanTypes, Deciding
<1>3. Phases' BY DEF Phases
<1>4. Flying' BY DEF Flying, Deciding
<1>5. Tracked' BY DEF Tracked, Deciding
<1>6. Centers' BY DEF Centers, idle
<1>7. SlotsAgree' BY DEF SlotsAgree, Phases
<1>8. Bound' BY DEF Bound
<1>9. Ending' BY DEF Ending
<1> QED BY <1>0, <1>1, <1>2, <1>3, <1>4, <1>5, <1>6, <1>7, <1>8, <1>9

(* Its channels end.                                                       *)
LEMMA HandleMultiReceiverDisconnectKeeps ==
  ASSUME ScanInv, handleMultiReceiverDisconnect
  PROVE  ScanInv' /\ [AllocatorNext]_avars
<1> USE DEF ScanInv
<1>a. /\ leaving \in Receivers /\ leaving' = NoReceiver
      /\ slots' = [k \in Keys |-> IF k \in channels[leaving] THEN NoSlot ELSE slots[k]]
      /\ runtimes' \subseteq runtimes
      /\ UNCHANGED <<tunedHz, queue, dispatchRunning, dpc, request, chosen, mpc, pushing,
                     ready, cpc>>
  BY DEF handleMultiReceiverDisconnect, ScanTypes, avars, dvars, mvars, cvars
<1>b. /\ \A k \in Keys : /\ dispatch'[k] = IF k \in channels[leaving] THEN "none" ELSE dispatch[k]
                         /\ assignments'[k] = IF k \in channels[leaving] THEN NoReceiver ELSE assignments[k]
                         /\ slots'[k] = IF k \in channels[leaving] THEN NoSlot ELSE slots[k]
      /\ \A r \in Receivers : /\ channels'[r] = IF r = leaving THEN {} ELSE channels[r]
                              /\ channels'[r] # {} => centerHz'[r] = centerHz[r]
      /\ slots' \in [Keys -> Slots]
  <2>1. slots \in [Keys -> Slots]
    BY DEF ScanTypes
  <2>2. CASE leaving \in receivers
    BY <1>a, <2>1, <2>2, NoSlotType DEF handleMultiReceiverDisconnect, disconnect, AllocatorInv, AllocatorTypeOK
  <2>3. CASE leaving \notin receivers
    <3>1. channels[leaving] = {} /\ UNCHANGED avars
      BY <1>a, <2>3 DEF handleMultiReceiverDisconnect, AllocatorInv, Consistent, idle
    <3> QED BY <1>a, <2>1, <3>1 DEF avars
  <2> QED BY <2>2, <2>3
<1>c. \A k \in Keys : k \in channels[leaving] => dispatch[k] = "active" /\ assignments[k] = leaving
  BY <1>a DEF AllocatorInv, Consistent, Receivers, NoReceiver
<1>0. [AllocatorNext]_avars
  BY <1>a DEF handleMultiReceiverDisconnect, AllocatorNext, Disconnect
<1>1. AllocatorInv' BY <1>0, NextInv
<1>2. ScanTypes' BY <1>a, <1>b DEF ScanTypes, Deciding
<1>3. Phases' BY <1>a, <1>b DEF Phases
<1>4. Flying' BY <1>a, <1>b, <1>c, Known DEF Flying, Deciding
<1>5. Tracked' BY <1>a, <1>b DEF Tracked, Deciding
<1>6. Centers' BY <1>a, <1>b DEF Centers, idle
<1>7. SlotsAgree' BY <1>a, <1>b DEF SlotsAgree
<1>8. Bound' BY <1>a DEF Bound
<1>9. Ending'
  <2>1. ready \subseteq Keys
    BY DEF ScanTypes
  <2>2. \A j \in Keys : /\ dispatch'[j] = "pending" => dispatch[j] = "pending"
                        /\ slots'[j] = NoSlot \/ slots'[j] = slots[j]
    BY <1>b
  <2> QED BY <1>a, <2>1, <2>2 DEF Ending
<1> QED BY <1>0, <1>1, <1>2, <1>3, <1>4, <1>5, <1>6, <1>7, <1>8, <1>9

(* The pool is set while nothing is dispatched.                            *)
LEMMA PrepareKeeps ==
  ASSUME ScanInv, Prepare
  PROVE  ScanInv' /\ [AllocatorNext]_avars
<1> USE DEF ScanInv
<1>a. PICK S \in SUBSET Receivers : setReceivers(S)
  BY DEF Prepare
<1>b. /\ cpc = "stopped" /\ cpc' = "starting" /\ mpc = "off" /\ mpc' = "detect" /\ dpc = "off"
      /\ \A k \in Keys : dispatch[k] = "none" /\ slots[k] = NoSlot
      /\ \A r \in Receivers : channels'[r] = {}
      /\ tunedHz' \in [Receivers -> Nat] /\ queue = <<>> /\ ~dispatchRunning
      /\ runtimes' \subseteq Receivers
      /\ UNCHANGED <<dispatch, assignments, slots, queue, dispatchRunning, dpc, request,
                     chosen, pushing, ready, leaving>>
  BY <1>a DEF Prepare, setReceivers, Phases, SlotsAgree, avars, dvars, mvars, cvars
<1>0. [AllocatorNext]_avars BY <1>a, <1>b DEF AllocatorNext, SetReceivers
<1>1. AllocatorInv' BY <1>0, NextInv
<1>2. ScanTypes' BY <1>b DEF ScanTypes, Deciding
<1>3. Phases' BY <1>b DEF Phases
<1>4. Flying' BY <1>b DEF Flying, Deciding
<1>5. Tracked' BY <1>b DEF Tracked
<1>6. Centers' BY <1>b DEF Centers, idle
<1>7. SlotsAgree' BY <1>b DEF SlotsAgree
<1>8. Bound' BY <1>b DEF Bound
<1>9. Ending' BY <1>b DEF Ending
<1> QED BY <1>0, <1>1, <1>2, <1>3, <1>4, <1>5, <1>6, <1>7, <1>8, <1>9

(* The dispatcher is started.                                              *)
LEMMA StartDispatchKeeps ==
  ASSUME ScanInv, StartDispatch
  PROVE  ScanInv' /\ [AllocatorNext]_avars
<1> USE DEF ScanInv
<1>b. /\ cpc = "starting" /\ cpc' = "running" /\ dpc = "off" /\ dpc' = "top" /\ dispatchRunning' = TRUE
      /\ UNCHANGED <<centerHz, channels, dispatch, assignments, runtimes, tunedHz, slots,
                     queue, request, chosen, mpc, pushing, ready, leaving>>
  BY DEF StartDispatch, Phases, avars, dvars, mvars, cvars
<1>0. [AllocatorNext]_avars BY <1>b DEF avars, StartDispatch
<1>1. AllocatorInv' BY <1>0, NextInv
<1>2. ScanTypes' BY <1>b DEF ScanTypes, Deciding
<1>3. Phases' BY <1>b DEF Phases
<1>4. Flying' BY <1>b DEF Flying, Deciding
<1>5. Tracked' BY <1>b DEF Tracked, Deciding
<1>6. Centers' BY <1>b DEF Centers, idle
<1>7. SlotsAgree' BY <1>b DEF SlotsAgree
<1>8. Bound' BY <1>b DEF Bound
<1>9. Ending' BY <1>b DEF Ending
<1> QED BY <1>0, <1>1, <1>2, <1>3, <1>4, <1>5, <1>6, <1>7, <1>8, <1>9

(* The scan is to stop.                                                    *)
LEMMA StopKeeps ==
  ASSUME ScanInv, Stop
  PROVE  ScanInv' /\ [AllocatorNext]_avars
<1> USE DEF ScanInv, Stop, avars, dvars, mvars, cvars
<1>0. [AllocatorNext]_avars
  OBVIOUS
<1>1. AllocatorInv' BY <1>0, NextInv
<1>2. ScanTypes' BY DEF ScanTypes, Deciding
<1>3. Phases' BY DEF Phases
<1>4. Flying' BY DEF Flying, Deciding
<1>5. Tracked' BY DEF Tracked, Deciding
<1>6. Centers' BY DEF Centers, idle
<1>7. SlotsAgree' BY DEF SlotsAgree, Phases
<1>8. Bound' BY DEF Bound
<1>9. Ending' BY DEF Ending
<1> QED BY <1>0, <1>1, <1>2, <1>3, <1>4, <1>5, <1>6, <1>7, <1>8, <1>9

(* The dispatcher is told.                                                 *)
LEMMA StopDispatchKeeps ==
  ASSUME ScanInv, StopDispatch
  PROVE  ScanInv' /\ [AllocatorNext]_avars
<1> USE DEF ScanInv, StopDispatch, avars, dvars, mvars, cvars
<1>0. [AllocatorNext]_avars
  OBVIOUS
<1>1. AllocatorInv' BY <1>0, NextInv
<1>2. ScanTypes' BY DEF ScanTypes, Deciding
<1>3. Phases' BY DEF Phases
<1>4. Flying' BY DEF Flying, Deciding
<1>5. Tracked' BY DEF Tracked, Deciding
<1>6. Centers' BY DEF Centers, idle
<1>7. SlotsAgree' BY DEF SlotsAgree, Phases
<1>8. Bound' BY DEF Bound
<1>9. Ending' BY DEF Ending
<1> QED BY <1>0, <1>1, <1>2, <1>3, <1>4, <1>5, <1>6, <1>7, <1>8, <1>9

(* What is still queued is dropped.                                        *)
LEMMA DrainQueueKeeps ==
  ASSUME ScanInv, DrainQueue
  PROVE  ScanInv' /\ [AllocatorNext]_avars
<1> USE DEF ScanInv
<1>a. {queue[i].key : i \in DOMAIN queue} \in SUBSET Keys
  BY Known
<1>b. /\ cpc = "joinDispatch" /\ cpc' = "teardown" /\ dpc = "off" /\ mpc = "off" /\ queue' = <<>>
      /\ \A k \in Keys : dispatch'[k] = dispatch[k] \/ (dispatch[k] = "pending" /\ dispatch'[k] = "none")
      /\ UNCHANGED <<centerHz, channels, assignments, runtimes, tunedHz, slots,
                     dispatchRunning, dpc, request, chosen, mpc, pushing, ready, leaving>>
  BY <1>a, FailStep DEF DrainQueue, Phases, avars, dvars, mvars, cvars
<1>0. [AllocatorNext]_avars BY <1>a, FailStep DEF DrainQueue
<1>1. AllocatorInv' BY <1>0, NextInv
<1>2. ScanTypes' BY <1>b DEF ScanTypes, Deciding
<1>3. Phases' BY <1>b DEF Phases
<1>4. Flying' BY <1>b DEF Flying, Deciding
<1>5. Tracked' BY <1>b DEF Tracked
<1>6. Centers' BY <1>b DEF Centers, idle
<1>7. SlotsAgree' BY <1>b DEF SlotsAgree
<1>8. Bound' BY <1>b DEF Bound
<1>9. Ending' BY <1>b DEF Ending
<1> QED BY <1>0, <1>1, <1>2, <1>3, <1>4, <1>5, <1>6, <1>7, <1>8, <1>9

(* All the slots go.                                                       *)
LEMMA DestroySlotsKeeps ==
  ASSUME ScanInv, DestroySlots
  PROVE  ScanInv' /\ [AllocatorNext]_avars
<1> USE DEF ScanInv
<1>b. /\ cpc = "teardown" /\ cpc' = "release" /\ dpc = "off" /\ mpc = "off"
      /\ slots' \in [Keys -> Slots] /\ \A k \in Keys : slots'[k] = NoSlot
      /\ UNCHANGED <<centerHz, channels, dispatch, assignments, runtimes, tunedHz, queue,
                     dispatchRunning, dpc, request, chosen, mpc, pushing, ready, leaving>>
  BY NoSlotType DEF DestroySlots, Phases, avars, dvars, mvars, cvars
<1>0. [AllocatorNext]_avars BY <1>b DEF avars, DestroySlots
<1>1. AllocatorInv' BY <1>0, NextInv
<1>2. ScanTypes' BY <1>b DEF ScanTypes, Deciding
<1>3. Phases' BY <1>b DEF Phases
<1>4. Flying' BY <1>b DEF Flying, Deciding
<1>5. Tracked' BY <1>b DEF Tracked
<1>6. Centers' BY <1>b DEF Centers, idle
<1>7. SlotsAgree' BY <1>b DEF SlotsAgree
<1>8. Bound' BY <1>b DEF Bound
<1>9. Ending' BY <1>b DEF Ending
<1> QED BY <1>0, <1>1, <1>2, <1>3, <1>4, <1>5, <1>6, <1>7, <1>8, <1>9

(* The allocator is cleared.                                               *)
LEMMA ReleaseMultiReceiverSourcesKeeps ==
  ASSUME ScanInv, releaseMultiReceiverSources
  PROVE  ScanInv' /\ [AllocatorNext]_avars
<1> USE DEF ScanInv
<1>b. /\ cpc = "release" /\ cpc' = "stopped" /\ dpc = "off" /\ mpc = "off" /\ queue = <<>>
      /\ \A k \in Keys : dispatch'[k] = "none" /\ slots[k] = NoSlot
      /\ \A r \in Receivers : channels'[r] = {}
      /\ runtimes' = {}
      /\ UNCHANGED <<tunedHz, slots, queue, dispatchRunning, dpc, request, chosen, mpc,
                     pushing, ready, leaving>>
  BY DEF releaseMultiReceiverSources, clear, Phases, avars, dvars, mvars, cvars
<1>0. [AllocatorNext]_avars BY DEF releaseMultiReceiverSources, AllocatorNext
<1>1. AllocatorInv' BY <1>0, NextInv
<1>2. ScanTypes' BY <1>b DEF ScanTypes, Deciding
<1>3. Phases' BY <1>b DEF Phases
<1>4. Flying' BY <1>b DEF Flying, Deciding
<1>5. Tracked' BY <1>b DEF Tracked
<1>6. Centers' BY <1>b DEF Centers, idle
<1>7. SlotsAgree' BY <1>b DEF SlotsAgree
<1>8. Bound' BY <1>b DEF Bound
<1>9. Ending' BY <1>b DEF Ending
<1> QED BY <1>0, <1>1, <1>2, <1>3, <1>4, <1>5, <1>6, <1>7, <1>8, <1>9

-----------------------------------------------------------------------------
(* Nothing is open before the first start().                               *)
LEMMA ScanInit == Init => ScanInv
<1> SUFFICES ASSUME Init PROVE ScanInv
  OBVIOUS
<1>1. AllocatorInv BY InitInv DEF Init
<1>2. ScanTypes /\ Phases
  BY NoSlotType DEF Init, AllocatorInit, ScanTypes, Phases, Deciding
<1>3. Flying /\ Tracked /\ Centers /\ Ending
  BY DEF Init, AllocatorInit, Flying, Tracked, Centers, Ending, Deciding, idle
<1>4. SlotsAgree /\ Bound BY DEF Init, AllocatorInit, SlotsAgree, Bound
<1> QED BY <1>1, <1>2, <1>3, <1>4 DEF ScanInv

(* Every step preserves the invariant, and is a step of the allocator or   *)
(* leaves it alone.                                                        *)
LEMMA ScanNext == ScanInv /\ [Next]_vars => ScanInv' /\ [AllocatorNext]_avars
<1> SUFFICES ASSUME ScanInv, [Next]_vars PROVE ScanInv' /\ [AllocatorNext]_avars
  OBVIOUS
<1>1. CASE Management
  BY <1>1, EnqueueDispatchKeeps, PushKeeps, ObserveKeeps, FinishMultiReceiverReleaseKeeps,
     AdvanceDiscoveryKeeps DEF Management
<1>2. CASE Dispatcher
  BY <1>2, DispatchWaitKeeps, PopKeeps, AbandonKeeps,
     NoCapacityKeeps, ReuseCoverageKeeps, BeginTuneKeeps, TunedKeeps, SetupFailedKeeps
     DEF Dispatcher
<1>3. CASE SpuriousWakeup \/ SourceUnregister \/ handleMultiReceiverDisconnect
  BY <1>3, DispatchWaitKeeps, SourceUnregisterKeeps, HandleMultiReceiverDisconnectKeeps
<1>4. CASE Prepare \/ StartDispatch \/ Stop \/ Stopping
  BY <1>4, PrepareKeeps, StartDispatchKeeps, StopKeeps, StopDispatchKeeps, DrainQueueKeeps,
     DestroySlotsKeeps, ReleaseMultiReceiverSourcesKeeps DEF Stopping
<1>5. CASE UNCHANGED vars
  <2>1. UNCHANGED avars
    BY <1>5 DEF vars, avars
  <2>2. AllocatorInv'
    BY <2>1, NextInv DEF ScanInv
  <2>3. ScanTypes' /\ Phases' /\ Ending'
    BY <1>5 DEF vars, ScanInv, ScanTypes, Phases, Ending, Deciding
  <2>4. Flying' /\ Tracked'
    BY <1>5 DEF vars, ScanInv, Flying, Tracked, Deciding
  <2>5. Centers' /\ SlotsAgree' /\ Bound'
    BY <1>5 DEF vars, ScanInv, Centers, SlotsAgree, Bound, idle
  <2> QED BY <2>1, <2>2, <2>3, <2>4, <2>5 DEF ScanInv
<1> QED BY <1>1, <1>2, <1>3, <1>4, <1>5 DEF Next

LEMMA ScanInvariance == Spec => []ScanInv
BY ScanInit, ScanNext, PTL DEF Spec

(* Every call the scan makes of the allocator is a legal use of it: an     *)
(* allocation is still sound when it is activated, although the locks were *)
(* dropped while the source was tuned, and the allocator is cleared before *)
(* it is set again.                                                        *)
THEOREM ImplementsAllocatorHolds == Spec => ImplementsAllocator
<1>1. Init => AllocatorInit BY DEF Init
<1> QED BY <1>1, ScanInvariance, ScanNext, PTL DEF Spec, ImplementsAllocator, AllocatorSpec

(* Two channels that are dispatched in the program are further apart than  *)
(* the exclusion radius: what AllocatorSpec promises.                      *)
THEOREM DistinctInScan == Spec => []Distinct
BY ImplementsAllocatorHolds, DistinctHolds, PTL DEF ImplementsAllocator

(* The program never moves a receiver from under the channels it hosts.    *)
THEOREM NeverMovedInScan == Spec => NeverMoved
BY ImplementsAllocatorHolds, NeverMovedHolds, PTL DEF ImplementsAllocator

(* activeChannels and the allocator agree, except during the teardown.     *)
THEOREM SlotsAgreeHolds == Spec => []SlotsAgree
BY ScanInvariance, PTL DEF ScanInv

(* Every VFO hears its carrier, and the receiver being tuned hosts nobody. *)
THEOREM HeardHolds == Spec => []Heard
<1>1. ScanInv => Heard
  <2> SUFFICES ASSUME ScanInv PROVE Heard
    OBVIOUS
  <2>1. ASSUME NEW k \in Hosted
        PROVE  /\ tunedHz[slots[k].rx] + slots[k].offset = slots[k].carrier
               /\ slots[k].offset = 0 \/ Abs(slots[k].offset) =< Half[slots[k].rx]
    BY <2>1 DEF Hosted, ScanInv, Bound
  <2>2. ASSUME dpc = "tuning", NEW k \in Hosted
        PROVE  slots[k].rx # chosen.receiver
    <3>1. k \in channels[slots[k].rx]
      BY <2>2, HostedSlot DEF Hosted
    <3>2. channels[chosen.receiver] = {}
      BY <2>2 DEF ScanInv, Centers, idle
    <3> QED BY <3>1, <3>2
  <2> QED BY <2>1, <2>2 DEF Heard
<1> QED BY <1>1, ScanInvariance, PTL

(* A pending key is on its way, unless stop() is under way.                *)
THEOREM PendingTrackedHolds == Spec => []PendingTracked
<1>1. ScanInv => PendingTracked BY DEF ScanInv, Tracked, PendingTracked
<1> QED BY <1>1, ScanInvariance, PTL

(* One step takes the slot of a channel only for a reason.                 *)
LEMMA StepEndsForAReason ==
  ASSUME ScanInv, [Next]_vars, NEW k \in Hosted, slots'[k] = NoSlot
  PROVE  slots[k].releaseRequested \/ leaving = slots[k].rx \/ cpc = "teardown"
<1>1. /\ k \in Keys /\ slots[k] # NoSlot /\ slots \in [Keys -> Slots] /\ slots[k] \in Slots
      /\ slots[k].rx # 0 /\ assignments[k] = slots[k].rx /\ dispatch[k] = "active"
  BY HostedSlot DEF Hosted, ScanInv, ScanTypes
<1> SUFFICES ASSUME UNCHANGED slots \/ Observe \/ finishMultiReceiverRelease \/ ReuseCoverage
                      \/ Tuned \/ handleMultiReceiverDisconnect \/ DestroySlots
             PROVE  slots[k].releaseRequested \/ leaving = slots[k].rx \/ cpc = "teardown"
  <2>1. CASE Management
    BY <2>1 DEF Management, EnqueueDispatch, Push, AdvanceDiscovery
  <2>2. CASE Dispatcher
    BY <2>2 DEF Dispatcher, DispatchTop, Sleep, Block, Leave, Pop, Abandon, NoCapacity, BeginTune,
                SetupFailed
  <2>3. CASE SpuriousWakeup \/ SourceUnregister \/ handleMultiReceiverDisconnect
    BY <2>3 DEF SpuriousWakeup, SourceUnregister
  <2>4. CASE Prepare \/ StartDispatch \/ Stop \/ Stopping
    BY <2>4 DEF Prepare, StartDispatch, Stop, Stopping, StopDispatch, DrainQueue,
                releaseMultiReceiverSources
  <2>5. CASE UNCHANGED vars
    BY <2>5 DEF vars
  <2> QED BY <2>1, <2>2, <2>3, <2>4, <2>5 DEF Next
<1>2. CASE UNCHANGED slots BY <1>1, <1>2
<1>3. CASE Observe
  <2>1. PICK seen : slots'[k] = Observed(slots[k], seen)
    BY <1>1, <1>3 DEF Observe
  <2>2. slots'[k].rx # 0
    BY <1>1, <2>1, ObservedSlot
  <2> QED BY <2>2, NoSlotType
<1>4. CASE finishMultiReceiverRelease
  BY <1>1, <1>4 DEF finishMultiReceiverRelease, ScanInv, Ending
<1>5. CASE ReuseCoverage \/ Tuned
  <2>1. Deciding
    BY <1>5 DEF ReuseCoverage, Tuned, Deciding
  <2>2. k # request.key
    BY <1>1, <2>1 DEF ScanInv, Flying
  <2>3. \E s : slots' = [slots EXCEPT ![request.key] = s]
    BY <1>5 DEF ReuseCoverage, Tuned, Host
  <2> QED BY <1>1, <2>2, <2>3
<1>6. CASE handleMultiReceiverDisconnect
  <2>1. k \in channels[leaving] /\ leaving \in Receivers
    BY <1>1, <1>6 DEF handleMultiReceiverDisconnect, ScanInv, ScanTypes
  <2>2. assignments[k] = leaving
    BY <1>1, <2>1 DEF ScanInv, AllocatorInv, Consistent
  <2> QED BY <1>1, <2>2
<1>7. CASE DestroySlots BY <1>7 DEF DestroySlots
<1> QED BY <1>2, <1>3, <1>4, <1>5, <1>6, <1>7

(* A channel loses its slot because its release was requested, its source  *)
(* was unregistered or the scan is stopped, and never because discovery    *)
(* moved on.                                                               *)
THEOREM EndsForAReasonHolds == Spec => EndsForAReason
<1>1. ScanInv /\ [Next]_vars =>
        [\A k \in Hosted : slots'[k] = NoSlot =>
           slots[k].releaseRequested \/ leaving = slots[k].rx \/ cpc = "teardown"]_vars
  BY StepEndsForAReason
<1> QED BY <1>1, ScanInvariance, PTL DEF Spec, EndsForAReason

-----------------------------------------------------------------------------
(***************************************************************************)
(* What PendingDecided rests on.  A request is decided after at most one   *)
(* try of each receiver: one that was tried and failed is not tried again, *)
(* nor does another thread bring one back.                                 *)
(***************************************************************************)
TriesLeft ==
  {r \in receivers : available[r]} \ (IF dpc = "tuning" THEN {chosen.receiver} ELSE {})

DecisionBounded ==
  Deciding /\ Deciding' =>
    /\ request' = request /\ TriesLeft' \subseteq TriesLeft
    /\ Dispatcher => dpc = "tuning" \/ TriesLeft' # TriesLeft

(* A step of the dispatcher that leaves the request undecided.             *)
LEMMA TryFewer ==
  ASSUME ScanInv, Deciding, Deciding', Dispatcher
  PROVE  /\ request' = request /\ TriesLeft' \subseteq TriesLeft
         /\ dpc = "tuning" \/ TriesLeft' # TriesLeft
<1>0. /\ available \in [Receivers -> BOOLEAN] /\ receivers \subseteq Receivers
      /\ AllocatorTypeOK
      /\ request.carrier \in Nat
  BY Known DEF ScanInv, AllocatorInv, AllocatorTypeOK
<1>1. BeginTune \/ SetupFailed
  BY DEF Dispatcher, Deciding, DispatchTop, Sleep, Block, Leave, Pop, Abandon, NoCapacity,
         ReuseCoverage, Tuned, Host
<1>2. choose(request.carrier).receiver # NoReceiver =>
        choose(request.carrier).receiver \in {r \in receivers : available[r]}
  <2> DEFINE f == request.carrier
  <2>1. \A r, c, b : Allocation(r, c, b).receiver = r
    BY DEF Allocation
  <2>2. f \in Nat
    BY <1>0
  <2>3. NoAllocation.receiver = NoReceiver
    BY AllocationFields
  <2> HIDE DEF f
  <2>4. CASE choose(f) = NoAllocation
    BY <2>3, <2>4 DEF f
  <2>5. CASE choose(f) # NoAllocation
    <3>1. \E r \in receivers : \E c, b : choose(f) = Allocation(r, c, b) /\ available[r]
      BY <1>0, <2>2, <2>5, ChooseKinds
    <3> QED BY <2>1, <3>1 DEF f
  <2> QED BY <2>4, <2>5
<1>3. CASE BeginTune
  <2>1. /\ dpc = "choose" /\ dpc' = "tuning" /\ request' = request
        /\ UNCHANGED <<receivers, available>> /\ chosen' = choose(request.carrier)
    BY <1>3 DEF BeginTune, avars
  <2>2. chosen'.receiver # NoReceiver
    BY <1>3 DEF BeginTune, ScanInv, ScanTypes, Receivers, NoReceiver
  <2>3. TriesLeft = {r \in receivers : available[r]} /\ TriesLeft' = TriesLeft \ {chosen'.receiver}
    BY <2>1 DEF TriesLeft
  <2> QED BY <1>2, <2>1, <2>2, <2>3
<1>4. CASE SetupFailed
  <2>1. dpc' = "choose" /\ request' = request /\ receivers' = receivers
    BY <1>4 DEF SetupFailed, setUnavailable
  <2>2. CASE dpc = "tuning"
    <3>1. available' = [available EXCEPT ![chosen.receiver] = FALSE]
      BY <1>4, <2>2 DEF SetupFailed, setUnavailable
    <3>2. TriesLeft' \subseteq TriesLeft
      BY <1>0, <2>1, <2>2, <3>1 DEF TriesLeft
    <3> QED BY <2>1, <2>2, <3>2
  <2>3. CASE dpc = "choose"
    <3> DEFINE q == choose(request.carrier).receiver
    <3>1. available' = [available EXCEPT ![q] = FALSE] /\ q # NoReceiver
      BY <1>4, <2>3 DEF SetupFailed, setUnavailable
    <3>2. q \in {r \in receivers : available[r]}
      BY <1>2, <3>1
    <3> HIDE DEF q
    <3>3. q \in TriesLeft /\ q \notin TriesLeft' /\ TriesLeft' \subseteq TriesLeft
      BY <1>0, <2>1, <2>3, <3>1, <3>2 DEF TriesLeft
    <3> QED BY <2>1, <3>3
  <2> QED BY <2>2, <2>3 DEF Deciding
<1> QED BY <1>1, <1>3, <1>4

(* Nothing the other threads do while a request is being decided makes a   *)
(* receiver available.                                                     *)
LEMMA OthersTakeAway ==
  ASSUME ScanInv, Deciding, Next, ~Dispatcher
  PROVE  UNCHANGED request /\ TriesLeft' \subseteq TriesLeft
<1>0. available \in [Receivers -> BOOLEAN] /\ receivers \subseteq Receivers
  BY DEF ScanInv, AllocatorInv, AllocatorTypeOK
<1>1. UNCHANGED <<receivers, dpc, chosen, request>> /\ \A r \in receivers : available'[r] => available[r]
  <2>1. CASE Management
    BY <2>1 DEF Management, EnqueueDispatch, Push, Observe, finishMultiReceiverRelease,
       AdvanceDiscovery, Deciding, markPendingDistinct, release, clearSuppressed, avars, dvars
  <2>2. CASE SpuriousWakeup \/ SourceUnregister
    BY <2>2 DEF SpuriousWakeup, SourceUnregister, Deciding, avars, dvars
  <2>3. CASE handleMultiReceiverDisconnect
    <3>1. UNCHANGED <<dpc, chosen, request>>
      BY <2>3 DEF handleMultiReceiverDisconnect, dvars
    <3>2. disconnect(leaving) \/ UNCHANGED avars
      BY <2>3 DEF handleMultiReceiverDisconnect
    <3>3. UNCHANGED receivers /\ \A r \in receivers : available'[r] => available[r]
      BY <1>0, <3>2 DEF disconnect, avars
    <3> QED BY <3>1, <3>3
  <2>4. CASE Prepare \/ StartDispatch \/ DrainQueue \/ DestroySlots \/ releaseMultiReceiverSources
    BY <2>4 DEF Prepare, StartDispatch, DrainQueue, DestroySlots, releaseMultiReceiverSources,
       ScanInv, Phases, Deciding
  <2>5. CASE Stop \/ StopDispatch
    BY <2>5 DEF Stop, StopDispatch, Deciding, avars, dvars
  <2> QED BY <2>1, <2>2, <2>3, <2>4, <2>5 DEF Next, Stopping
<1> QED BY <1>0, <1>1 DEF TriesLeft

(* The dispatcher tries each receiver at most once for a request, whatever *)
(* the other threads do meanwhile.                                         *)
THEOREM DecisionBoundedHolds == Spec => [][DecisionBounded]_vars
<1>1. ScanInv /\ [Next]_vars => [DecisionBounded]_vars
  BY TryFewer, OthersTakeAway DEF DecisionBounded
<1> QED BY <1>1, ScanInvariance, PTL DEF Spec

(***************************************************************************)
(* What StopReturns rests on.  While stop() joins the management thread    *)
(* that thread finishes the pass it is in, each part of which only goes    *)
(* forward, and begins no other.  While stop() joins the dispatch thread   *)
(* each step of that thread is one fewer, and it was not left blocked: a   *)
(* dispatcher asleep then is one that had tested the predicate before the  *)
(* flag was cleared, and blocks on it after.                               *)
(***************************************************************************)
DispatchLeft ==
  CASE dpc = "sleep" -> 4 [] dpc = "blocked" -> 3 [] dpc \in {"check", "tuning"} -> 2
    [] dpc \in {"choose", "top"} -> 1 [] dpc = "off" -> 0

StopBounded ==
  /\ cpc = "joinMgmt" =>
       /\ mpc = "detect" /\ mpc' = "push" => scanned' > scanned
       /\ mpc = "push" /\ mpc' # "push" => mpc' = "detect" /\ scanned' = scanned
       /\ mpc = "finish" => \/ UNCHANGED <<mpc, ready>> \/ mpc' = "off"
                            \/ mpc' = "finish" /\ ready' \subseteq ready /\ ready' # ready
  /\ cpc = "joinDispatch" => UNCHANGED dpc \/ DispatchLeft' < DispatchLeft
  /\ cpc # "joinDispatch" /\ cpc' = "joinDispatch" => dpc' # "blocked"

(* stop() has told the management thread before it joins it.               *)
Told == cpc = "joinMgmt" => ~mgmtRunning

LEMMA ToldInvariant == Spec => []Told
<1>1. Init => Told
  BY DEF Init, Told
<1>2. ASSUME Told, [Next]_vars PROVE Told'
  <2> USE DEF Told
  <2>1. CASE Management \/ Dispatcher
    <3>1. UNCHANGED <<cpc, mgmtRunning>>
      BY <2>1 DEF Management, EnqueueDispatch, Push, Observe, finishMultiReceiverRelease,
         AdvanceDiscovery, Dispatcher, DispatchTop, Sleep, Block, Leave, Pop, Abandon, NoCapacity,
         ReuseCoverage, BeginTune, Tuned, SetupFailed, cvars
    <3> QED BY <1>2, <3>1
  <2>2. CASE SpuriousWakeup \/ SourceUnregister \/ handleMultiReceiverDisconnect
    BY <1>2, <2>2 DEF SpuriousWakeup, SourceUnregister, handleMultiReceiverDisconnect, cvars
  <2>3. CASE Prepare \/ StartDispatch \/ Stop \/ Stopping
    BY <1>2, <2>3 DEF Prepare, StartDispatch, Stop, Stopping, StopDispatch, DrainQueue,
       DestroySlots, releaseMultiReceiverSources
  <2>4. CASE UNCHANGED vars
    BY <1>2, <2>4 DEF vars
  <2> QED BY <1>2, <2>1, <2>2, <2>3, <2>4 DEF Next
<1> QED BY <1>1, <1>2, PTL DEF Spec

(* The pass of the management thread that stop() waits for.                *)
LEMMA PassEnds ==
  ASSUME ScanInv, Told, Management, cpc = "joinMgmt"
  PROVE  /\ mpc = "detect" /\ mpc' = "push" => scanned' > scanned
         /\ mpc = "push" => mpc' = "detect" /\ scanned' = scanned
         /\ mpc = "finish" => \/ mpc' = "off"
                              \/ mpc' = "finish" /\ ready' \subseteq ready /\ ready' # ready
<1>1. CASE EnqueueDispatch
  BY <1>1 DEF EnqueueDispatch
<1>2. CASE Push
  BY <1>2 DEF Push
<1>3. CASE Observe
  BY <1>3 DEF Observe
<1>4. CASE finishMultiReceiverRelease
  <2>1. /\ mpc = "finish" /\ mpc' = mpc
        /\ \E k \in ready : ready' = ready \ {k}
    BY <1>4 DEF finishMultiReceiverRelease
  <2> QED BY <2>1
<1>5. CASE AdvanceDiscovery
  BY <1>5 DEF AdvanceDiscovery, Told
<1> QED BY <1>1, <1>2, <1>3, <1>4, <1>5 DEF Management

(* The steps of a dispatcher that is to end.                               *)
LEMMA DispatcherEnds ==
  ASSUME ScanInv, Dispatcher \/ SpuriousWakeup, cpc = "joinDispatch"
  PROVE  DispatchLeft' < DispatchLeft
<1>0. ~dispatchRunning
  BY DEF ScanInv, Phases
<1>1. \/ dpc = "top" /\ dpc' = "off"
      \/ dpc = "sleep" /\ dpc' = "blocked"
      \/ dpc = "blocked" /\ dpc' = "check"
      \/ dpc = "check" /\ dpc' \in {"off", "choose"}
      \/ dpc = "choose" /\ dpc' = "off"
      \/ dpc = "tuning" /\ dpc' \in {"top", "choose"}
  <2>1. CASE DispatchTop \/ Sleep \/ Block \/ Leave \/ Pop \/ SpuriousWakeup
    BY <1>0, <2>1 DEF DispatchTop, Sleep, Block, Leave, Pop, SpuriousWakeup
  <2>2. CASE Abandon \/ NoCapacity \/ ReuseCoverage \/ BeginTune
    BY <1>0, <2>2 DEF Abandon, NoCapacity, ReuseCoverage, BeginTune
  <2>3. CASE Tuned \/ SetupFailed
    BY <1>0, <2>3 DEF Tuned, SetupFailed, Host
  <2> QED BY <2>1, <2>2, <2>3 DEF Dispatcher
<1> QED BY <1>1 DEF DispatchLeft

(* stop() waits for one pass of the management thread and at most four     *)
(* steps of the dispatch thread.                                           *)
THEOREM StopBoundedHolds == Spec => [][StopBounded]_vars
<1>1. ASSUME ScanInv, Told, Next PROVE StopBounded
  <2>1. CASE Management
    <3>1. cpc' = cpc /\ (cpc = "joinDispatch" => FALSE)
      BY <1>1, <2>1 DEF Management, EnqueueDispatch, Push, Observe, finishMultiReceiverRelease,
         AdvanceDiscovery, cvars, ScanInv, Phases
    <3> QED BY <1>1, <2>1, <3>1, PassEnds DEF StopBounded
  <2>2. CASE Dispatcher \/ SpuriousWakeup
    <3>1. UNCHANGED <<cpc, mpc, scanned, ready>>
      BY <2>2 DEF Dispatcher, DispatchTop, Sleep, Block, Leave, Pop, Abandon, NoCapacity,
         ReuseCoverage, BeginTune, Tuned, SetupFailed, SpuriousWakeup, cvars, mvars
    <3> QED BY <1>1, <2>2, <3>1, DispatcherEnds DEF StopBounded
  <2>3. CASE SourceUnregister \/ handleMultiReceiverDisconnect
    BY <2>3 DEF SourceUnregister, handleMultiReceiverDisconnect, cvars, mvars, dvars, StopBounded
  <2>4. CASE StopDispatch
    BY <2>4 DEF StopDispatch, mvars, StopBounded
  <2>5. CASE Prepare \/ StartDispatch \/ Stop \/ DestroySlots \/ releaseMultiReceiverSources
    BY <2>5 DEF Prepare, StartDispatch, Stop, DestroySlots, releaseMultiReceiverSources, StopBounded
  <2>6. CASE DrainQueue
    BY <2>6 DEF DrainQueue, StopBounded
  <2> QED BY <1>1, <2>1, <2>2, <2>3, <2>4, <2>5, <2>6 DEF Next, Stopping
<1> QED BY <1>1, ScanInvariance, ToldInvariant, PTL DEF Spec
=============================================================================
