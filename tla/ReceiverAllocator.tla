--------------------------- MODULE ReceiverAllocator ---------------------------
(***************************************************************************)
(* channel_bank's ReceiverAllocator (multi_receiver_allocator.h): decides  *)
(* on which leased receiver a detected channel is heard.  A channel is     *)
(* known by its key, its grid frequency; a receiver that hosts no channel  *)
(* is idle and has center 0.  Frequencies are numbers; Half[r] is          *)
(* halfUsable, how far from r's center a channel may lie.  Receivers are   *)
(* numbered in the order of the vector receivers_.                         *)
(*                                                                         *)
(* The class is called under one mutex, so each call is one step.  Its     *)
(* callers obtain an Allocation and activate it later: here a channel is   *)
(* activated with any allocation that is sound when it is activated, and   *)
(* MultiReceiver shows that those the dispatch thread uses are.            *)
(***************************************************************************)
EXTENDS Integers, FiniteSets

CONSTANTS
  N,          \* number of receivers in the pool
  Half,       \* usable half bandwidth of each receiver
  Keys,       \* channel keys
  Carriers,   \* for each key, the carrier frequencies measured for it
  Radius      \* the exclusion radius between two dispatched keys

Receivers == 1 .. N
NoReceiver == 0

ASSUME AllocatorAssumption ==
  /\ N \in Nat /\ Radius \in Nat
  /\ Half \in [Receivers -> Int]
  /\ Keys \subseteq Nat
  /\ Carriers \in [Keys -> SUBSET (Nat \ {0})]

VARIABLES
  receivers,    \* the receivers the last setReceivers() listed
  available,    \* ReceiverState::available
  centerHz,     \* ReceiverState::centerHz
  channels,     \* ReceiverState::channels
  dispatch,     \* dispatch_: "none" stands for a key that is not in the map
  assignments   \* assignments_: NoReceiver stands for one that is not

avars == <<receivers, available, centerHz, channels, dispatch, assignments>>

Abs(n) == IF n < 0 THEN -n ELSE n

AllocatorInit ==
  /\ receivers = {}
  /\ available = [r \in Receivers |-> FALSE]
  /\ centerHz = [r \in Receivers |-> 0]
  /\ channels = [r \in Receivers |-> {}]
  /\ dispatch = [k \in Keys |-> "none"]
  /\ assignments = [k \in Keys |-> NoReceiver]

idle(r) == channels[r] = {}

(***************************************************************************)
(* choose: the first receiver whose tuned span already covers f, else the  *)
(* first idle one, to be tuned to f.                                       *)
(***************************************************************************)
Covering(f) == {r \in receivers : available[r] /\ ~idle(r) /\ Abs(f - centerHz[r]) =< Half[r]}
Idle == {r \in receivers : available[r] /\ idle(r)}
First(S) == CHOOSE r \in S : \A q \in S : r =< q
Allocation(r, center, reused) == [receiver |-> r, center |-> center, reused |-> reused]
NoAllocation == Allocation(NoReceiver, 0, FALSE)

choose(f) ==
  CASE Covering(f) # {} -> Allocation(First(Covering(f)), centerHz[First(Covering(f))], TRUE)
    [] Covering(f) = {} /\ Idle # {} -> Allocation(First(Idle), f, FALSE)
    [] OTHER -> NoAllocation

(* An allocation that may be activated now for carrier f: it neither moves *)
(* a receiver that hosts channels nor puts f outside a receiver's span.    *)
Sound(a, f) ==
  /\ a.receiver \in receivers /\ available[a.receiver]
  /\ IF idle(a.receiver)
     THEN a.center = f
     ELSE a.center = centerHz[a.receiver] /\ Abs(f - a.center) =< Half[a.receiver]

(* Seeded fault: only channels that have a receiver exclude their          *)
(* neighbours.                                                             *)
ExcludesActive(j, k) == dispatch[j] = "active" /\ Abs(j - k) =< Radius

Excludes(j, k) == dispatch[j] \in {"pending", "active"} /\ Abs(j - k) =< Radius

markPendingDistinct(k) ==
  /\ dispatch[k] = "none" /\ \A j \in Keys : ~Excludes(j, k)
  /\ dispatch' = [dispatch EXCEPT ![k] = "pending"]
  /\ UNCHANGED <<receivers, available, centerHz, channels, assignments>>

(* activate() returns FALSE, and changes nothing, unless this holds.       *)
CanActivate(k, a) ==
  dispatch[k] = "pending" /\ a.receiver \in receivers /\ available[a.receiver]

activate(k, a) ==
  /\ CanActivate(k, a)
  /\ centerHz' = [centerHz EXCEPT ![a.receiver] = a.center]
  /\ channels' = [channels EXCEPT ![a.receiver] = @ \cup {k}]
  /\ assignments' = [assignments EXCEPT ![k] = a.receiver]
  /\ dispatch' = [dispatch EXCEPT ![k] = "active"]
  /\ UNCHANGED <<receivers, available>>

(* failPending for each key of S.                                          *)
failPending(S) ==
  /\ dispatch' = [k \in Keys |-> IF k \in S /\ dispatch[k] = "pending" THEN "none" ELSE dispatch[k]]
  /\ UNCHANGED <<receivers, available, centerHz, channels, assignments>>

(* Seeded fault: the center is reset although channels are left.           *)
ReleaseResetsCenter(k, suppress) ==
  /\ channels' = [channels EXCEPT ![assignments[k]] = @ \ {k}]
  /\ centerHz' = [centerHz EXCEPT ![assignments[k]] = 0]
  /\ assignments' = [assignments EXCEPT ![k] = NoReceiver]
  /\ dispatch' = [dispatch EXCEPT ![k] = IF suppress THEN "suppressed" ELSE "none"]
  /\ UNCHANGED <<receivers, available>>

release(k, suppress) ==
  LET r == assignments[k]
      left == [channels EXCEPT ![r] = @ \ {k}]
  IN  /\ IF r \in receivers
         THEN /\ channels' = left
              /\ centerHz' = [centerHz EXCEPT ![r] = IF left[r] = {} THEN 0 ELSE @]
         ELSE UNCHANGED <<channels, centerHz>>
      /\ assignments' = [assignments EXCEPT ![k] = NoReceiver]
      /\ dispatch' = [dispatch EXCEPT ![k] = IF suppress THEN "suppressed" ELSE "none"]
      /\ UNCHANGED <<receivers, available>>

clearSuppressed(S) ==
  /\ dispatch' = [k \in Keys |-> IF k \in S /\ dispatch[k] = "suppressed" THEN "none" ELSE dispatch[k]]
  /\ UNCHANGED <<receivers, available, centerHz, channels, assignments>>

setUnavailable(r) ==
  /\ available' = [available EXCEPT ![r] = FALSE]
  /\ UNCHANGED <<receivers, centerHz, channels, dispatch, assignments>>

disconnect(r) ==
  /\ r \in receivers
  /\ available' = [available EXCEPT ![r] = FALSE]
  /\ assignments' = [k \in Keys |-> IF k \in channels[r] THEN NoReceiver ELSE assignments[k]]
  /\ dispatch' = [k \in Keys |-> IF k \in channels[r] THEN "none" ELSE dispatch[k]]
  /\ channels' = [channels EXCEPT ![r] = {}]
  /\ centerHz' = [centerHz EXCEPT ![r] = 0]
  /\ UNCHANGED receivers

clear ==
  /\ dispatch' = [k \in Keys |-> "none"]
  /\ assignments' = [k \in Keys |-> NoReceiver]
  /\ channels' = [r \in Receivers |-> {}]
  /\ centerHz' = [r \in Receivers |-> 0]
  /\ UNCHANGED <<receivers, available>>

(* Called by start(), when everything has been cleared.                    *)
setReceivers(S) ==
  /\ receivers' = S
  /\ available' = [r \in Receivers |-> r \in S]
  /\ centerHz' = [r \in Receivers |-> 0]
  /\ channels' = [r \in Receivers |-> {}]
  /\ UNCHANGED <<dispatch, assignments>>

(***************************************************************************)
(* The class as its callers use it.                                        *)
(***************************************************************************)
Allocations ==
  {Allocation(r, c, b) : r \in Receivers, c \in UNION {Carriers[k] : k \in Keys}, b \in BOOLEAN}

SetReceivers ==
  /\ \A k \in Keys : dispatch[k] = "none"
  /\ \E S \in SUBSET Receivers : setReceivers(S)
Mark == \E k \in Keys : markPendingDistinct(k)
Activate ==
  \E k \in Keys : \E f \in Carriers[k], a \in Allocations : Sound(a, f) /\ activate(k, a)
Fail == \E S \in SUBSET Keys : failPending(S)
Release == \E k \in Keys, suppress \in BOOLEAN : dispatch[k] = "active" /\ release(k, suppress)
ClearSuppressed == \E S \in SUBSET Keys : clearSuppressed(S)
SetUnavailable == \E r \in Receivers : setUnavailable(r)
Disconnect == \E r \in Receivers : disconnect(r)

AllocatorNext ==
  \/ SetReceivers \/ Mark \/ Activate \/ Fail \/ Release
  \/ ClearSuppressed \/ SetUnavailable \/ Disconnect \/ clear

AllocatorSpec == AllocatorInit /\ [][AllocatorNext]_avars
-----------------------------------------------------------------------------
DispatchStates == {"none", "pending", "active", "suppressed"}

(* Every variable stays in its range.                                      *)
AllocatorTypeOK ==
  /\ receivers \subseteq Receivers
  /\ available \in [Receivers -> BOOLEAN]
  /\ centerHz \in [Receivers -> Nat]
  /\ channels \in [Receivers -> SUBSET Keys]
  /\ dispatch \in [Keys -> DispatchStates]
  /\ assignments \in [Keys -> Receivers \cup {NoReceiver}]

(* The three records of a channel agree: it is active exactly when it is   *)
(* assigned, and it is among the channels of the receiver it is assigned   *)
(* to and of no other; receivers outside the pool host nothing.            *)
Consistent ==
  /\ \A k \in Keys : dispatch[k] = "active" <=> assignments[k] # NoReceiver
  /\ \A k \in Keys, r \in Receivers : k \in channels[r] <=> assignments[k] = r
  /\ \A r \in Receivers : ~idle(r) => r \in receivers

(* A receiver has a center exactly while it hosts channels.                *)
Parked == \A r \in Receivers : idle(r) <=> centerHz[r] = 0

(* No two channels within the exclusion radius are dispatched at once,     *)
(* although the detector sees them in different frames.                    *)
Distinct ==
  \A j, k \in Keys :
    {dispatch[j], dispatch[k]} \subseteq {"pending", "active"} /\ Abs(j - k) =< Radius => j = k

(* A receiver is never moved from under the channels it hosts.             *)
NeverMoved ==
  [][\A r \in Receivers : channels[r] # {} /\ channels'[r] # {} => centerHz'[r] = centerHz[r]]_avars
=============================================================================
