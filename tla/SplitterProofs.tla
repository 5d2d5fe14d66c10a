---------------------------- MODULE SplitterProofs ----------------------------
(***************************************************************************)
(* What the two splitters keep for any streams and any number of blocks    *)
(* and calls, and that ContinuousIQSplitter implements FanOut.             *)
(***************************************************************************)
EXTENDS Splitter, SequenceTheorems, TLAPS

-----------------------------------------------------------------------------
(* No stream is bound twice.                                               *)
Injective(s) == \A i, j \in DOMAIN s : s[i] = s[j] => i = j

(* Binding a stream that is not bound puts it behind the others.           *)
LEMMA AppendStream ==
  ASSUME NEW s \in Seq(Consumers), Injective(s), NEW c \in Consumers, c \notin Range(s)
  PROVE  /\ Append(s, c) \in Seq(Consumers) /\ Injective(Append(s, c))
         /\ Range(Append(s, c)) = Range(s) \cup {c}
<1> DEFINE t == Append(s, c)
<1>1. t \in Seq(Consumers) /\ Len(t) = Len(s) + 1
  OBVIOUS
<1>2. \A i \in 1 .. Len(s) + 1 : t[i] = IF i = Len(s) + 1 THEN c ELSE s[i]
  OBVIOUS
<1>3. DOMAIN s = 1 .. Len(s) /\ DOMAIN t = 1 .. Len(s) + 1 /\ Len(s) \in Nat
  BY <1>1
<1> HIDE DEF t
<1>4. Injective(t)
  BY <1>2, <1>3 DEF Injective, Range
<1>5. Range(t) = Range(s) \cup {c}
  BY <1>2, <1>3 DEF Range
<1> QED BY <1>1, <1>4, <1>5 DEF t

(* Unbinding a stream keeps the others, in their order.                    *)
LEMMA WithoutStream ==
  ASSUME NEW s \in Seq(Consumers), Injective(s), NEW c \in Range(s)
  PROVE  /\ Without(s, c) \in Seq(Consumers) /\ Injective(Without(s, c))
         /\ Range(Without(s, c)) = Range(s) \ {c}
<1> DEFINE k == CHOOSE i \in DOMAIN s : s[i] = c
           t == RemoveAt(s, k)
<1>1. k \in DOMAIN s /\ s[k] = c
  BY DEF Range
<1>2. DOMAIN s = 1 .. Len(s) /\ Len(s) \in Nat /\ k \in 1 .. Len(s)
  BY <1>1
<1> HIDE DEF k
<1>e. k \in Nat /\ Len(s) \in Nat /\ k <= Len(s)
  BY <1>2
<1> DEFINE a == SubSeq(s, 1, k - 1)
           b == SubSeq(s, k + 1, Len(s))
<1>a. /\ a \in Seq(Consumers) /\ Len(a) = k - 1
      /\ \A i \in 1 .. k - 1 : a[i] = s[i]
  <2>1. \A i \in 1 .. k - 1 : s[i] \in Consumers /\ 1 + i - 1 = i
    BY <1>2
  <2>2. 1 \in Int /\ k - 1 \in Int /\ (1 <= k - 1 => k - 1 - 1 + 1 = k - 1) /\ (k - 1) - 1 + 1 = k - 1
    BY <1>2
  <2>3. a \in Seq(Consumers)
    BY <2>1, <2>2, SubSeqProperties
  <2>4. Len(a) = IF 1 <= k - 1 THEN (k - 1) - 1 + 1 ELSE 0
    BY <2>1, <2>2, SubSeqProperties
  <2>5. \A i \in 1 .. (k - 1) - 1 + 1 : a[i] = s[1 + i - 1]
    BY <2>1, <2>2, SubSeqProperties
  <2> HIDE DEF a
  <2> QED BY <1>2, <2>1, <2>2, <2>3, <2>4, <2>5
<1>b. /\ b \in Seq(Consumers) /\ Len(b) = Len(s) - k
      /\ \A i \in 1 .. Len(s) - k : b[i] = s[k + i]
  <2>1. \A i \in k + 1 .. Len(s) : s[i] \in Consumers
    BY <1>2
  <2>2. k + 1 \in Int /\ Len(s) \in Int /\ Len(s) - (k + 1) + 1 = Len(s) - k
    BY <1>2
  <2>3. b \in Seq(Consumers)
    BY <2>1, <2>2, SubSeqProperties
  <2>4. Len(b) = IF k + 1 <= Len(s) THEN Len(s) - (k + 1) + 1 ELSE 0
    BY <2>1, <2>2, SubSeqProperties
  <2>5. \A i \in 1 .. Len(s) - (k + 1) + 1 : b[i] = s[k + 1 + i - 1]
    BY <2>1, <2>2, SubSeqProperties
  <2> HIDE DEF b
  <2>6. \A i \in 1 .. Len(s) - k : b[i] = s[k + i]
    BY <1>2, <2>2, <2>5
  <2>7. Len(b) = Len(s) - k
    <3>1. CASE k + 1 <= Len(s)
      BY <2>2, <2>4, <3>1
    <3>2. CASE ~(k + 1 <= Len(s))
      <4>1. Len(s) = k
        BY <1>e, <3>2
      <4>2. Len(b) = 0
        BY <2>4, <3>2
      <4> QED BY <1>2, <4>1, <4>2
    <3> QED BY <3>1, <3>2
  <2> QED BY <2>3, <2>6, <2>7
<1> HIDE DEF a, b
<1>c. t = a \o b
  BY DEF RemoveAt, a, b
<1>3. t \in Seq(Consumers) /\ Len(t) = Len(s) - 1
  <2>1. t \in Seq(Consumers) /\ Len(t) = Len(a) + Len(b)
    BY <1>a, <1>b, <1>c, ConcatProperties
  <2> QED BY <1>2, <1>a, <1>b, <2>1
<1>d. \A i \in 1 .. Len(a) + Len(b) : t[i] = IF i <= Len(a) THEN a[i] ELSE b[i - Len(a)]
  BY <1>a, <1>b, <1>c, ConcatProperties
<1>4. \A i \in 1 .. Len(s) - 1 : t[i] = IF i < k THEN s[i] ELSE s[i + 1]
  <2> TAKE i \in 1 .. Len(s) - 1
  <2>1. CASE i < k
    BY <1>2, <1>a, <1>b, <1>d, <2>1
  <2>2. CASE ~(i < k)
    <3>1. i - (k - 1) \in 1 .. Len(s) - k /\ k + (i - (k - 1)) = i + 1
      BY <1>2, <2>2
    <3>2. i \in 1 .. Len(a) + Len(b) /\ ~(i <= Len(a)) /\ i - Len(a) = i - (k - 1)
      BY <1>2, <1>a, <1>b, <2>2
    <3>3. t[i] = b[i - (k - 1)]
      BY <1>d, <3>2
    <3> QED BY <1>b, <2>2, <3>1, <3>3
  <2> QED BY <2>1, <2>2
<1>5. DOMAIN t = 1 .. Len(s) - 1
  BY <1>3
<1> HIDE DEF t
<1>6. Injective(t)
  <2> SUFFICES ASSUME NEW i \in 1 .. Len(s) - 1, NEW j \in 1 .. Len(s) - 1, t[i] = t[j]
               PROVE  i = j
    BY <1>5 DEF Injective
  <2> DEFINE up(x) == IF x < k THEN x ELSE x + 1
  <2>1. /\ up(i) \in 1 .. Len(s) /\ t[i] = s[up(i)]
        /\ up(j) \in 1 .. Len(s) /\ t[j] = s[up(j)]
    BY <1>2, <1>4
  <2>2. up(i) = up(j)
    BY <1>2, <2>1 DEF Injective
  <2> QED BY <1>2, <2>2
<1>7. Range(t) = Range(s) \ {c}
  <2>1. Range(t) \subseteq Range(s) \ {c}
    BY <1>1, <1>2, <1>4, <1>5 DEF Range, Injective
  <2>2. ASSUME NEW i \in 1 .. Len(s), i # k
        PROVE  s[i] \in Range(t)
    <3>1. CASE i < k
      BY <1>2, <1>4, <1>5, <3>1 DEF Range
    <3>2. CASE i > k
      <4>1. i - 1 \in 1 .. Len(s) - 1 /\ ~(i - 1 < k) /\ i - 1 + 1 = i
        BY <1>2, <3>2
      <4>2. t[i - 1] = s[i]
        BY <1>4, <4>1
      <4> QED BY <1>5, <4>1, <4>2 DEF Range
    <3> QED BY <1>2, <2>2, <3>1, <3>2
  <2>3. Range(s) \ {c} \subseteq Range(t)
    BY <1>1, <1>2, <2>2 DEF Range
  <2> QED BY <2>1, <2>3
<1> QED BY <1>3, <1>6, <1>7 DEF t, k, Without

-----------------------------------------------------------------------------
(* The types of the state, and that no stream is bound twice.              *)
Types ==
  /\ keeps \in BOOLEAN
  /\ published \in [Inputs -> Nat] /\ input \in [Inputs -> Nat] /\ in \in Inputs
  /\ streams \in Seq(Consumers) /\ Injective(streams)
  /\ delivered \subseteq Bound /\ pending \in BOOLEAN
  /\ full \subseteq Consumers /\ put \in [Consumers -> [Inputs -> Nat]]
  /\ lost \in Nat /\ changes \in Nat
  /\ pc \in {"read", "copy", "exit"}
  /\ running \in BOOLEAN /\ stopFlag \in BOOLEAN
  /\ ctl \in {"idle", "join", "apply"}

(* The worker is joined before a call takes effect, and the call still     *)
(* makes sense then.                                                       *)
Control ==
  /\ ctl = "join" <=> stopFlag
  /\ ctl = "apply" \/ (ctl = "idle" /\ ~running) => pc = "exit"
  /\ ctl # "idle" => /\ op = "bind" => arg \in Consumers \ Bound
                     /\ op = "unbind" => arg \in Bound
                     /\ op = "setInput" => arg \in Inputs /\ ~keeps

(* delivered says who has the block being distributed, and nobody has one  *)
(* that is not being distributed yet.                                      *)
Progress ==
  /\ pc = "copy" => pending
  /\ pending /\ pc # "copy" => keeps
  /\ pending => input[in] # 0 /\ \A c \in Bound : c \in delivered <=> put[c][in] = input[in]
  /\ \A s \in Inputs : input[s] \in {0, published[s]}
  /\ \A s \in Inputs, c \in Bound :
       /\ put[c][s] <= published[s]
       /\ input[s] # 0 => put[c][s] < input[s] \/ (s = in /\ pending)

(* A call that finds the worker running has a loss of its own to spend.    *)
Losses ==
  /\ LossBounded
  /\ ~keeps /\ ctl = "join" /\ pc # "exit" => lost < changes

(* The inductive invariant.                                                *)
Inv == Types /\ Control /\ Progress /\ Losses

(* The next block of an input has not been handed to anybody.              *)
LEMMA PublishInv ==
  ASSUME Inv, NEW s \in Inputs, Publish(s)
  PROVE  Inv'
<1> USE DEF Publish, Inv, source, outputs, worker, control
<1>1. Types' BY NamesAssumption DEF Types, Control, Bound
<1>2. Control' BY NamesAssumption DEF Types, Control, Bound
<1>3. Progress'
  <2>1. /\ published' = [published EXCEPT ![s] = published[s] + 1]
        /\ input' = [input EXCEPT ![s] = published[s] + 1] /\ input[s] = 0
        /\ pending => s # in
    BY DEF Progress, Types
  <2>2. \A q \in Inputs : input'[q] \in {0, published'[q]}
    BY <2>1 DEF Progress, Types
  <2>3. \A q \in Inputs, c \in Bound :
          /\ put[c][q] <= published'[q]
          /\ input'[q] # 0 => put[c][q] < input'[q] \/ (q = in /\ pending)
    <3> TAKE q \in Inputs, c \in Bound
    <3>1. c \in Consumers /\ put[c][q] \in Nat
      BY DEF Types, Bound, Range
    <3>2. CASE q = s
      BY <2>1, <3>1, <3>2 DEF Progress, Types
    <3>3. CASE q # s
      BY <2>1, <3>1, <3>3 DEF Progress, Types
    <3> QED BY <3>2, <3>3
  <2> QED BY <2>1, <2>2, <2>3 DEF Progress, Types, Bound
<1>4. Losses' BY DEF Types, Control, Losses, LossBounded, Bound
<1> QED BY <1>1, <1>2, <1>3, <1>4

(* A consumer frees its stream.                                            *)
LEMMA ConsumeInv ==
  ASSUME Inv, NEW c \in Consumers, Consume(c)
  PROVE  Inv'
<1> USE DEF Consume, Inv, source, outputs, worker, control
<1>1. Types' BY NamesAssumption DEF Types, Control, Bound
<1>2. Control' BY NamesAssumption DEF Types, Control, Bound
<1>3. Progress' BY NamesAssumption DEF Types, Control, Progress, Bound
<1>4. Losses' BY DEF Types, Control, Losses, LossBounded, Bound
<1> QED BY <1>1, <1>2, <1>3, <1>4

(* No bound stream has the block that is read.                             *)
LEMMA ReadBlockInv ==
  ASSUME Inv, ReadBlock
  PROVE  Inv'
<1> USE DEF ReadBlock, Inv, source, outputs, worker, control
<1>1. Types' BY NamesAssumption DEF Types, Control, Bound
<1>2. Control' BY NamesAssumption DEF Types, Control, Bound
<1>3. Progress' BY NamesAssumption DEF Types, Control, Progress, Bound
<1>4. Losses' BY DEF Types, Control, Losses, LossBounded, Bound
<1> QED BY <1>1, <1>2, <1>3, <1>4

(* The stopped worker leaves with no block.                                *)
LEMMA ReadStoppedInv ==
  ASSUME Inv, ReadStopped
  PROVE  Inv'
<1> USE DEF ReadStopped, Inv, source, outputs, worker, control
<1>1. Types' BY NamesAssumption DEF Types, Control, Bound
<1>2. Control' BY NamesAssumption DEF Types, Control, Bound
<1>3. Progress' BY NamesAssumption DEF Types, Control, Progress, Bound
<1>4. Losses' BY DEF Types, Control, Losses, LossBounded, Bound
<1> QED BY <1>1, <1>2, <1>3, <1>4

(* A block that was kept is still in the input, with its progress.         *)
LEMMA ResumeInv ==
  ASSUME Inv, Resume
  PROVE  Inv'
<1> USE DEF Resume, Inv, source, outputs, worker, control
<1>1. Types' BY NamesAssumption DEF Types, Control, Bound
<1>2. Control' BY NamesAssumption DEF Types, Control, Bound
<1>3. Progress' BY NamesAssumption DEF Types, Control, Progress, Bound
<1>4. Losses' BY DEF Types, Control, Losses, LossBounded, Bound
<1> QED BY <1>1, <1>2, <1>3, <1>4

(* The first stream that lacks the block gets it.                          *)
LEMMA DeliverInv ==
  ASSUME Inv, Deliver
  PROVE  Inv'
<1> USE DEF Deliver, HandTo, IsNext, Inv, source, outputs, worker, control
<1>1. Types'
  <2>1. PICK k \in DOMAIN streams :
          /\ HandTo(streams[k])
          /\ delivered' = delivered \cup {streams[k]}
    BY DEF Deliver
  <2>2. streams[k] \in Consumers /\ streams[k] \in Bound
    BY DEF Types, Bound, Range
  <2>3. put' \in [Consumers -> [Inputs -> Nat]] /\ full' \subseteq Consumers
    BY <2>1, <2>2 DEF Types, HandTo
  <2> QED BY <2>1, <2>2, <2>3 DEF Types, Bound
<1>2. Control' BY NamesAssumption DEF Types, Control, Bound
<1>3. Progress' BY NamesAssumption DEF Types, Control, Progress, Bound
<1>4. Losses' BY DEF Types, Control, Losses, LossBounded, Bound
<1> QED BY <1>1, <1>2, <1>3, <1>4

(* One splitter keeps the block, the other charges it to the call.         *)
LEMMA CancelInv ==
  ASSUME Inv, Cancel
  PROVE  Inv'
<1> USE DEF Cancel, Swapless, FlushInput, Cancelled, Inv, source, outputs, worker, control
<1>1. Types'
  <2>1. input' \in [Inputs -> Nat]
    <3>1. CASE keeps
      BY <3>1 DEF Types
    <3>2. CASE ~keeps
      BY <3>2 DEF Types
    <3> QED BY <3>1, <3>2
  <2>3. pending' \in BOOLEAN
    BY DEF Types
  <2>2. lost' \in {lost, lost + 1}
    OBVIOUS
  <2> QED BY <2>1, <2>2, <2>3 DEF Types, Bound
<1>2. Control' BY NamesAssumption DEF Types, Control, Bound
<1>3. Progress' BY NamesAssumption DEF Types, Control, Progress, Bound
<1>4. Losses' BY DEF Types, Control, Losses, LossBounded, Bound
<1> QED BY <1>1, <1>2, <1>3, <1>4

(* Every bound stream has the block that is let go: nothing is lost.       *)
LEMMA FlushInv ==
  ASSUME Inv, Flush
  PROVE  Inv'
<1> USE DEF Flush, FlushInput, Inv, source, outputs, worker, control
<1>1. Types' BY NamesAssumption DEF Types, Control, Bound
<1>2. Control' BY NamesAssumption DEF Types, Control, Bound
<1>3. Progress' BY NamesAssumption DEF Types, Control, Progress, Bound
<1>4. Losses' BY DEF Types, Control, Losses, LossBounded, Bound
<1> QED BY <1>1, <1>2, <1>3, <1>4

(* A call begins with a worker that is stopped or about to be.             *)
LEMMA CallInv ==
  ASSUME Inv, NEW o, NEW a \in Consumers \cup Inputs \cup {NoArg}, Call(o, a),
         o = "setInput" => a \in Inputs, o \in {"bind", "unbind"} => a \in Consumers
  PROVE  Inv'
<1> USE DEF Call, MayCall, Inv, source, outputs, worker, control
<1>1. Types' BY NamesAssumption DEF Types, Control, Bound
<1>2. Control' BY NamesAssumption DEF Types, Control, Bound
<1>3. Progress' BY NamesAssumption DEF Types, Control, Progress, Bound
<1>4. Losses' BY DEF Types, Control, Losses, LossBounded, Bound
<1> QED BY <1>1, <1>2, <1>3, <1>4

(* The worker has left, and the flags are lowered.                         *)
LEMMA JoinedInv ==
  ASSUME Inv, Joined
  PROVE  Inv'
<1> USE DEF Joined, Inv, source, outputs, worker, control
<1>1. Types' BY NamesAssumption DEF Types, Control, Bound
<1>2. Control' BY NamesAssumption DEF Types, Control, Bound
<1>3. Progress' BY NamesAssumption DEF Types, Control, Progress, Bound
<1>4. Losses' BY DEF Types, Control, Losses, LossBounded, Bound
<1> QED BY <1>1, <1>2, <1>3, <1>4

(* A new stream has nothing of the block that is being distributed.        *)
LEMMA BindInv ==
  ASSUME Inv, Bind
  PROVE  Inv'
<1> USE DEF Bind, Restart, None, Inv, source, outputs, worker, control
<1>1. Types' BY AppendStream, NamesAssumption DEF Types, Control, Bound
<1>2. Control' BY AppendStream, NamesAssumption DEF Types, Control, Bound
<1>3. Progress' BY AppendStream, NamesAssumption DEF Types, Control, Progress, Bound
<1>4. Losses' BY DEF Types, Control, Losses, LossBounded, Bound
<1> QED BY <1>1, <1>2, <1>3, <1>4

(* The others keep the block, or the lack of it.                           *)
LEMMA UnbindInv ==
  ASSUME Inv, Unbind
  PROVE  Inv'
<1> USE DEF Unbind, Restart, Inv, source, outputs, worker, control
<1>1. Types' BY WithoutStream, NamesAssumption DEF Types, Control, Bound
<1>2. Control' BY WithoutStream, NamesAssumption DEF Types, Control, Bound
<1>3. Progress' BY WithoutStream, NamesAssumption DEF Types, Control, Progress, Bound
<1>4. Losses' BY DEF Types, Control, Losses, LossBounded, Bound
<1> QED BY <1>1, <1>2, <1>3, <1>4

(* No block is being distributed from the old input.                       *)
LEMMA SetInputInv ==
  ASSUME Inv, SetInput
  PROVE  Inv'
<1> USE DEF SetInput, Restart, Inv, source, outputs, worker, control
<1>1. Types' BY NamesAssumption DEF Types, Control, Bound
<1>2. Control' BY NamesAssumption DEF Types, Control, Bound
<1>3. Progress' BY NamesAssumption DEF Types, Control, Progress, Bound
<1>4. Losses' BY DEF Types, Control, Losses, LossBounded, Bound
<1> QED BY <1>1, <1>2, <1>3, <1>4

(* Starting and stopping leave the data alone.                             *)
LEMMA StartStopInv ==
  ASSUME Inv, StartStop
  PROVE  Inv'
<1> USE DEF StartStop, Restart, Inv, source, outputs, worker, control
<1>1. Types' BY NamesAssumption DEF Types, Control, Bound
<1>2. Control' BY NamesAssumption DEF Types, Control, Bound
<1>3. Progress' BY NamesAssumption DEF Types, Control, Progress, Bound
<1>4. Losses' BY DEF Types, Control, Losses, LossBounded, Bound
<1> QED BY <1>1, <1>2, <1>3, <1>4

(* No action makes a state that breaks the invariant.                      *)
LEMMA NextInv == Inv /\ [Next]_vars => Inv'
<1> SUFFICES ASSUME Inv, [Next]_vars PROVE Inv'
  OBVIOUS
<1>1. CASE UNCHANGED vars
  BY <1>1 DEF vars, source, outputs, worker, control, Inv, Types, Control, Progress, Losses, LossBounded, Bound
<1>2. CASE Worker
  BY <1>2, ReadBlockInv, ReadStoppedInv, ResumeInv, DeliverInv, CancelInv, FlushInv DEF Worker
<1>3. CASE Finish
  BY <1>3, JoinedInv, BindInv, UnbindInv, SetInputInv, StartStopInv DEF Finish
<1>4. ASSUME NEW s \in Inputs, Publish(s) \/ Call("setInput", s)
      PROVE  Inv'
  BY <1>4, PublishInv, CallInv
<1>5. ASSUME NEW c \in Consumers, Consume(c) \/ Call("bind", c) \/ Call("unbind", c)
      PROVE  Inv'
  BY <1>5, ConsumeInv, CallInv
<1>6. CASE Call("start", NoArg) \/ Call("stop", NoArg)
  BY <1>6, CallInv
<1> QED BY <1>1, <1>2, <1>3, <1>4, <1>5, <1>6 DEF Next

(* The worker, the calls and the blocks agree, whatever is bound, unbound, *)
(* replaced, stopped or restarted in the middle of a block.                *)
THEOREM InvHolds == Spec => []Inv
<1>1. Init => Inv
  <2> SUFFICES ASSUME Init PROVE Inv
    OBVIOUS
  <2>1. Types
    <3>1. in \in Inputs
      BY NamesAssumption DEF Init
    <3>2. streams \in Seq(Consumers) /\ Injective(streams)
      BY DEF Init, Injective
    <3>3. put \in [Consumers -> [Inputs -> Nat]] /\ published \in [Inputs -> Nat] /\ input \in [Inputs -> Nat]
      BY DEF Init, None
    <3> QED BY <3>1, <3>2, <3>3 DEF Init, Types
  <2>2. Control
    BY DEF Init, Control
  <2>3. Progress
    BY DEF Init, Progress, None, Bound, Range
  <2>4. Losses
    BY DEF Init, Losses, LossBounded
  <2> QED BY <2>1, <2>2, <2>3, <2>4 DEF Inv
<1> QED BY <1>1, NextInv, PTL DEF Spec

-----------------------------------------------------------------------------
(* A control call costs at most the block it interrupts, and nothing with  *)
(* the splitter that keeps its input.                                      *)
THEOREM LossBoundedHolds == Spec => []LossBounded
BY InvHolds, PTL DEF Inv, Losses

(* The only step that fills an output hands it a block it has not had.     *)
LEMMA DeliverFresh ==
  ASSUME Inv, Deliver
  PROVE  \E c \in Bound :
           /\ c \in Consumers /\ c \notin delivered /\ pending
           /\ put[c][in] < input[in] /\ input[in] = published[in]
           /\ full' = full \cup {c}
           /\ put' = [put EXCEPT ![c][in] = input[in]]
<1>1. PICK k \in DOMAIN streams : IsNext(k) /\ HandTo(streams[k])
  BY DEF Deliver
<1>2. streams[k] \in Consumers /\ streams[k] \in Bound
  BY DEF Inv, Types, Bound, Range
<1>3. pending
  BY DEF Deliver, Inv, Progress
<1>4. put[streams[k]][in] # input[in] /\ input[in] = published[in]
  BY <1>1, <1>2, <1>3 DEF IsNext, Inv, Types, Progress
<1>5. put[streams[k]][in] < input[in]
  BY <1>2, <1>4 DEF Inv, Types, Progress
<1> QED BY <1>1, <1>2, <1>3, <1>4, <1>5 DEF HandTo, IsNext

(* No consumer is handed a block a second time.                            *)
THEOREM NoRepeatHolds == Spec => NoRepeat
<1> DEFINE Fresh == \A c \in full' \ full : \E s \in Inputs : put'[c][s] > put[c][s]
<1>1. ASSUME Inv, [Next]_vars PROVE [Fresh]_vars
  <2> SUFFICES ASSUME Next PROVE Fresh
    BY <1>1
  <2>1. CASE Deliver
    BY <1>1, <2>1, DeliverFresh DEF Inv, Types
  <2>2. CASE ~Deliver
    <3>1. full' \subseteq full
      BY <2>2 DEF Next, Worker, Finish, ReadBlock, ReadStopped, Resume, Cancel, Cancelled, Flush,
                  Joined, Bind, Unbind, SetInput, StartStop, Publish, Consume, Call, outputs
    <3> QED BY <3>1
  <2> QED BY <2>1, <2>2
<1> QED BY <1>1, InvHolds, PTL DEF Spec, NoRepeat

(* Unless a stop is in progress, what is flushed has reached every stream. *)
THEOREM CompleteHolds == Spec => CompleteUnlessCancelled
<1> DEFINE Complete == \A s \in Inputs : input[s] # 0 /\ input'[s] = 0 =>
                         stopFlag \/ \A c \in Bound : put[c][s] = input[s]
<1>1. ASSUME Inv, [Next]_vars PROVE [Complete]_vars
  <2> SUFFICES ASSUME Next, NEW s \in Inputs, input[s] # 0, input'[s] = 0, ~stopFlag
               PROVE  \A c \in Bound : put[c][s] = input[s]
    BY <1>1
  <2>1. CASE Flush
    BY <1>1, <2>1 DEF Flush, FlushInput, Inv, Types, Progress
  <2>2. CASE \E q \in Inputs : Publish(q)
    BY <1>1, <2>2 DEF Publish, Inv, Types
  <2>3. CASE ~Flush /\ ~\E q \in Inputs : Publish(q)
    BY <1>1, <2>3
       DEF Next, Worker, Finish, ReadBlock, ReadStopped, Resume, Deliver, Cancel, Swapless,
           Joined, Bind, Unbind, SetInput, StartStop, Restart, Consume, Call, source
  <2> QED BY <2>1, <2>2, <2>3
<1> QED BY <1>1, InvHolds, PTL DEF Spec, CompleteUnlessCancelled

-----------------------------------------------------------------------------
(* The splitter that keeps its input takes a step of FanOut, or none, with *)
(* each of its own.                                                        *)
LEMMA KeepsStep ==
  ASSUME Inv, Inv', [Next]_vars, keeps
  PROVE  [F!Next]_F!vars
<1> USE DEF F!vars
<1>0. keeps' /\ in' = in /\ in \in Inputs
  BY DEF Next, Worker, Finish, ReadBlock, ReadStopped, Resume, Deliver, Cancel, Cancelled, Flush,
         Joined, Bind, Unbind, SetInput, StartStop, Restart, Publish, Consume, Call, vars, Inv, Types, Control
<1>a. Bound \subseteq Consumers
  BY DEF Inv, Types, Bound, Range
<1> DEFINE unmoved == UNCHANGED <<published[in], input[in], Bound, put>>
<1>1. ASSUME unmoved PROVE UNCHANGED F!vars
  BY <1>0, <1>1
<1>2. ASSUME NEW s \in Inputs, Publish(s) PROVE F!Next
  BY <1>0, <1>2 DEF F!Next, F!Arrive, Publish, Inv, Types, Progress, Bound, outputs
<1>3. CASE Deliver
  <2>1. PICK c \in Bound :
          /\ c \in Consumers /\ put[c][in] < input[in] /\ input[in] = published[in]
          /\ put' = [put EXCEPT ![c][in] = input[in]] /\ pending
    BY <1>3, DeliverFresh
  <2>2. UNCHANGED <<published, input, streams>>
    BY <1>3 DEF Deliver, source
  <2>3. F!Hand(c)
    BY <1>0, <2>1, <2>2 DEF F!Hand, Inv, Types, Progress, Bound
  <2> QED BY <2>1, <2>3 DEF F!Next
<1>4. CASE Flush
  <2>1. input[in] # 0 /\ \A c \in Bound : c \in Consumers /\ put[c][in] = published[in]
    BY <1>4, <1>a DEF Flush, Inv, Types, Progress
  <2>2. input'[in] = 0 /\ UNCHANGED <<published, put, Bound>>
    BY <1>4 DEF Flush, FlushInput, Inv, Types, outputs, Bound
  <2>3. F!Release
    BY <1>0, <2>1, <2>2 DEF F!Release
  <2>4. F!Next
    BY <2>3 DEF F!Next
  <2> QED BY <2>4
<1>5. CASE Bind
  <2>1. arg \in Consumers /\ arg \notin Bound /\ Bound' = Bound \cup {arg}
    BY <1>5, AppendStream DEF Bind, Inv, Types, Control, Bound
  <2>2. put' = [put EXCEPT ![arg] = None] /\ UNCHANGED <<published, input>>
    BY <1>5 DEF Bind, Restart, source
  <2>3. PICK c \in Consumers : c = arg
    BY <2>1
  <2>4. F!Join(c)
    BY <1>0, <2>1, <2>2, <2>3 DEF F!Join, None, Inv, Types
  <2>5. F!Next
    BY <2>4 DEF F!Next
  <2> QED BY <2>5
<1>6. CASE Unbind
  <2>1. arg \in Consumers /\ arg \in Bound /\ Bound' = Bound \ {arg}
    <3>1. arg \in Bound /\ streams' = Without(streams, arg)
      BY <1>6 DEF Unbind, Inv, Control
    <3>2. Range(Without(streams, arg)) = Range(streams) \ {arg}
      BY <3>1, WithoutStream DEF Inv, Types, Bound
    <3> QED BY <1>a, <3>1, <3>2 DEF Bound
  <2>2. UNCHANGED <<published, input, put>>
    BY <1>6 DEF Unbind, Restart, source, outputs
  <2>3. PICK c \in Consumers : c = arg
    BY <2>1
  <2>4. F!Leave(c)
    BY <1>0, <2>1, <2>2, <2>3 DEF F!Leave
  <2> QED BY <2>4 DEF F!Next
<1>7. CASE ~(Deliver \/ Flush \/ Bind \/ Unbind \/ \E s \in Inputs : Publish(s))
  <2>1. unmoved
    BY <1>0, <1>7 DEF Next, Worker, Finish, ReadBlock, ReadStopped, Resume, Cancel, Cancelled,
         Joined, SetInput, StartStop, Restart, Consume, Call, vars, source, outputs, Inv, Control, Bound
  <2> QED BY <1>1, <2>1
<1> QED BY <1>2, <1>3, <1>4, <1>5, <1>6, <1>7

(* ContinuousIQSplitter is a FanOut.                                       *)
THEOREM ImplementsFanOutHolds == Spec => ImplementsFanOut
<1>1. Init => F!Init
  BY NamesAssumption DEF Init, F!Init, None, Bound, Range
<1>2. Inv /\ Inv' /\ [Next]_vars => [F!Next]_F!vars
  <2> SUFFICES ASSUME Inv, Inv', [Next]_vars PROVE [F!Next]_F!vars
    OBVIOUS
  <2>1. keeps' = keeps /\ keeps \in BOOLEAN
    BY DEF Next, Worker, Finish, ReadBlock, ReadStopped, Resume, Deliver, Cancel, Cancelled, Flush,
           Joined, Bind, Unbind, SetInput, StartStop, Restart, Publish, Consume, Call, vars, Inv, Types
  <2>2. CASE ~keeps
    BY <2>1, <2>2 DEF F!vars
  <2> QED BY <2>1, <2>2, KeepsStep
<1> QED BY <1>1, <1>2, InvHolds, PTL DEF Spec, ImplementsFanOut, F!Spec

-----------------------------------------------------------------------------
(* The steps the worker has before it ends, once it was told to stop: it   *)
(* takes up a block it kept, lets it go or keeps it again, and returns.    *)
WorkLeft ==
  CASE pc = "exit" -> 0
    [] pc = "read" /\ ~pending -> 1
    [] pc = "copy" -> 2
    [] pc = "read" /\ pending -> 3

(* While the worker is being joined, every step it takes brings it nearer  *)
(* to its end; and the consumers, who may never read again, get nothing    *)
(* more that it would have to wait for.                                    *)
StopBounded ==
  ctl = "join" /\ ctl' = "join" =>
    /\ <<pc', pending'>> # <<pc, pending>> => WorkLeft' < WorkLeft
    /\ full' \subseteq full

(* run() returns after at most three steps when its block is stopped.      *)
THEOREM StopBoundedHolds == Spec => [][StopBounded]_vars
<1>1. Inv /\ [Next]_vars => [StopBounded]_vars
  <2> SUFFICES ASSUME Inv, Next, ctl = "join", ctl' = "join"
               PROVE  /\ <<pc', pending'>> # <<pc, pending>> => WorkLeft' < WorkLeft
                      /\ full' \subseteq full
    BY DEF StopBounded
  <2>1. stopFlag /\ pending \in BOOLEAN
    BY DEF Inv, Control, Types
  <2>2. \/ UNCHANGED <<pc, pending>>
        \/ pc = "read" /\ ~pending /\ pc' = "exit"
        \/ pc = "read" /\ pending /\ pc' = "copy"
        \/ pc = "copy" /\ pc' = "exit"
        \/ pc = "copy" /\ pc' = "read" /\ ~pending'
    BY <2>1 DEF Next, Worker, Finish, ReadBlock, ReadStopped, Resume, Deliver, Cancel, Swapless,
                Cancelled, Flush, FlushInput, Joined, Bind, Unbind, SetInput, StartStop, Restart,
                Publish, Consume, Call, worker
  <2>3. full' \subseteq full
    BY <2>1 DEF Next, Worker, Finish, ReadBlock, ReadStopped, Resume, Deliver, Cancel, Cancelled, Flush,
                Joined, Bind, Unbind, SetInput, StartStop, Restart, Publish, Consume, Call, outputs
  <2>4. ASSUME <<pc', pending'>> # <<pc, pending>>
        PROVE  WorkLeft' < WorkLeft
    BY <2>1, <2>2, <2>4 DEF WorkLeft
  <2> QED BY <2>3, <2>4
<1> QED BY <1>1, InvHolds, PTL DEF Spec
=============================================================================
