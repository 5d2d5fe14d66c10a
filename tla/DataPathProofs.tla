----------------------------- MODULE DataPathProofs -----------------------------
(***************************************************************************)
(* Proofs about the path of the samples, for any number of frames and of   *)
(* blocks.  Stream: its invariants, and that every step of the two-buffer  *)
(* stream is a step of the abstract Handoff.  Chain: what its blocks read  *)
(* while it is rewired, of which OneReader is what Stream takes for        *)
(* granted, that a stream has one reader.                                  *)
(***************************************************************************)
EXTENDS Stream, Chain, FiniteSetTheorems, SequenceTheorems, TLAPS

(* Exactly one thing holds the right to the buffers: the writer may swap,  *)
(* it has swapped and is about to say so, the reader may read, or it has   *)
(* finished and is about to give the buffer back.                          *)
OneHolder ==
  /\ canSwap \/ dataReady \/ wpc = "ready" \/ rpc = "release"
  /\ canSwap => ~dataReady /\ wpc # "ready" /\ rpc # "release"
  /\ dataReady => wpc # "ready" /\ rpc # "release"
  /\ wpc = "ready" => rpc # "release"
  /\ rpc \in {"process", "unready"} => dataReady

(* How far the reader is behind the writer, by who holds the buffers.      *)
Lag ==
  /\ canSwap \/ rpc \in {"unready", "release"} => got = sent
  /\ wpc = "ready" \/ (dataReady /\ rpc # "unready") =>
       /\ sent = got + 1
       /\ buf[readBuf] = sent /\ dataSize = sent
  /\ rpc = "process" => count = sent
  /\ wpc \in {"swap", "wait"} => buf[writeBuf] = sent + 1
  /\ wpc \in {"filling", "swap", "wait"} => sent < MaxFrames

(* The stop flag of a side is up exactly while that side is being stopped, *)
(* and a stopped side has no worker.                                       *)
Sides ==
  /\ writerStop <=> wctl \in {"notify", "join"}
  /\ readerStop <=> rctl \in {"notify", "join"}
  /\ wctl = "stopped" => wpc = "exit"
  /\ rctl = "stopped" => rpc = "exit"
  /\ wpc = "wait" => wctl # "join"
  /\ rpc = "wait" => rctl # "join"

(* The inductive invariant.                                                *)
IInv == TypeOK /\ OneHolder /\ Lag /\ Sides /\ NoLostWakeup

(* A stream nobody has started satisfies the inductive invariant.          *)
THEOREM InitInv == Init => IInv
<1> SUFFICES ASSUME Init PROVE IInv
  OBVIOUS
<1> USE MaxFramesAssumption DEF Init
<1>1. TypeOK
  <2>1. 0 \in Frames
    BY DEF Frames
  <2>2. buf \in [{0, 1} -> Frames]
    BY <2>1 DEF Torn
  <2> QED
    BY <2>1, <2>2 DEF TypeOK, WriterPC, ReaderPC, Ctl
<1>2. OneHolder
  BY DEF OneHolder
<1>3. Lag
  BY DEF Lag
<1>4. Sides
  BY DEF Sides
<1>5. NoLostWakeup
  BY DEF NoLostWakeup
<1> QED
  BY <1>1, <1>2, <1>3, <1>4, <1>5 DEF IInv

(* Every step of either worker, of a control thread, or a spurious wake-up *)
(* keeps the inductive invariant.                                          *)
THEOREM NextInv == IInv /\ [Next]_vars => IInv'
<1> SUFFICES ASSUME IInv, [Next]_vars PROVE IInv'
  OBVIOUS
<1> USE MaxFramesAssumption
    DEF IInv, TypeOK, OneHolder, Lag, Sides, NoLostWakeup, MayLeaveSwap, MayLeaveRead,
        Frames, WriterPC, ReaderPC, Ctl, Torn, readBuf, shared, Woken
<1>1. CASE Fill
  BY <1>1 DEF Fill
<1>2. CASE Filled
  BY <1>2 DEF Filled
<1>3. CASE FillAbandon
  BY <1>3 DEF FillAbandon
<1>4. CASE SwapWait
  BY <1>4 DEF SwapWait
<1>5. CASE SwapAbandon
  BY <1>5 DEF SwapAbandon
<1>6. CASE SwapBuffers
  <2> USE <1>6 DEF SwapBuffers
  <2>0. sent + 1 \in Frames
    OBVIOUS
  <2>1. TypeOK'
    <3>1. writeBuf' \in {0, 1}
      OBVIOUS
    <3>2. buf' \in [{0, 1} -> Frames]'
      OBVIOUS
    <3>3. canSwap' \in BOOLEAN /\ writerStop' \in BOOLEAN /\ dataReady' \in BOOLEAN /\ readerStop' \in BOOLEAN
      OBVIOUS
    <3>4. dataSize' \in Frames' /\ sent' \in Frames' /\ count' \in Frames' /\ got' \in Frames'
      BY <2>0
    <3>5. wpc' \in WriterPC' /\ rpc' \in ReaderPC' /\ wctl' \in Ctl' /\ rctl' \in Ctl'
      OBVIOUS
    <3> HIDE DEF Frames, WriterPC, ReaderPC, Ctl
    <3> QED  BY <3>1, <3>2, <3>3, <3>4, <3>5
  <2>2. OneHolder'
    OBVIOUS
  <2>3. Lag'
    OBVIOUS
  <2>4. Sides' /\ NoLostWakeup'
    OBVIOUS
  <2> QED
    BY <2>1, <2>2, <2>3, <2>4
<1>7. CASE SetReady
  BY <1>7 DEF SetReady
<1>8. CASE NotifyReader
  BY <1>8 DEF NotifyReader
<1>9. CASE ReadWait
  BY <1>9 DEF ReadWait
<1>10. CASE ReadAbandon
  BY <1>10 DEF ReadAbandon
<1>11. CASE ReadCount
  BY <1>11 DEF ReadCount
<1>12. CASE Process
  BY <1>12 DEF Process
<1>13. CASE FlushReady
  BY <1>13 DEF FlushReady
<1>14. CASE FlushSwap
  BY <1>14 DEF FlushSwap
<1>15. CASE NotifyWriter
  BY <1>15 DEF NotifyWriter
<1>16. CASE Spurious
  BY <1>16 DEF Spurious
<1>17. CASE StartWriter
  BY <1>17 DEF StartWriter
<1>18. CASE StopWriter
  BY <1>18 DEF StopWriter
<1>19. CASE StartReader
  BY <1>19 DEF StartReader
<1>20. CASE StopReader
  BY <1>20 DEF StopReader
<1>21. CASE StopWriterNotify
  BY <1>21 DEF StopWriterNotify
<1>22. CASE JoinWriter
  BY <1>22 DEF JoinWriter
<1>23. CASE StopReaderNotify
  BY <1>23 DEF StopReaderNotify
<1>24. CASE JoinReader
  BY <1>24 DEF JoinReader
<1>25. CASE UNCHANGED vars
  BY <1>25 DEF vars
<1> QED
  BY <1>1, <1>2, <1>3, <1>4, <1>5, <1>6, <1>7, <1>8, <1>9, <1>10, <1>11, <1>12, <1>13, <1>14, <1>15, <1>16, <1>17, <1>18, <1>19, <1>20, <1>21, <1>22, <1>23, <1>24, <1>25
  DEF Next, Writer, Reader, Control, FinishStopWriter, FinishStopReader

(* The inductive invariant holds in every reachable state.                 *)
THEOREM Invariance == Safe => []IInv
  BY InitInv, NextInv, PTL DEF Safe

(* The stream's variables keep their types (stream.h:130-145).             *)
THEOREM TypeCorrect == Spec => []TypeOK
<1>1. IInv => TypeOK
  BY DEF IInv
<1> QED
  BY <1>1, Invariance, PTL DEF Spec

(* swap() and flush() never hand the reader a frame the writer is filling, *)
(* a stale one, or one of another size, however many frames are exchanged. *)
THEOREM FrameIntegrityHolds == Spec => []FrameIntegrity
<1>1. IInv => FrameIntegrity
  BY DEF IInv, OneHolder, Lag, FrameIntegrity
<1> QED
  BY <1>1, Invariance, PTL DEF Spec

(* notify_all is called wherever a predicate may have become true.         *)
THEOREM NoLostWakeupHolds == Spec => []NoLostWakeup
<1>1. IInv => NoLostWakeup
  BY DEF IInv
<1> QED
  BY <1>1, Invariance, PTL DEF Spec

(* Two stopped sides with nothing sent.                                    *)
LEMMA HandoffInit == Init => H!Init
  BY DEF Init, H!Init, SideOf

(* A step of the stream puts a frame (SwapBuffers), takes one (Process),   *)
(* moves one side of the control (the start and stop calls), or is         *)
(* invisible to the two blocks.                                            *)
LEMMA HandoffNext == IInv /\ [Next]_vars => [H!Next]_(H!vars)
<1> SUFFICES ASSUME IInv, [Next]_vars PROVE [H!Next]_(H!vars)
  OBVIOUS
<1> USE MaxFramesAssumption DEF IInv, SideOf
<1>1. CASE SwapBuffers
  <2>1. wctl # "stopped" /\ sent = got /\ sent < MaxFrames
    BY <1>1 DEF SwapBuffers, MayLeaveSwap, Sides, Lag
  <2>2. H!Put
    BY <1>1, <2>1 DEF SwapBuffers, H!Put, TypeOK, Ctl
  <2> QED
    BY <2>2 DEF H!Next
<1>2. CASE Process
  <2>1. rctl # "stopped" /\ sent = got + 1 /\ buf[readBuf] = sent
    BY <1>2 DEF Process, OneHolder, Sides, Lag
  <2>2. got < sent /\ got' = got + 1
    BY <1>2, <2>1 DEF Process, TypeOK, Frames
  <2>3. H!Take
    BY <1>2, <2>1, <2>2 DEF Process, H!Take, TypeOK, Ctl
  <2> QED
    BY <2>3 DEF H!Next
<1>3. CASE StartWriter \/ StopWriter \/ JoinWriter
  BY <1>3 DEF StartWriter, StopWriter, JoinWriter, H!Next, H!WriterControl, shared
<1>4. CASE StartReader \/ StopReader \/ JoinReader
  BY <1>4 DEF StartReader, StopReader, JoinReader, H!Next, H!ReaderControl, shared
<1>5. CASE StopWriterNotify
  BY <1>5 DEF StopWriterNotify, H!vars, shared
<1>6. CASE StopReaderNotify
  BY <1>6 DEF StopReaderNotify, H!vars, shared
<1>7. CASE Spurious
  BY <1>7 DEF Spurious, H!vars, shared
<1>8. CASE Writer /\ ~SwapBuffers
  BY <1>8 DEF Writer, Fill, Filled, FillAbandon, SwapWait, SwapAbandon, SetReady, NotifyReader,
              H!vars, shared
<1>9. CASE Reader /\ ~Process
  BY <1>9 DEF Reader, ReadWait, ReadAbandon, ReadCount, FlushReady, FlushSwap, NotifyWriter,
              H!vars, shared
<1>10. CASE UNCHANGED vars
  BY <1>10 DEF vars, H!vars
<1> QED
  BY <1>1, <1>2, <1>3, <1>4, <1>5, <1>6, <1>7, <1>8, <1>9, <1>10
  DEF Next, Control, FinishStopWriter, FinishStopReader

(* The two-buffer stream implements the safety part of the hand-off: every *)
(* frame is put once and taken once, in order, and a stopped side neither  *)
(* puts nor takes, for any number of frames, stops and restarts.           *)
THEOREM ImplementsHandoff == Spec => H!Safe
  BY HandoffInit, HandoffNext, Invariance, PTL DEF Spec, Safe, H!Safe

(* If both workers are blocked, a stop is on its way to one of them: the   *)
(* blocks on the two sides of a stream cannot wait for each other.         *)
NeverBothWait == wpc = "wait" /\ rpc = "wait" => "notify" \in {wctl, rctl}

(* The steps a worker has before it ends, once it was told to stop.        *)
WriterLeft ==
  CASE wpc = "exit" -> 0 [] wpc = "swap" -> 1 [] wpc = "filling" -> 2 [] wpc = "fill" -> 3
    [] wpc = "notify" -> 4 [] wpc = "ready" -> 5 [] wpc = "wait" -> 6
ReaderLeft ==
  CASE rpc = "exit" -> 0 [] rpc = "read" -> 1 [] rpc = "notify" -> 2 [] rpc = "release" -> 3
    [] rpc = "unready" -> 4 [] rpc = "process" -> 5 [] rpc = "wait" -> 6

(* A worker that is being joined is not blocked, and every step it takes   *)
(* brings it nearer to its end, whatever the other side does.              *)
StopBounded ==
  /\ wctl = "join" => wpc # "wait" /\ (wctl' = "join" /\ wpc' # wpc => WriterLeft' < WriterLeft)
  /\ rctl = "join" => rpc # "wait" /\ (rctl' = "join" /\ rpc' # rpc => ReaderLeft' < ReaderLeft)

(* No deadlock between the two blocks of a stream (stream.h:49-118).       *)
THEOREM NeverBothWaitHolds == Spec => []NeverBothWait
<1>1. IInv => NeverBothWait
  BY DEF IInv, TypeOK, OneHolder, NoLostWakeup, MayLeaveSwap, MayLeaveRead, NeverBothWait
<1> QED
  BY <1>1, Invariance, PTL DEF Spec

(* The writer's steps while it is being joined.                            *)
LEMMA WriterStops ==
  ASSUME IInv, [Next]_vars, wctl = "join", wctl' = "join", wpc' # wpc
  PROVE  WriterLeft' < WriterLeft
<1>1. writerStop /\ wpc # "wait"
  BY DEF IInv, Sides
<1>2. CASE Writer
  <2>1. <<wpc, wpc'>> \in {<<"fill", "filling">>, <<"fill", "exit">>, <<"filling", "swap">>,
                          <<"swap", "exit">>, <<"ready", "notify">>, <<"notify", "fill">>}
    BY <1>1, <1>2 DEF Writer, Fill, Filled, FillAbandon, SwapWait, SwapAbandon, SwapBuffers, SetReady,
                      NotifyReader, MayLeaveSwap
  <2> QED BY <2>1 DEF WriterLeft
<1>3. ~Reader
  BY <1>1 DEF Reader, ReadWait, ReadAbandon, ReadCount, Process, FlushReady, FlushSwap, NotifyWriter,
              Woken, shared
<1>4. ~Spurious /\ ~Control
  BY <1>1 DEF Spurious, Control, StartWriter, StopWriter, StartReader, StopReader, shared
<1>5. ~FinishStopWriter /\ ~FinishStopReader
  BY DEF FinishStopWriter, FinishStopReader, StopWriterNotify, JoinWriter, StopReaderNotify,
         JoinReader, shared
<1>6. ~UNCHANGED vars
  BY DEF vars
<1> QED
  BY <1>2, <1>3, <1>4, <1>5, <1>6 DEF Next

(* The reader's.                                                           *)
LEMMA ReaderStops ==
  ASSUME IInv, [Next]_vars, rctl = "join", rctl' = "join", rpc' # rpc
  PROVE  ReaderLeft' < ReaderLeft
<1>1. readerStop /\ rpc # "wait"
  BY DEF IInv, Sides
<1>2. CASE Reader
  <2>1. <<rpc, rpc'>> \in {<<"read", "exit">>, <<"process", "unready">>, <<"unready", "release">>,
                          <<"release", "notify">>, <<"notify", "read">>}
    BY <1>1, <1>2 DEF Reader, ReadWait, ReadAbandon, ReadCount, Process, FlushReady, FlushSwap,
                      NotifyWriter, MayLeaveRead
  <2> QED BY <2>1 DEF ReaderLeft
<1>3. ~Writer
  BY <1>1 DEF Writer, Fill, Filled, FillAbandon, SwapWait, SwapAbandon, SwapBuffers, SetReady,
              NotifyReader, Woken, shared
<1>4. ~Spurious /\ ~Control
  BY <1>1 DEF Spurious, Control, StartWriter, StopWriter, StartReader, StopReader, shared
<1>5. ~FinishStopWriter /\ ~FinishStopReader
  BY DEF FinishStopWriter, FinishStopReader, StopWriterNotify, JoinWriter, StopReaderNotify,
         JoinReader, shared
<1>6. ~UNCHANGED vars
  BY DEF vars
<1> QED
  BY <1>2, <1>3, <1>4, <1>5, <1>6 DEF Next

(* The join of a doStop() waits for at most five steps of the worker.      *)
THEOREM StopBoundedHolds == Spec => [][StopBounded]_vars
<1>1. IInv /\ [Next]_vars => [StopBounded]_vars
  <2> SUFFICES ASSUME IInv, [Next]_vars PROVE StopBounded
    OBVIOUS
  <2>1. (wctl = "join" => wpc # "wait") /\ (rctl = "join" => rpc # "wait")
    BY DEF IInv, Sides
  <2> QED
    BY <2>1, WriterStops, ReaderStops DEF StopBounded
<1> QED
  BY <1>1, Invariance, PTL DEF Spec, Safe

-----------------------------------------------------------------------------
(***************************************************************************)
(* Chain                                                                   *)
(***************************************************************************)

(* A list in which no block is twice.                                      *)
Listed ==
  /\ links \in Seq(Blocks)
  /\ \A i, j \in DOMAIN links : links[i] = links[j] => i = j

(* The stream that block b reads, and the last one, of a pipeline made of  *)
(* the blocks S in the order of the list.                                  *)
BeforeIn(S, b) == {a \in S : Position(a) < Position(b)}
AfterIn(S, b) == {a \in S : Position(a) > Position(b)}
UpIn(S, b) == IF BeforeIn(S, b) = {} THEN source ELSE LastOf(BeforeIn(S, b))
EndOf(S) == IF S = {} THEN source ELSE LastOf(S)

(* The pipeline: the enabled blocks, and the one that a call in progress   *)
(* is putting in or taking out.                                            *)
Path == IF Idle THEN enabled ELSE enabled \cup {arg}

ChainTypes ==
  /\ source \in Sources /\ input \in [Blocks -> Streams] /\ running \in BOOLEAN
  /\ enabled \subseteq Range(links)
  /\ call \in {"none", "connect", "start", "bypass", "bypassRemove"}
  /\ ~Idle => arg \in Range(links) \ enabled /\ consumer # "none"

(* Its blocks are connected, but for one that was put in and is not yet.   *)
Connected ==
  /\ \A b \in Path : input[b] = UpIn(Path, b) \/ (call = "connect" /\ b = arg)
  /\ out = EndOf(Path)
  /\ consumer \in {out, "none"}

(* A block that is being put in or taken out does not run.                 *)
RunsAlways == started = IF running THEN enabled ELSE {}

(* The inductive invariant.                                                *)
ChainInv == Listed /\ ChainTypes /\ Connected /\ RunsAlways

-----------------------------------------------------------------------------
LEMMA Places ==
  ASSUME Listed
  PROVE  /\ DOMAIN links = 1 .. Len(links) /\ Len(links) \in Nat /\ Range(links) \subseteq Blocks
         /\ \A b \in Range(links) : Position(b) \in DOMAIN links /\ links[Position(b)] = b
         /\ \A k \in DOMAIN links : links[k] \in Range(links) /\ Position(links[k]) = k
<1>1. DOMAIN links = 1 .. Len(links) /\ Len(links) \in Nat /\ Range(links) \subseteq Blocks
  BY DEF Listed, Range
<1>2. \A b \in Range(links) : Position(b) \in DOMAIN links /\ links[Position(b)] = b
  BY DEF Position, Range
<1>3. ASSUME NEW k \in DOMAIN links
      PROVE  links[k] \in Range(links) /\ Position(links[k]) = k
  BY <1>2 DEF Listed, Range
<1> QED BY <1>1, <1>2, <1>3

(* Two blocks have one place only if they are one.                         *)
LEMMA Apart ==
  ASSUME Listed
  PROVE  \A a, b \in Range(links) : Position(a) \in Nat /\ (Position(a) = Position(b) => a = b)
BY Places

(* A function to naturals has a least value on a set that is not empty...  *)
LEMMA Least ==
  ASSUME NEW S, S # {}, NEW f \in [S -> Nat]
  PROVE  \E a \in S : \A x \in S : f[a] <= f[x]
<1> DEFINE V == {f[x] : x \in S}
<1>1. V \subseteq Nat /\ V # {}
  OBVIOUS
<1>2. PICK v \in V : \A w \in V : ~ (<<w, v>> \in OpToRel(<, Nat))
  BY <1>1, WFMin, NatLessThanWellFounded
<1>3. \A w \in Nat : w < v => <<w, v>> \in OpToRel(<, Nat)
  BY <1>1 DEF OpToRel
<1>4. \A w \in V : ~ (w < v)
  BY <1>1, <1>2, <1>3, Zenon
<1>5. \A w \in V : v <= w
  BY <1>1, <1>4
<1> QED BY <1>5

(* ... and a greatest, if it is bounded.                                   *)
LEMMA Greatest ==
  ASSUME NEW S, S # {}, NEW n \in Nat, NEW f \in [S -> 0 .. n]
  PROVE  \E a \in S : \A x \in S : f[x] <= f[a]
<1> DEFINE g == [x \in S |-> n - f[x]]
<1>1. g \in [S -> Nat]
  OBVIOUS
<1>2. PICK a \in S : \A x \in S : g[a] <= g[x]
  BY <1>1, Least
<1>3. \A x \in S : f[x] <= f[a]
  BY <1>2
<1> QED BY <1>3

(* What FirstOf and LastOf choose: the one block there is to choose.       *)
LEMMA FirstOfIs ==
  ASSUME Listed, NEW S \in SUBSET Range(links), S # {}
  PROVE  /\ FirstOf(S) \in S /\ \A x \in S : Position(FirstOf(S)) <= Position(x)
         /\ \A a \in S : (\A x \in S : Position(a) <= Position(x)) => a = FirstOf(S)
<1> DEFINE f == [x \in S |-> Position(x)]
<1>1. f \in [S -> Nat]
  BY Apart
<1>2. PICK a \in S : \A x \in S : f[a] <= f[x]
  BY <1>1, Least
<1>3. \A x \in S : Position(a) <= Position(x)
  BY <1>2
<1>4. FirstOf(S) \in S /\ \A x \in S : Position(FirstOf(S)) <= Position(x)
  BY <1>3 DEF FirstOf
<1>5. \A b \in S : (\A x \in S : Position(b) <= Position(x)) => b = FirstOf(S)
  BY <1>4, Apart
<1> QED BY <1>4, <1>5

LEMMA LastOfIs ==
  ASSUME Listed, NEW S \in SUBSET Range(links), S # {}
  PROVE  /\ LastOf(S) \in S /\ \A x \in S : Position(x) <= Position(LastOf(S))
         /\ \A a \in S : (\A x \in S : Position(x) <= Position(a)) => a = LastOf(S)
<1> DEFINE f == [x \in S |-> Position(x)]
<1>1. f \in [S -> 0 .. Len(links)] /\ Len(links) \in Nat
  BY Places
<1>2. PICK a \in S : \A x \in S : f[x] <= f[a]
  BY <1>1, Greatest
<1>3. \A x \in S : Position(x) <= Position(a)
  BY <1>2
<1>4. LastOf(S) \in S /\ \A x \in S : Position(x) <= Position(LastOf(S))
  BY <1>3 DEF LastOf
<1>5. \A b \in S : (\A x \in S : Position(x) <= Position(b)) => b = LastOf(S)
  BY <1>4, Apart
<1> QED BY <1>4, <1>5

(* One block more in a pipeline: the block after it, or the end, and no    *)
(* other, sees it.                                                         *)
LEMMA Inserted ==
  ASSUME Listed, NEW S \in SUBSET Range(links), NEW b \in Range(links) \ S
  PROVE  /\ \A x \in S :
              UpIn(S \cup {b}, x) = IF AfterIn(S, b) # {} /\ x = FirstOf(AfterIn(S, b)) THEN b ELSE UpIn(S, x)
         /\ UpIn(S \cup {b}, b) = UpIn(S, b)
         /\ EndOf(S \cup {b}) = IF AfterIn(S, b) = {} THEN b ELSE EndOf(S)
         /\ AfterIn(S, b) # {} => FirstOf(AfterIn(S, b)) \in S /\ UpIn(S, FirstOf(AfterIn(S, b))) = UpIn(S, b)
         /\ AfterIn(S, b) = {} => EndOf(S) = UpIn(S, b)
<1> DEFINE T == S \cup {b}
           A == AfterIn(S, b)
<1>1. T \in SUBSET Range(links) /\ A \in SUBSET Range(links) /\ A \subseteq S /\ b \notin S
  BY DEF AfterIn
<1>2. \A x, y \in T : Position(x) \in Nat /\ (Position(x) = Position(y) => x = y)
  BY <1>1, Apart
<1>3. UpIn(T, b) = UpIn(S, b)
  <2>1. BeforeIn(T, b) = BeforeIn(S, b)
    BY <1>2 DEF BeforeIn
  <2> QED BY <2>1 DEF UpIn
<1>4. ASSUME NEW x \in S, Position(x) < Position(b)
      PROVE  UpIn(T, x) = UpIn(S, x) /\ x \notin A
  <2>1. BeforeIn(T, x) = BeforeIn(S, x)
    BY <1>2, <1>4 DEF BeforeIn
  <2> QED BY <1>2, <1>4, <2>1 DEF UpIn, AfterIn
<1>5. ASSUME A # {}
      PROVE  FirstOf(A) \in S /\ UpIn(T, FirstOf(A)) = b /\ UpIn(S, FirstOf(A)) = UpIn(S, b)
  <2> DEFINE f == FirstOf(A)
  <2>1. f \in A /\ f \in S /\ \A x \in A : Position(f) <= Position(x)
    BY <1>1, <1>5, FirstOfIs
  <2>2. \A x \in S : Position(x) < Position(f) <=> Position(x) < Position(b)
    BY <1>1, <1>2, <2>1 DEF AfterIn
  <2>3. BeforeIn(S, f) = BeforeIn(S, b)
    BY <2>2 DEF BeforeIn
  <2>4. BeforeIn(T, f) = BeforeIn(S, b) \cup {b}
    BY <2>1, <2>2 DEF BeforeIn, AfterIn
  <2>5. /\ BeforeIn(T, f) \in SUBSET Range(links) /\ b \in BeforeIn(T, f)
        /\ \A x \in BeforeIn(T, f) : Position(x) <= Position(b)
    BY <1>1, <1>2, <2>4 DEF BeforeIn
  <2>6. LastOf(BeforeIn(T, f)) = b
    BY <2>5, LastOfIs
  <2> QED BY <2>1, <2>3, <2>5, <2>6 DEF UpIn
<1>6. ASSUME NEW x \in A, x # FirstOf(A)
      PROVE  UpIn(T, x) = UpIn(S, x)
  <2> DEFINE f == FirstOf(A)
             l == LastOf(BeforeIn(S, x))
  <2>1. f \in A /\ Position(f) < Position(x) /\ Position(b) < Position(f)
    BY <1>1, <1>2, <1>6, FirstOfIs DEF AfterIn
  <2>2. f \in BeforeIn(S, x) /\ BeforeIn(S, x) \in SUBSET Range(links)
    BY <1>1, <2>1 DEF BeforeIn
  <2>3. l \in BeforeIn(S, x) /\ \A y \in BeforeIn(S, x) : Position(y) <= Position(l)
    BY <2>2, LastOfIs
  <2>4. BeforeIn(T, x) = BeforeIn(S, x) \cup {b}
    BY <1>1, <1>2, <2>1 DEF BeforeIn
  <2>5. Position(b) <= Position(l)
    BY <1>1, <1>2, <2>1, <2>2, <2>3 DEF BeforeIn
  <2>6. /\ BeforeIn(T, x) \in SUBSET Range(links) /\ l \in BeforeIn(T, x)
        /\ \A y \in BeforeIn(T, x) : Position(y) <= Position(l)
    BY <1>1, <2>2, <2>3, <2>4, <2>5
  <2>7. LastOf(BeforeIn(T, x)) = l
    BY <2>6, LastOfIs
  <2> QED BY <2>2, <2>6, <2>7 DEF UpIn
<1>7. \A x \in S : UpIn(T, x) = IF A # {} /\ x = FirstOf(A) THEN b ELSE UpIn(S, x)
  <2> SUFFICES ASSUME NEW x \in S
               PROVE  UpIn(T, x) = IF A # {} /\ x = FirstOf(A) THEN b ELSE UpIn(S, x)
    OBVIOUS
  <2>1. CASE Position(x) < Position(b)
    BY <1>1, <1>4, <2>1, FirstOfIs
  <2>2. CASE x \in A
    BY <1>5, <1>6, <2>2
  <2>3. Position(x) < Position(b) \/ x \in A
    BY <1>1, <1>2 DEF AfterIn
  <2> QED BY <2>1, <2>2, <2>3
<1>8. CASE A = {}
  <2>1. \A x \in S : Position(x) < Position(b)
    BY <1>1, <1>2, <1>8 DEF AfterIn
  <2>2. \A x \in T : Position(x) <= Position(b)
    BY <1>2, <2>1
  <2>3. LastOf(T) = b
    BY <1>1, <2>2, LastOfIs
  <2>4. BeforeIn(S, b) = S
    BY <2>1 DEF BeforeIn
  <2> QED BY <1>3, <1>7, <1>8, <2>3, <2>4 DEF EndOf, UpIn
<1>9. CASE A # {}
  <2> DEFINE l == LastOf(S)
  <2>1. l \in S /\ \A x \in S : Position(x) <= Position(l)
    BY <1>1, <1>9, LastOfIs
  <2>2. \A x \in T : Position(x) <= Position(l)
    BY <1>1, <1>2, <1>9, <2>1 DEF AfterIn
  <2>3. LastOf(T) = l
    BY <1>1, <2>1, <2>2, LastOfIs
  <2> QED BY <1>1, <1>3, <1>5, <1>7, <1>9, <2>3 DEF EndOf
<1> QED BY <1>8, <1>9

(* An operation that leaves the list and the input alone leaves what the   *)
(* blocks of a pipeline should read.                                       *)
LEMMA SameList ==
  ASSUME UNCHANGED <<links, source>>
  PROVE  \A S, b : UpIn(S, b)' = UpIn(S, b) /\ EndOf(S)' = EndOf(S)
BY DEF UpIn, EndOf, BeforeIn, LastOf, Position

(* ... and so does one that keeps their order.                             *)
LEMMA SameOrder ==
  ASSUME NEW R, UNCHANGED source,
         \A x, y \in R : /\ Position(x)' < Position(y)' <=> Position(x) < Position(y)
                         /\ Position(x)' <= Position(y)' <=> Position(x) <= Position(y)
  PROVE  \A S \in SUBSET R : EndOf(S)' = EndOf(S) /\ \A b \in R : UpIn(S, b)' = UpIn(S, b)
<1>1. ASSUME NEW S \in SUBSET R
      PROVE  (CHOOSE a \in S : \A x \in S : Position(x)' <= Position(a)') = LastOf(S)
  BY <1>1 DEF LastOf
<1>2. ASSUME NEW S \in SUBSET R
      PROVE  EndOf(S)' = EndOf(S)
  <2>1. EndOf(S)' = IF S = {} THEN source ELSE CHOOSE a \in S : \A x \in S : Position(x)' <= Position(a)'
    BY DEF EndOf, LastOf
  <2> QED BY <1>1, <2>1 DEF EndOf
<1>3. ASSUME NEW S \in SUBSET R, NEW b \in R
      PROVE  UpIn(S, b)' = UpIn(S, b)
  <2> DEFINE B == BeforeIn(S, b)
  <2>1. BeforeIn(S, b)' = B
    BY DEF BeforeIn
  <2>2. B \in SUBSET R
    BY DEF BeforeIn
  <2> HIDE DEF B
  <2>3. UpIn(S, b)' = IF B = {} THEN source ELSE CHOOSE a \in B : \A x \in B : Position(x)' <= Position(a)'
    BY <2>1 DEF UpIn, LastOf
  <2> QED BY <1>1, <2>2, <2>3 DEF B, UpIn
<1> QED BY <1>2, <1>3

(* A block is put at the end of the list.                                  *)
LEMMA Appended ==
  ASSUME Listed, NEW b \in Blocks \ Range(links), links' = Append(links, b)
  PROVE  /\ Listed' /\ Range(links') = Range(links) \cup {b}
         /\ Position(b)' \in Nat /\ \A x \in Range(links) : Position(x)' \in Nat /\ Position(x)' < Position(b)'
         /\ \A x, y \in Range(links) : /\ Position(x)' < Position(y)' <=> Position(x) < Position(y)
                                       /\ Position(x)' <= Position(y)' <=> Position(x) <= Position(y)
<1> DEFINE n == Len(links)
<1>1. /\ links' \in Seq(Blocks) /\ DOMAIN links' = 1 .. n + 1 /\ links'[n + 1] = b /\ n \in Nat
      /\ \A i \in 1 .. n : links'[i] = links[i]
  BY AppendProperties DEF Listed
<1>2. DOMAIN links = 1 .. n
  BY Places
<1>3. Listed'
  BY <1>1, <1>2 DEF Listed, Range
<1>4. Range(links') = Range(links) \cup {b}
  BY <1>1, <1>2 DEF Range
<1>5. ASSUME NEW x, NEW k \in DOMAIN links', links'[k] = x
      PROVE  Position(x)' = k
  BY <1>3, <1>5 DEF Listed, Position
<1>6. Position(b)' = n + 1
  BY <1>1, <1>5
<1>7. ASSUME NEW x \in Range(links)
      PROVE  Position(x)' = Position(x) /\ Position(x) \in 1 .. n
  <2>1. Position(x) \in 1 .. n /\ links[Position(x)] = x
    BY <1>2, Places
  <2> QED BY <1>1, <1>5, <2>1
<1> QED BY <1>1, <1>3, <1>4, <1>6, <1>7

(* What a block reads is the end of what is before it, after a step too.   *)
LEMMA UpIsEnd ==
  ASSUME NEW S, NEW b, NEW B, BeforeIn(S, b)' = B
  PROVE  UpIn(S, b)' = EndOf(B)'
<1>1. UpIn(S, b)' = IF B = {} THEN source' ELSE CHOOSE a \in B : \A x \in B : Position(x)' <= Position(a)'
  BY DEF UpIn, LastOf
<1>2. EndOf(B)' = IF B = {} THEN source' ELSE CHOOSE a \in B : \A x \in B : Position(x)' <= Position(a)'
  BY DEF EndOf, LastOf
<1> QED BY <1>1, <1>2

(* Enabled, it reads what was the end of the pipeline, and is the new end. *)
LEMMA AppendedPath ==
  ASSUME Listed, NEW b \in Blocks \ Range(links), links' = Append(links, b), source' = source,
         NEW S \in SUBSET Range(links)
  PROVE  /\ \A x \in S : UpIn(S \cup {b}, x)' = UpIn(S, x)
         /\ UpIn(S \cup {b}, b)' = EndOf(S) /\ EndOf(S \cup {b})' = b
<1> DEFINE T == S \cup {b}
<1>1. /\ Position(b)' \in Nat /\ \A x \in Range(links) : Position(x)' \in Nat /\ Position(x)' < Position(b)'
      /\ \A x, y \in Range(links) : /\ Position(x)' < Position(y)' <=> Position(x) < Position(y)
                                    /\ Position(x)' <= Position(y)' <=> Position(x) <= Position(y)
  BY Appended
<1>2. \A x \in S : UpIn(S, x)' = UpIn(S, x)
  BY <1>1, SameOrder
<1>3. EndOf(S)' = EndOf(S)
  BY <1>1, SameOrder
<1>4. ASSUME NEW x \in S
      PROVE  UpIn(T, x)' = UpIn(S, x)
  <2>1. BeforeIn(T, x)' = BeforeIn(S, x)'
    BY <1>1 DEF BeforeIn
  <2>2. PICK B : B = BeforeIn(S, x)'
    OBVIOUS
  <2>3. UpIn(T, x)' = EndOf(B)' /\ UpIn(S, x)' = EndOf(B)'
    BY <2>1, <2>2, UpIsEnd
  <2> QED BY <1>2, <2>3
<1>5. UpIn(T, b)' = EndOf(S)
  <2>1. BeforeIn(T, b)' = S
    BY <1>1 DEF BeforeIn
  <2>2. UpIn(T, b)' = EndOf(S)'
    BY <2>1, UpIsEnd
  <2> QED BY <1>3, <2>2
<1>6. EndOf(T)' = b
  <2>1. \A a \in T : (\A x \in T : Position(x)' <= Position(a)') <=> a = b
    BY <1>1
  <2>2. (CHOOSE a \in T : \A x \in T : Position(x)' <= Position(a)') = b
    BY <2>1
  <2> QED BY <2>2 DEF EndOf, LastOf
<1> QED BY <1>4, <1>5, <1>6

(* RemoveFirst takes out the place of the block.                           *)
LEMMA RemoveFirstIs ==
  ASSUME NEW S, NEW s \in Seq(S), NEW k \in DOMAIN s, \A i \in DOMAIN s : s[i] = s[k] => i = k
  PROVE  /\ RemoveFirst(s, s[k]) \in Seq(S) /\ Len(RemoveFirst(s, s[k])) = Len(s) - 1
         /\ \A i \in 1 .. Len(s) - 1 : RemoveFirst(s, s[k])[i] = IF i < k THEN s[i] ELSE s[i + 1]
<1> DEFINE I == {i \in 1 .. Len(s) : s[i] = s[k]}
<1>1. I = {k} /\ k \in 1 .. Len(s)
  OBVIOUS
<1>2. Min(I) = k
  BY <1>1 DEF Min
<1>3. SelectInSeq(s, LAMBDA v : v = s[k]) = IF I # {} THEN Min(I) ELSE 0
  BY DEF SelectInSeq
<1> HIDE DEF I
<1>4. RemoveFirst(s, s[k]) = RemoveAt(s, SelectInSeq(s, LAMBDA v : v = s[k]))
  BY <1>1 DEF RemoveFirst
<1>5. RemoveFirst(s, s[k]) = SubSeq(s, 1, k - 1) \o SubSeq(s, k + 1, Len(s))
  BY <1>1, <1>2, <1>3, <1>4 DEF RemoveAt
<1> DEFINE p == SubSeq(s, 1, k - 1)
           q == SubSeq(s, k + 1, Len(s))
<1>6. /\ p \in Seq(S) /\ Len(p) = k - 1 /\ \A i \in 1 .. k - 1 : p[i] = s[i]
      /\ q \in Seq(S) /\ Len(q) = Len(s) - k /\ \A i \in 1 .. Len(s) - k : q[i] = s[k + i]
  BY <1>1, SubSeqProperties
<1> HIDE DEF p, q
<1>7. /\ p \o q \in Seq(S) /\ Len(p \o q) = Len(s) - 1
      /\ \A i \in 1 .. Len(s) - 1 : (p \o q)[i] = IF i < k THEN s[i] ELSE s[i + 1]
  <2>1. /\ p \o q \in Seq(S) /\ Len(p \o q) = Len(p) + Len(q)
        /\ \A i \in 1 .. Len(p) + Len(q) : (p \o q)[i] = IF i <= Len(p) THEN p[i] ELSE q[i - Len(p)]
    BY <1>6, ConcatProperties
  <2>2. ASSUME NEW i \in 1 .. Len(s) - 1
        PROVE  (p \o q)[i] = IF i < k THEN s[i] ELSE s[i + 1]
    <3>1. CASE i < k
      <4>1. i \in 1 .. k - 1 /\ i \in 1 .. Len(p) + Len(q) /\ i <= Len(p)
        BY <1>1, <1>6, <3>1
      <4>2. (p \o q)[i] = p[i]
        BY <2>1, <4>1
      <4> QED BY <1>6, <3>1, <4>1, <4>2
    <3>2. CASE ~(i < k)
      <4>1. i \in 1 .. Len(p) + Len(q) /\ ~(i <= Len(p))
        BY <1>1, <1>6, <3>2
      <4>2. PICK m : m = i - Len(p)
        OBVIOUS
      <4>3. m \in 1 .. Len(s) - k /\ k + m = i + 1
        BY <1>1, <1>6, <3>2, <4>2
      <4>4. (p \o q)[i] = q[m]
        BY <2>1, <4>1, <4>2
      <4>5. q[m] = s[k + m]
        BY <1>6, <4>3
      <4> QED BY <3>2, <4>3, <4>4, <4>5
    <3> QED BY <3>1, <3>2
  <2>3. Len(p \o q) = Len(s) - 1
    BY <1>1, <1>6, <2>1
  <2> QED BY <2>1, <2>2, <2>3
<1> QED BY <1>5, <1>7 DEF p, q

(* A block is taken off the list: the others keep their order.             *)
LEMMA Removed ==
  ASSUME Listed, NEW b \in Range(links), links' = RemoveFirst(links, b)
  PROVE  /\ Listed' /\ Range(links') = Range(links) \ {b}
         /\ \A x, y \in Range(links) \ {b} : /\ Position(x)' < Position(y)' <=> Position(x) < Position(y)
                                             /\ Position(x)' <= Position(y)' <=> Position(x) <= Position(y)
<1> DEFINE n == Len(links)
           k == Position(b)
<1>1. /\ DOMAIN links = 1 .. n /\ n \in Nat /\ k \in 1 .. n /\ links[k] = b
      /\ \A i \in 1 .. n : links[i] = b => i = k
  BY Places
<1>2. /\ links' \in Seq(Blocks) /\ Len(links') = n - 1
      /\ \A i \in 1 .. n - 1 : links'[i] = IF i < k THEN links[i] ELSE links[i + 1]
  <2>1. links \in Seq(Blocks) /\ k \in DOMAIN links /\ \A i \in DOMAIN links : links[i] = links[k] => i = k
    BY <1>1 DEF Listed
  <2>2. links' = RemoveFirst(links, links[k])
    BY <1>1
  <2> HIDE DEF k
  <2> QED BY <2>1, <2>2, RemoveFirstIs
<1>3. DOMAIN links' = 1 .. n - 1
  BY <1>1, <1>2
<1>4. Listed'
  <2> SUFFICES ASSUME NEW i \in DOMAIN links', NEW j \in DOMAIN links', links'[i] = links'[j]
               PROVE  i = j
    BY <1>2 DEF Listed
  <2> DEFINE Old(m) == IF m < k THEN m ELSE m + 1
  <2>1. \A m \in 1 .. n - 1 : Old(m) \in DOMAIN links /\ links'[m] = links[Old(m)]
    BY <1>1, <1>2
  <2>2. Old(i) = Old(j)
    BY <1>3, <2>1 DEF Listed
  <2> QED BY <1>1, <1>3, <2>2
<1>5. ASSUME NEW x, NEW i \in DOMAIN links', links'[i] = x
      PROVE  Position(x)' = i
  BY <1>4, <1>5 DEF Listed, Position
<1>6. ASSUME NEW x \in Range(links) \ {b}
      PROVE  /\ Position(x) \in Nat /\ Position(x) # k /\ x \in Range(links')
             /\ Position(x)' = IF Position(x) < k THEN Position(x) ELSE Position(x) - 1
  <2> DEFINE i == Position(x)
             j == IF i < k THEN i ELSE i - 1
  <2>1. i \in 1 .. n /\ links[i] = x /\ i # k
    BY <1>1, Places
  <2>2. j \in DOMAIN links' /\ links'[j] = x
    BY <1>1, <1>2, <1>3, <2>1
  <2> QED BY <1>5, <2>1, <2>2 DEF Range
<1>7. Range(links') \subseteq Range(links) \ {b}
  <2> SUFFICES ASSUME NEW i \in DOMAIN links'
               PROVE  links'[i] \in Range(links) \ {b}
    BY DEF Range
  <2> QED BY <1>1, <1>2, <1>3 DEF Range
<1> QED BY <1>1, <1>4, <1>6, <1>7

-----------------------------------------------------------------------------
LEMMA ChainInitInv == ChainInit => ChainInv
<1> SUFFICES ASSUME ChainInit PROVE ChainInv
  OBVIOUS
<1>1. Listed /\ Range(links) = {}
  BY DEF ChainInit, Listed, Range
<1>2. ChainTypes
  BY <1>1, NamesAssumption DEF ChainInit, ChainTypes, Streams, Idle
<1> QED BY <1>1, <1>2 DEF ChainInit, ChainInv, Connected, RunsAlways, Path, Idle, EndOf

(* Connected after a step, from the blocks of the pipeline there will be.  *)
LEMMA ConnectedAfter ==
  ASSUME NEW T, Path' = T, out' = EndOf(T)', consumer' \in {out', "none"},
         \A x \in T : input'[x] = UpIn(T, x)' \/ (call' = "connect" /\ x = arg')
  PROVE  Connected'
<1>1. \A x \in T : UpIn(Path, x)' = UpIn(T, x)'
  BY DEF UpIn, BeforeIn, LastOf
<1>2. EndOf(Path)' = EndOf(T)'
  BY DEF EndOf, LastOf
<1> QED BY <1>1, <1>2 DEF Connected

(* A block is added at the end, enabled or not.                            *)
LEMMA AddBlockInv ==
  ASSUME ChainInv, NEW b \in Blocks, NEW enable \in BOOLEAN, AddBlock(b, enable)
  PROVE  ChainInv'
<1>1. PICK S : S = enabled
  OBVIOUS
<1>2. /\ Listed' /\ Range(links') = Range(links) \cup {b} /\ b \in Blocks \ Range(links)
      /\ links' = Append(links, b) /\ source' = source /\ Listed
  BY Appended DEF ChainInv, AddBlock
<1>3. S \in SUBSET Range(links) /\ Range(links) \subseteq Blocks /\ Path = S
  BY <1>1, Places DEF ChainInv, ChainTypes, AddBlock, Path
<1>4. out = EndOf(S) /\ out \in Streams /\ \A x \in S : input[x] = UpIn(S, x)
  <2>1. out = EndOf(S) /\ \A x \in S : input[x] = UpIn(S, x)
    BY <1>3 DEF ChainInv, Connected, AddBlock, Idle
  <2> QED BY <1>3, <2>1, LastOfIs DEF ChainInv, ChainTypes, EndOf, Streams
<1>5. ChainTypes'
  BY <1>1, <1>2, <1>3, <1>4 DEF ChainInv, ChainTypes, AddBlock, Idle
<1>6. RunsAlways'
  BY DEF ChainInv, RunsAlways, AddBlock
<1>7. CASE ~enable
  <2>1. Path' = S /\ UNCHANGED <<input, out, consumer>>
    BY <1>1, <1>7 DEF AddBlock, Path, Idle
  <2>2. EndOf(S)' = EndOf(S) /\ \A x \in S : UpIn(S, x)' = UpIn(S, x)
    <3>1. \A x, y \in Range(links) : /\ Position(x)' < Position(y)' <=> Position(x) < Position(y)
                                     /\ Position(x)' <= Position(y)' <=> Position(x) <= Position(y)
      BY <1>2, Appended
    <3> QED BY <1>2, <1>3, <3>1, SameOrder
  <2>3. Connected'
    BY <1>4, <2>1, <2>2, ConnectedAfter DEF ChainInv, Connected
  <2> QED BY <1>2, <1>5, <1>6, <2>3 DEF ChainInv
<1>8. CASE enable
  <2>1. /\ Path' = S \cup {b} /\ input' = [input EXCEPT ![b] = out] /\ out' = b /\ consumer' = "none"
    BY <1>1, <1>8 DEF AddBlock, Path, Idle
  <2>2. /\ \A x \in S : UpIn(S \cup {b}, x)' = UpIn(S, x)
        /\ UpIn(S \cup {b}, b)' = EndOf(S) /\ EndOf(S \cup {b})' = b
    BY <1>2, <1>3, AppendedPath
  <2>3. input'[b] = out /\ \A x \in S : x # b /\ input'[x] = input[x]
    BY <1>2, <1>3, <2>1 DEF ChainInv, ChainTypes
  <2>4. Connected'
    BY <1>4, <2>1, <2>2, <2>3, ConnectedAfter
  <2> QED BY <1>2, <1>5, <1>6, <2>4 DEF ChainInv
<1> QED BY <1>7, <1>8

(* The steps that change neither the pipeline nor who reads what: the      *)
(* consumer comes, the chain is started or stopped, a block is disabled    *)
(* (its reader still reads its output).                                    *)
LEMMA UnwiredInv ==
  ASSUME ChainInv, Attach \/ StartBlock \/ Start \/ Stop \/ (\E b \in Blocks, f \in BOOLEAN : Disable(b, f))
                   \/ UNCHANGED chainVars
  PROVE  ChainInv'
<1>1. PICK T : T = Path
  OBVIOUS
<1>2. UNCHANGED <<links, source, input, out>> /\ Path' = T /\ consumer' \in {out', "none"}
  BY <1>1 DEF ChainInv, ChainTypes, Connected, Path, Idle, Done, Attach, StartBlock, Start, Stop, Disable, chainVars
<1>3. Listed' /\ RunsAlways'
  <2>1. Listed'
    BY DEF ChainInv, Listed, Attach, StartBlock, Start, Stop, Disable, chainVars
  <2>2. CASE StartBlock \/ Start \/ Stop
    BY <2>1, <2>2 DEF ChainInv, ChainTypes, RunsAlways, StartBlock, Start, Stop
  <2>3. CASE Attach \/ UNCHANGED chainVars
    BY <2>1, <2>3 DEF ChainInv, RunsAlways, Attach, chainVars
  <2>4. CASE \E b \in Blocks, f \in BOOLEAN : Disable(b, f)
    BY <2>1, <2>4 DEF ChainInv, ChainTypes, RunsAlways, Disable
  <2> QED BY <2>1, <2>2, <2>3, <2>4
<1>4. ChainTypes'
  BY DEF ChainInv, ChainTypes, Idle, Done, Attach, StartBlock, Start, Stop, Disable, chainVars
<1>5. EndOf(T)' = EndOf(T) /\ \A x \in T : UpIn(T, x)' = UpIn(T, x)
  BY <1>2, SameList
<1>6. out = EndOf(T) /\ \A x \in T : input[x] = UpIn(T, x) \/ (call = "connect" /\ x = arg)
  BY <1>1 DEF ChainInv, Connected
<1>7. call = "connect" => call' = "connect" /\ arg' = arg
  BY DEF Attach, StartBlock, Start, Stop, Disable, chainVars, Idle
<1>8. Connected'
  BY <1>2, <1>5, <1>6, <1>7, ConnectedAfter
<1> QED BY <1>3, <1>4, <1>8 DEF ChainInv

(* Another input: it is the first block that reads it.                     *)
LEMMA SetInputInv ==
  ASSUME ChainInv, NEW s \in Sources, SetInput(s)
  PROVE  ChainInv'
<1>1. PICK S : S = enabled
  OBVIOUS
<1>2. /\ Path = S /\ Path' = S /\ S \in SUBSET Range(links) /\ Listed /\ Range(links) \subseteq Blocks
      /\ UNCHANGED <<links, call, arg, enabled>> /\ source' = s /\ Idle
  BY <1>1, Places DEF ChainInv, ChainTypes, Path, Idle, SetInput
<1>3. Listed' /\ RunsAlways' /\ ChainTypes'
  BY <1>1, <1>2 DEF ChainInv, Listed, RunsAlways, ChainTypes, SetInput, Idle, Streams
<1>4. out = EndOf(S) /\ consumer \in {out, "none"} /\ \A x \in S : input[x] = UpIn(S, x)
  BY <1>2 DEF ChainInv, Connected, Idle
<1>5. CASE S = {}
  <2>1. out' = EndOf(S)' /\ consumer' = out'
    BY <1>1, <1>2, <1>5 DEF SetInput, EndOf
  <2>2. Connected'
    BY <1>2, <1>5, <2>1, ConnectedAfter
  <2> QED BY <1>3, <2>2 DEF ChainInv
<1>6. CASE S # {}
  <2>1. /\ FirstOf(S) \in S /\ input' = [input EXCEPT ![FirstOf(S)] = s] /\ UNCHANGED <<out, consumer>>
        /\ FirstOf(S) \in DOMAIN input
    BY <1>1, <1>2, <1>6, FirstOfIs DEF SetInput, ChainInv, ChainTypes
  <2>2. EndOf(S)' = EndOf(S)
    BY <1>2, <1>6 DEF EndOf, LastOf, Position
  <2>3. ASSUME NEW x \in S
        PROVE  input'[x] = UpIn(S, x)'
    <3>1. BeforeIn(S, x) = {} <=> x = FirstOf(S)
      BY <1>2, <1>6, FirstOfIs, Apart DEF BeforeIn
    <3>2. PICK B : B = BeforeIn(S, x)
      OBVIOUS
    <3>3. BeforeIn(S, x)' = B
      BY <1>2, <3>2 DEF BeforeIn, Position
    <3>4. UpIn(S, x)' = EndOf(B)'
      BY <3>3, UpIsEnd
    <3>5. EndOf(B)' = IF B = {} THEN s ELSE LastOf(B)
      BY <1>2 DEF EndOf, LastOf, Position
    <3>6. UpIn(S, x) = IF B = {} THEN source ELSE LastOf(B)
      BY <3>2 DEF UpIn
    <3> QED BY <1>2, <1>4, <2>1, <3>1, <3>2, <3>4, <3>5, <3>6
  <2>4. Connected'
    BY <1>2, <1>4, <2>1, <2>2, <2>3, ConnectedAfter
  <2> QED BY <1>3, <2>4 DEF ChainInv
<1> QED BY <1>5, <1>6

(* enableBlock(), first step: the reader that b will have reads b.         *)
LEMMA EnableInv ==
  ASSUME ChainInv, NEW b \in Blocks, Enable(b)
  PROVE  ChainInv'
<1>1. PICK S : S = enabled
  OBVIOUS
<1> DEFINE A == AfterIn(S, b)
           T == S \cup {b}
<1>2. /\ Path = S /\ Path' = T /\ S \in SUBSET Range(links) /\ Listed /\ Range(links) \subseteq Blocks
      /\ b \in Range(links) \ S /\ call' = "connect" /\ arg' = b /\ After(b) = A
      /\ UNCHANGED <<source, links, enabled, running, started>> /\ Redirect(b, b) /\ consumer # "none" /\ Idle
  BY <1>1, Places DEF ChainInv, ChainTypes, Path, Idle, Enable, After, AfterIn
<1>3. /\ \A x \in S : UpIn(T, x) = IF A # {} /\ x = FirstOf(A) THEN b ELSE UpIn(S, x)
      /\ EndOf(T) = IF A = {} THEN b ELSE EndOf(S)
      /\ A # {} => FirstOf(A) \in S
  BY <1>2, Inserted
<1>4. EndOf(T)' = EndOf(T) /\ \A x \in T : UpIn(T, x)' = UpIn(T, x)
  BY <1>2, SameList
<1>5. out = EndOf(S) /\ consumer = out /\ \A x \in S : input[x] = UpIn(S, x)
  BY <1>2 DEF ChainInv, Connected, Idle
<1>6. /\ out' = (IF A = {} THEN b ELSE out) /\ consumer' = out' /\ input' \in [Blocks -> Streams]
      /\ \A x \in S : input'[x] = IF A # {} /\ x = FirstOf(A) THEN b ELSE input[x]
  BY <1>2, <1>3, <1>5 DEF Redirect, ChainInv, ChainTypes, Streams
<1>7. Connected'
  <2> HIDE DEF A, T
  <2>1. \A x \in T : x \in S \/ x = b
    BY DEF T
  <2> QED BY <1>2, <1>3, <1>4, <1>5, <1>6, <2>1, ConnectedAfter
<1>8. consumer' # "none"
  <2>1. out \in Streams \/ A = {}
    BY <1>2, <1>5, LastOfIs DEF EndOf, Streams, ChainInv, ChainTypes
  <2> QED BY <1>2, <1>5, <1>6, NamesAssumption
<1>9. ChainTypes'
  BY <1>1, <1>2, <1>6, <1>8 DEF ChainInv, ChainTypes, Idle
<1> QED BY <1>2, <1>7, <1>9 DEF ChainInv, Listed, RunsAlways

(* enableBlock(), second step: b reads what is before it.                  *)
LEMMA ConnectInv ==
  ASSUME ChainInv, Connect
  PROVE  ChainInv'
<1>1. PICK S, b, T : S = enabled /\ b = arg /\ T = S \cup {b}
  OBVIOUS
<1>2. /\ Path = T /\ Path' = T /\ S \in SUBSET Range(links) /\ Listed /\ Range(links) \subseteq Blocks
      /\ b \in Range(links) \ S /\ UNCHANGED <<source, links, enabled, running, started, out, consumer, arg>>
      /\ call = "connect" /\ call' = "start"
  BY <1>1, Places DEF ChainInv, ChainTypes, Path, Idle, Connect
<1>3. Upstream(b) = UpIn(S, b) /\ UpIn(S, b) = UpIn(T, b)
  <2>1. UpIn(T, b) = UpIn(S, b)
    BY <1>1, <1>2, Inserted
  <2> QED BY <1>1, <2>1 DEF Upstream, Before, UpIn, BeforeIn
<1>4. EndOf(T)' = EndOf(T) /\ \A x \in T : UpIn(T, x)' = UpIn(T, x)
  BY <1>2, SameList
<1>5. out = EndOf(T) /\ consumer \in {out, "none"} /\ \A x \in T : x # b => input[x] = UpIn(T, x)
  BY <1>1, <1>2 DEF ChainInv, Connected
<1>6. input' = [input EXCEPT ![b] = UpIn(T, b)] /\ UpIn(T, b) \in Streams
  <2>1. BeforeIn(S, b) \in SUBSET Range(links)
    BY <1>2 DEF BeforeIn
  <2>2. UpIn(S, b) \in Streams
    BY <1>2, <2>1, LastOfIs DEF UpIn, ChainInv, ChainTypes, Streams
  <2> QED BY <1>1, <1>3, <2>2 DEF Connect
<1>7. input' \in [Blocks -> Streams] /\ \A x \in T : input'[x] = UpIn(T, x)
  BY <1>1, <1>2, <1>5, <1>6 DEF ChainInv, ChainTypes
<1>8. Connected'
  BY <1>2, <1>4, <1>5, <1>7, ConnectedAfter
<1>9. ChainTypes'
  BY <1>1, <1>2, <1>7 DEF ChainInv, ChainTypes, Idle
<1> QED BY <1>2, <1>8, <1>9 DEF ChainInv, Listed, RunsAlways

(* disableBlock(), second step: the reader of b reads what b was reading,  *)
(* and removeBlock() takes b off the list.                                 *)
LEMMA BypassInv ==
  ASSUME ChainInv, Bypass
  PROVE  ChainInv'
<1>1. PICK S, b, T, A : S = enabled /\ b = arg /\ T = S \cup {b} /\ A = AfterIn(S, b)
  OBVIOUS
<1>2. /\ Path = T /\ Path' = S /\ S \in SUBSET Range(links) /\ Listed /\ Range(links) \subseteq Blocks
      /\ b \in Range(links) \ S /\ UNCHANGED <<source, enabled, running, started>>
      /\ call # "connect" /\ call' = "none" /\ After(b) = A /\ Redirect(b, Upstream(b)) /\ consumer # "none"
  BY <1>1, Places DEF ChainInv, ChainTypes, Path, Idle, Done, Bypass, After, AfterIn
<1>3. Upstream(b) = UpIn(S, b)
  BY <1>1 DEF Upstream, Before, UpIn, BeforeIn
<1>4. /\ \A x \in S : UpIn(T, x) = IF A # {} /\ x = FirstOf(A) THEN b ELSE UpIn(S, x)
      /\ EndOf(T) = IF A = {} THEN b ELSE EndOf(S)
      /\ A # {} => FirstOf(A) \in S /\ UpIn(S, FirstOf(A)) = UpIn(S, b)
      /\ A = {} => EndOf(S) = UpIn(S, b)
  BY <1>1, <1>2, Inserted
<1>5. out = EndOf(T) /\ consumer = out /\ \A x \in S : input[x] = UpIn(T, x)
  BY <1>1, <1>2 DEF ChainInv, Connected
<1>6. UpIn(S, b) \in Streams
  <2>1. BeforeIn(S, b) \in SUBSET Range(links)
    BY <1>2 DEF BeforeIn
  <2> QED BY <1>2, <2>1, LastOfIs DEF UpIn, ChainInv, ChainTypes, Streams
<1>7. /\ out' = EndOf(S) /\ consumer' = out' /\ input' \in [Blocks -> Streams]
      /\ \A x \in S : input'[x] = UpIn(S, x)
  <2>1. CASE A = {}
    BY <1>2, <1>3, <1>4, <1>5, <2>1 DEF Redirect, ChainInv, ChainTypes
  <2>2. CASE A # {}
    <3>1. UNCHANGED <<out, consumer>> /\ input' = [input EXCEPT ![FirstOf(A)] = UpIn(S, b)]
      BY <1>2, <1>3, <2>2 DEF Redirect
    <3>2. input' \in [Blocks -> Streams] /\ FirstOf(A) \in Blocks /\ input \in [Blocks -> Streams]
      BY <1>2, <1>4, <1>6, <2>2, <3>1 DEF ChainInv, ChainTypes
    <3>3. \A x \in S : input'[x] = UpIn(S, x)
      BY <1>2, <1>4, <1>5, <2>2, <3>1, <3>2
    <3> QED BY <1>4, <1>5, <2>2, <3>1, <3>2, <3>3
  <2> QED BY <2>1, <2>2
<1>8. /\ Listed' /\ S \subseteq Range(links')
      /\ EndOf(S)' = EndOf(S) /\ \A x \in S : UpIn(S, x)' = UpIn(S, x)
  <2>1. CASE links' = links
    BY <1>2, <2>1, SameList DEF Listed
  <2>2. CASE links' = RemoveFirst(links, b)
    <3>1. /\ Listed' /\ Range(links') = Range(links) \ {b}
          /\ \A x, y \in Range(links) \ {b} : /\ Position(x)' < Position(y)' <=> Position(x) < Position(y)
                                              /\ Position(x)' <= Position(y)' <=> Position(x) <= Position(y)
      BY <1>2, <2>2, Removed
    <3>2. S \in SUBSET (Range(links) \ {b})
      BY <1>2
    <3> QED BY <1>2, <3>1, <3>2, SameOrder
  <2> QED BY <1>1, <2>1, <2>2 DEF Bypass
<1>9. Connected'
  BY <1>2, <1>7, <1>8, ConnectedAfter
<1>10. ChainTypes'
  BY <1>1, <1>2, <1>7, <1>8 DEF ChainInv, ChainTypes, Idle
<1> QED BY <1>2, <1>8, <1>9, <1>10 DEF ChainInv, RunsAlways

(* A disabled block is taken off the list.                                 *)
LEMMA RemoveDisabledInv ==
  ASSUME ChainInv, NEW b \in Blocks, RemoveDisabled(b)
  PROVE  ChainInv'
<1>1. PICK S : S = enabled
  OBVIOUS
<1>2. /\ Path = S /\ Path' = S /\ S \in SUBSET (Range(links) \ {b}) /\ Listed /\ b \in Range(links)
      /\ UNCHANGED <<source, enabled, running, started, input, out, consumer, call, arg>> /\ Idle
  BY <1>1 DEF ChainInv, ChainTypes, Path, Idle, RemoveDisabled
<1>3. /\ Listed' /\ Range(links') = Range(links) \ {b}
      /\ \A x, y \in Range(links) \ {b} : /\ Position(x)' < Position(y)' <=> Position(x) < Position(y)
                                          /\ Position(x)' <= Position(y)' <=> Position(x) <= Position(y)
  BY <1>2, Removed DEF RemoveDisabled
<1>4. EndOf(S)' = EndOf(S) /\ \A x \in S : UpIn(S, x)' = UpIn(S, x)
  BY <1>2, <1>3, SameOrder
<1>5. out = EndOf(S) /\ consumer \in {out, "none"} /\ \A x \in S : input[x] = UpIn(S, x)
  BY <1>2 DEF ChainInv, Connected, Idle
<1>6. Connected'
  BY <1>2, <1>4, <1>5, ConnectedAfter
<1>7. ChainTypes'
  BY <1>1, <1>2, <1>3 DEF ChainInv, ChainTypes, Idle
<1> QED BY <1>2, <1>3, <1>6, <1>7 DEF ChainInv, RunsAlways

LEMMA ChainNextInv == ChainInv /\ [ChainNext]_chainVars => ChainInv'
<1> SUFFICES ASSUME ChainInv, [ChainNext]_chainVars PROVE ChainInv'
  OBVIOUS
<1>1. CASE Attach \/ StartBlock \/ Start \/ Stop \/ UNCHANGED chainVars
  BY <1>1, UnwiredInv
<1>2. CASE Connect \/ Bypass
  BY <1>2, ConnectInv, BypassInv
<1>3. CASE \E s \in Sources : SetInput(s)
  BY <1>3, SetInputInv
<1>4. CASE \E b \in Blocks : Enable(b) \/ RemoveDisabled(b)
  BY <1>4, EnableInv, RemoveDisabledInv
<1>5. CASE \E b \in Blocks, flag \in BOOLEAN : AddBlock(b, flag)
  BY <1>5, AddBlockInv
<1>6. CASE \E b \in Blocks, flag \in BOOLEAN : Disable(b, flag)
  BY <1>6, UnwiredInv
<1> QED BY <1>1, <1>2, <1>3, <1>4, <1>5, <1>6 DEF ChainNext

LEMMA ChainInvariance == ChainSpec => []ChainInv
BY ChainInitInv, ChainNextInv, PTL DEF ChainSpec

(* For any number of blocks: between calls the enabled ones form one       *)
(* pipeline from the chain's input to its output.                          *)
THEOREM WiredHolds == ChainSpec => []Wired
<1>1. ChainInv => Wired
  BY DEF ChainInv, Connected, Wired, Path, UpIn, EndOf, BeforeIn, Upstream, Before, Idle
<1> QED BY <1>1, ChainInvariance, PTL

(* The running blocks are the enabled ones of a running chain.             *)
THEOREM RunsEnabledHolds == ChainSpec => []RunsEnabled
<1>1. ChainInv => RunsEnabled
  BY DEF ChainInv, RunsAlways, RunsEnabled
<1> QED BY <1>1, ChainInvariance, PTL

(* What a running block reads: the input of the chain, or the output of a  *)
(* block that is before it, and not what another one or the consumer reads.*)
LEMMA Reads ==
  ASSUME ChainInv, NEW b \in started
  PROVE  /\ b \in Range(links) /\ started \subseteq Range(links)
         /\ input[b] \in Sources \/ (input[b] \in Range(links) /\ Position(input[b]) < Position(b))
         /\ consumer # input[b]
         /\ \A c \in started : input[c] = input[b] => c = b
<1>1. PICK T : T = Path
  OBVIOUS
<1>2. /\ started \subseteq T /\ T \in SUBSET Range(links) /\ Range(links) \subseteq Blocks /\ Listed
      /\ \A c \in started : input[c] = UpIn(T, c)
      /\ out = EndOf(T) /\ consumer \in {out, "none"} /\ source \in Sources
  <2>1. started \subseteq enabled /\ Path \in SUBSET Range(links) /\ enabled \subseteq Path
    BY DEF ChainInv, ChainTypes, RunsAlways, Path
  <2>2. \A c \in started : call = "connect" => c # arg
    BY <2>1 DEF ChainInv, ChainTypes, Idle
  <2>3. \A c \in started : input[c] = UpIn(T, c)
    BY <1>1, <2>1, <2>2 DEF ChainInv, Connected
  <2>4. out = EndOf(T) /\ consumer \in {out, "none"}
    BY <1>1 DEF ChainInv, Connected
  <2> QED BY <1>1, <2>1, <2>3, <2>4, Places DEF ChainInv, ChainTypes
<1>3. \A c \in started : BeforeIn(T, c) \in SUBSET Range(links) /\ BeforeIn(T, c) \subseteq T
  BY <1>2 DEF BeforeIn
<1>4. ASSUME NEW c \in started
      PROVE  \/ BeforeIn(T, c) = {} /\ input[c] = source
             \/ /\ input[c] \in BeforeIn(T, c)
                /\ \A x \in BeforeIn(T, c) : Position(x) <= Position(input[c])
  BY <1>2, <1>3, LastOfIs DEF UpIn
<1>5. \A x, y \in T : Position(x) \in Nat /\ (Position(x) = Position(y) => x = y)
  BY <1>2, Apart
<1>6. source \notin T /\ "none" \notin T /\ source # "none"
  BY <1>2, NamesAssumption
<1>7. input[b] \in Sources \/ (input[b] \in Range(links) /\ Position(input[b]) < Position(b))
  BY <1>2, <1>4 DEF BeforeIn
<1>8. out \in T /\ \A x \in T : Position(x) <= Position(out)
  BY <1>2, LastOfIs DEF EndOf
<1>9. consumer # input[b]
  <2>1. input[b] # "none"
    BY <1>3, <1>4, <1>6
  <2>2. input[b] # out
    BY <1>2, <1>4, <1>5, <1>6, <1>8 DEF BeforeIn
  <2> QED BY <1>2, <2>1, <2>2
<1>10. ASSUME NEW c \in started, input[c] = input[b]
       PROVE  c = b
  <2>1. CASE Position(b) < Position(c)
    <3>1. b \in BeforeIn(T, c)
      BY <1>2, <2>1 DEF BeforeIn
    <3>2. input[b] \in T /\ Position(b) <= Position(input[b]) /\ input[b] # source
      BY <1>3, <1>4, <1>6, <1>10, <3>1
    <3> QED BY <1>2, <1>4, <1>5, <3>2 DEF BeforeIn
  <2>2. CASE Position(c) < Position(b)
    <3>1. c \in BeforeIn(T, b)
      BY <1>2, <2>2 DEF BeforeIn
    <3>2. input[c] \in T /\ Position(c) <= Position(input[c]) /\ input[c] # source
      BY <1>3, <1>4, <1>6, <1>10, <3>1
    <3> QED BY <1>2, <1>4, <1>5, <3>2 DEF BeforeIn
  <2>3. Position(b) < Position(c) \/ Position(c) < Position(b) \/ Position(b) = Position(c)
    BY <1>2, <1>5
  <2> QED BY <1>2, <1>5, <2>1, <2>2, <2>3
<1> QED BY <1>2, <1>7, <1>9, <1>10

(* At every step of a rewiring a stream has one running reader at most.    *)
THEOREM OneReaderHolds == ChainSpec => []OneReader
<1>1. ChainInv => OneReader
  <2> SUFFICES ASSUME ChainInv, NEW s \in Streams
               PROVE  Cardinality(Readers(s)) <= 1
    BY DEF OneReader
  <2>1. \A x, y \in Readers(s) : x = y
    BY Reads DEF Readers
  <2>2. Readers(s) = {} \/ \E x : Readers(s) = {x}
    BY <2>1
  <2>3. CASE Readers(s) = {}
    BY <2>3, FS_EmptySet
  <2>4. CASE \E x : Readers(s) = {x}
    BY <2>4, FS_Singleton
  <2> QED BY <2>2, <2>3, <2>4
<1> QED BY <1>1, ChainInvariance, PTL

(* At no step does a running block read its own output: of the blocks that *)
(* would read only each other, the first in the list does not.             *)
THEOREM NoFeedbackHolds == ChainSpec => []NoFeedback
<1>1. ChainInv => NoFeedback
  <2> SUFFICES ASSUME ChainInv, NEW C \in SUBSET started, C # {}
               PROVE  \E b \in C : input[b] \notin C
    BY DEF NoFeedback
  <2>1. C \in SUBSET Range(links) /\ Range(links) \cap Sources = {} /\ Listed
    BY Reads, Places, NamesAssumption DEF ChainInv
  <2>2. FirstOf(C) \in C /\ \A x \in C : Position(FirstOf(C)) <= Position(x)
    BY <2>1, FirstOfIs
  <2>3. input[FirstOf(C)] \in Sources \/ Position(input[FirstOf(C)]) < Position(FirstOf(C))
    BY <2>2, Reads
  <2> QED BY <2>1, <2>2, <2>3, Apart
<1> QED BY <1>1, ChainInvariance, PTL
================================================================================
