-------------------------- MODULE FrameBufferProofs --------------------------
(***************************************************************************)
(* SampleFrameBuffer loses frames to overruns, flushes and stops.  For     *)
(* every size of the ring, any inputs and any number of frames and calls:  *)
(* it reorders none unless buffering is switched with a frame under way,   *)
(* and repeats none unless its two threads then meet in the write buffer.  *)
(***************************************************************************)
EXTENDS FrameBuffer, SequenceTheorems, TLAPS

(* The types of the state.                                                 *)
Types ==
  /\ published \in Nat /\ input \in [Inputs -> Nat] /\ in \in Inputs
  /\ op = "setInput" => arg \in Inputs
  /\ bypass \in BOOLEAN /\ mixed \in BOOLEAN /\ running \in BOOLEAN
  /\ buffers \in [0 .. Size - 1 -> Nat]
  /\ writeCur \in 0 .. Size - 1 /\ readCur \in 0 .. Size - 1
  /\ writeBuf \in Nat /\ readBuf \in Nat /\ log \in Seq(Nat) /\ sent \in Seq(Nat)

(* The threads are there while the block runs, and gone when a call that   *)
(* stopped them is past its joins.                                         *)
Threads ==
  /\ rpc \in {"read", "push", "copy", "swap", "exit"}
  /\ wpc \in {"check", "sleep", "wait", "swap", "exit"}
  /\ ctl \in {"idle", "streams", "worker", "join", "apply"}
  /\ ~running => ctl \in {"idle", "apply"}
  /\ ~running \/ ctl = "apply" => rpc = "exit" /\ wpc = "exit"

(* A frame that run() has seen stays in its stream until it is accepted.   *)
Seen == rpc \in {"push", "copy"} => input[in] # None

(* As long as the two ways through the buffer have not mixed, only one is  *)
(* in use.                                                                 *)
OneWay ==
  ~mixed => IF bypass THEN Readable = 0 /\ wpc # "swap" /\ rpc # "push"
                      ELSE rpc \notin {"copy", "swap"}

(* What waits on the ring was accepted.                                    *)
Room == Readable <= Len(log)

(* What was put in the output was accepted before what waits on the ring...*)
Behind ==
  ~mixed => \A i \in DOMAIN sent : \E a \in 1 .. Len(log) - Readable : log[a] = sent[i]

(* ... and so was the frame about to be put there, after all the others.   *)
InHand ==
  ~mixed /\ (wpc = "swap" \/ rpc = "swap") =>
    \E p \in 1 .. Len(log) - Readable :
      /\ log[p] = writeBuf
      /\ \A i \in DOMAIN sent : \E a \in 1 .. p - 1 : log[a] = sent[i]

(* Every frame is in one place: in one input, or accepted once.            *)
Once ==
  /\ \A s \in Inputs : input[s] <= published
  /\ \A a \in DOMAIN log : log[a] \in 1 .. published /\ \A s \in Inputs : input[s] # log[a]
  /\ \A s, t \in Inputs : input[s] # None /\ input[s] = input[t] => s = t
  /\ \A a, b \in DOMAIN log : log[a] = log[b] => a = b

(* worker() sleeps, or is about to, only while the ring is empty: every    *)
(* frame put on the ring wakes it.                                         *)
NoneWaitsAsleep == wpc \in {"sleep", "wait"} => Readable = 0

(* The inductive invariant.                                                *)
BufferInv ==
  /\ Types /\ Threads /\ Seen /\ OneWay /\ Room /\ NewestKept
  /\ Behind /\ InHand /\ InOrder /\ Once /\ NoneWaitsAsleep

-----------------------------------------------------------------------------
(* The remainders that the cursors need.                                   *)
LEMMA Wrap ==
  ASSUME NEW n \in Nat \ {0}, NEW k \in 0 .. 2 * n - 1
  PROVE  k % n = IF k < n THEN k ELSE k - n
OBVIOUS

(* How much waits between two cursors, and where the i-th of it is.        *)
Waiting(w, r) == (w + Size - r) % Size

LEMMA Distance ==
  ASSUME NEW w \in 0 .. Size - 1, NEW r \in 0 .. Size - 1
  PROVE  /\ Waiting(w, r) \in 0 .. Size - 1
         /\ Waiting(w, r) = IF w >= r THEN w - r ELSE w + Size - r
         /\ \A i \in 0 .. Size - 1 :
              (r + i) % Size = IF r + i < Size THEN r + i ELSE r + i - Size
<1> USE BoundsAssumption
<1>1. w + Size - r \in 0 .. 2 * Size - 1 /\ Size \in Nat \ {0}
  OBVIOUS
<1>2. Waiting(w, r) = IF w + Size - r < Size THEN w + Size - r ELSE w - r
  BY <1>1 DEF Waiting
<1>3. ASSUME NEW i \in 0 .. Size - 1
      PROVE  (r + i) % Size = IF r + i < Size THEN r + i ELSE r + i - Size
  BY <1>1
<1> QED BY <1>2, <1>3

(* The cursor after w.                                                     *)
LEMMA NextCursor ==
  ASSUME NEW w \in 0 .. Size - 1
  PROVE  /\ (w + 1) % Size \in 0 .. Size - 1
         /\ (w + 1) % Size = IF w = Size - 1 THEN 0 ELSE w + 1
BY BoundsAssumption

(* A frame is put on the ring: one more waits, at the end, unless the ring *)
(* was full and now looks empty.                                           *)
LEMMA PushRing ==
  ASSUME NEW w \in 0 .. Size - 1, NEW r \in 0 .. Size - 1
  PROVE  LET n == Waiting(w, r)
             m == Waiting((w + 1) % Size, r)
         IN  /\ m = IF n = Size - 1 THEN 0 ELSE n + 1
             /\ m # 0 => (r + n) % Size = w
             /\ \A i \in 0 .. n - 1 : (r + i) % Size # w
<1> USE BoundsAssumption
<1> DEFINE v == (w + 1) % Size
           n == Waiting(w, r)
           m == Waiting(v, r)
<1>1. v \in 0 .. Size - 1 /\ v = IF w = Size - 1 THEN 0 ELSE w + 1
  BY NextCursor
<1> HIDE DEF v
<1>2. /\ n = (IF w >= r THEN w - r ELSE w + Size - r) /\ m = (IF v >= r THEN v - r ELSE v + Size - r)
      /\ n \in 0 .. Size - 1 /\ m \in 0 .. Size - 1
  BY <1>1, Distance
<1> HIDE DEF n, m
<1>3. \A i \in 0 .. Size - 1 : (r + i) % Size = IF r + i < Size THEN r + i ELSE r + i - Size
  BY Distance
<1>4. m = IF n = Size - 1 THEN 0 ELSE n + 1
  BY <1>1, <1>2
<1>5. m # 0 => n # Size - 1
  BY <1>4
<1>6. (r + n) % Size = IF r + n < Size THEN r + n ELSE r + n - Size
  BY <1>2, <1>3
<1>7. m # 0 => (r + n) % Size = w
  BY <1>2, <1>5, <1>6
<1>8. ASSUME NEW i \in 0 .. n - 1
      PROVE  (r + i) % Size # w
  <2>1. i \in 0 .. Size - 1
    BY <1>2
  <2>2. (r + i) % Size = IF r + i < Size THEN r + i ELSE r + i - Size
    BY <1>3, <2>1
  <2> QED BY <1>2, <2>2
<1> QED BY <1>4, <1>7, <1>8 DEF n, m, v

(* The frame at the read cursor is taken off the ring.                     *)
LEMMA PopRing ==
  ASSUME NEW w \in 0 .. Size - 1, NEW r \in 0 .. Size - 1, Waiting(w, r) # 0
  PROVE  LET n == Waiting(w, r)
             q == (r + 1) % Size
             m == Waiting(w, q)
         IN  /\ m = n - 1 /\ r % Size = r
             /\ \A i \in 0 .. m - 1 : (q + i) % Size = (r + (i + 1)) % Size
<1> USE BoundsAssumption
<1> DEFINE q == (r + 1) % Size
           n == Waiting(w, r)
           m == Waiting(w, q)
<1>1. q \in 0 .. Size - 1 /\ q = IF r = Size - 1 THEN 0 ELSE r + 1
  BY NextCursor
<1> HIDE DEF q
<1>2. /\ n = (IF w >= r THEN w - r ELSE w + Size - r) /\ m = (IF w >= q THEN w - q ELSE w + Size - q)
      /\ n \in 0 .. Size - 1 /\ m \in 0 .. Size - 1 /\ n # 0
  BY <1>1, Distance
<1> HIDE DEF n, m
<1>3. /\ \A i \in 0 .. Size - 1 : (r + i) % Size = IF r + i < Size THEN r + i ELSE r + i - Size
      /\ \A i \in 0 .. Size - 1 : (q + i) % Size = IF q + i < Size THEN q + i ELSE q + i - Size
  BY <1>1, Distance
<1>4. m = n - 1 /\ r % Size = r
  BY <1>1, <1>2
<1>5. ASSUME NEW i \in 0 .. m - 1
      PROVE  (q + i) % Size = (r + (i + 1)) % Size
  <2>1. i \in 0 .. Size - 1 /\ i + 1 \in 0 .. Size - 1
    BY <1>2, <1>4
  <2>2. /\ (q + i) % Size = IF q + i < Size THEN q + i ELSE q + i - Size
        /\ (r + (i + 1)) % Size = IF r + (i + 1) < Size THEN r + (i + 1) ELSE r + (i + 1) - Size
    BY <1>3, <2>1
  <2> QED BY <1>1, <2>2
<1> QED BY <1>4, <1>5 DEF n, m, q

(* The same, of the state.                                                 *)
LEMMA ReadableType ==
  ASSUME Types
  PROVE  /\ Readable \in 0 .. Size - 1
         /\ Readable = IF writeCur >= readCur THEN writeCur - readCur ELSE writeCur + Size - readCur
         /\ Len(log) \in Nat /\ DOMAIN log = 1 .. Len(log)
         /\ Len(sent) \in Nat /\ DOMAIN sent = 1 .. Len(sent)
<1>1. writeCur \in 0 .. Size - 1 /\ readCur \in 0 .. Size - 1 /\ log \in Seq(Nat) /\ sent \in Seq(Nat)
  BY DEF Types
<1>2. /\ Readable \in 0 .. Size - 1
      /\ Readable = IF writeCur >= readCur THEN writeCur - readCur ELSE writeCur + Size - readCur
  BY <1>1, Distance DEF Readable, Waiting
<1> QED BY <1>1, <1>2

(* What Append does to a sequence of frames.                               *)
LEMMA AppendFrame ==
  ASSUME NEW q \in Seq(Nat), NEW f \in Nat
  PROVE  /\ Append(q, f) \in Seq(Nat) /\ Len(Append(q, f)) = Len(q) + 1
         /\ DOMAIN Append(q, f) = 1 .. Len(q) + 1 /\ Append(q, f)[Len(q) + 1] = f
         /\ \A i \in 1 .. Len(q) : Append(q, f)[i] = q[i]
BY AppendProperties

-----------------------------------------------------------------------------
LEMMA InitInv == Init => BufferInv
<1> SUFFICES ASSUME Init PROVE BufferInv
  OBVIOUS
<1> USE BoundsAssumption
<1>1. in \in Inputs
  BY DEF Init
<1>2. Types
  BY <1>1 DEF Init, Types, None
<1>3. Readable = 0 /\ Len(log) = 0 /\ DOMAIN log = {} /\ DOMAIN sent = {}
  BY <1>2, ReadableType DEF Init
<1> QED BY <1>1, <1>2, <1>3 DEF Init, BufferInv, Threads, Seen, OneWay, Room, NewestKept, Behind, InHand,
           InOrder, Once, NoneWaitsAsleep, None

(* What depends on the ring, the output and the frames only.               *)
Contents == Room /\ NewestKept /\ Behind /\ InOrder /\ Once

LEMMA ContentsKept ==
  ASSUME Contents, UNCHANGED <<published, input, ring, sent, log>>, mixed => mixed'
  PROVE  Contents'
BY DEF Contents, Room, NewestKept, Behind, InOrder, Once, Readable, ring

(* The steps that move no frame: of run() and of the reader of the output. *)
LEMMA QuietRunInv ==
  ASSUME BufferInv, ReadFrame \/ RunStopped \/ Consume
  PROVE  BufferInv'
<1>1. Contents'
  BY ContentsKept DEF BufferInv, Contents, ReadFrame, RunStopped, Consume, output
<1>2. Types'
  BY DEF BufferInv, Types, ReadFrame, RunStopped, Consume, ring, output, control
<1>3. Threads'
  BY DEF BufferInv, Threads, ReadFrame, RunStopped, Consume, ring, output, control
<1>4. Seen' /\ OneWay' /\ InHand' /\ NoneWaitsAsleep'
  BY DEF BufferInv, Threads, Seen, OneWay, InHand, NoneWaitsAsleep, Readable,
         ReadFrame, RunStopped, Consume, ring, output, control
<1> QED BY <1>1, <1>2, <1>3, <1>4 DEF BufferInv, Contents

(* The steps that move no frame: of worker().                              *)
LEMMA QuietWorkerInv ==
  ASSUME BufferInv, Empty \/ Sleep \/ Spurious \/ WorkerStopped
  PROVE  BufferInv'
<1>1. Contents'
  BY ContentsKept DEF BufferInv, Contents, Empty, Sleep, Spurious, WorkerStopped, output
<1>2. Types'
  BY DEF BufferInv, Types, Empty, Sleep, Spurious, WorkerStopped, ring, output, control
<1>3. Threads'
  BY DEF BufferInv, Threads, Empty, Sleep, Spurious, WorkerStopped, ring, output, control
<1>4. Seen' /\ OneWay' /\ InHand' /\ NoneWaitsAsleep'
  BY DEF BufferInv, Threads, Seen, OneWay, InHand, NoneWaitsAsleep, Readable,
         Empty, Sleep, Spurious, WorkerStopped, ring, output, control
<1> QED BY <1>1, <1>2, <1>3, <1>4 DEF BufferInv, Contents

(* The steps of a control call up to its joins.                            *)
LEMMA ControlInv ==
  ASSUME BufferInv, StopStreams \/ StopWorker \/ Join \/ \E o \in {"start", "stop", "setInput"}, s \in Inputs : Call(o, s)
  PROVE  BufferInv'
<1>1. Contents'
  BY ContentsKept DEF BufferInv, Contents, StopStreams, StopWorker, Join, Call, output
<1>2. Types'
  BY DEF BufferInv, Types, StopStreams, StopWorker, Join, Call, ring, output
<1>3. Threads'
  BY DEF BufferInv, Threads, StopStreams, StopWorker, Join, Call, Woken, ring, output
<1>4. Seen' /\ OneWay' /\ InHand' /\ NoneWaitsAsleep'
  BY DEF BufferInv, Threads, Seen, OneWay, InHand, NoneWaitsAsleep, Readable, Woken,
         StopStreams, StopWorker, Join, Call, ring, output
<1> QED BY <1>1, <1>2, <1>3, <1>4 DEF BufferInv, Contents

(* The rest of the call: the threads it starts have nothing in hand.       *)
LEMMA ApplyInv ==
  ASSUME BufferInv, Apply
  PROVE  BufferInv'
<1>1. Contents'
  BY ContentsKept DEF BufferInv, Contents, Apply, output
<1>2. running' \in BOOLEAN /\ in' \in Inputs
  BY DEF BufferInv, Types, Apply
<1>3. Types'
  BY <1>2 DEF BufferInv, Types, Apply, ring, output
<1>4. Threads'
  BY <1>2 DEF BufferInv, Threads, Apply
<1>5. Seen' /\ OneWay' /\ InHand' /\ NoneWaitsAsleep'
  BY <1>2 DEF BufferInv, Threads, Seen, OneWay, InHand, NoneWaitsAsleep, Readable, Apply, ring, output
<1> QED BY <1>1, <1>3, <1>4, <1>5 DEF BufferInv, Contents

(* setBuffering() may mix the ways through the buffer, and then nothing is *)
(* promised, or finds no frame on either.                                  *)
LEMMA SetBufferingInv ==
  ASSUME BufferInv, setBuffering
  PROVE  BufferInv'
<1>1. Contents'
  BY ContentsKept DEF BufferInv, Contents, setBuffering, output
<1>2. Types'
  BY DEF BufferInv, Types, setBuffering, ring, output
<1>3. Threads' /\ Seen' /\ NoneWaitsAsleep'
  BY DEF BufferInv, Threads, Seen, NoneWaitsAsleep, Readable, setBuffering, ring
<1>4. Readable \in Nat /\ Readable' = Readable
  BY ReadableType DEF BufferInv, setBuffering, Readable, ring
<1>5. OneWay' /\ InHand'
  BY <1>4 DEF BufferInv, Types, Threads, OneWay, InHand, Mixing, setBuffering, output
<1> QED BY <1>1, <1>2, <1>3, <1>5 DEF BufferInv, Contents

(* A source publishes a frame that is new.                                 *)
LEMMA PublishInv ==
  ASSUME BufferInv, NEW s \in Inputs, Publish(s)
  PROVE  BufferInv'
<1>1. Types'
  BY DEF BufferInv, Types, Publish, ring, output, control
<1>2. Threads' /\ Seen' /\ OneWay' /\ Room' /\ NewestKept' /\ Behind' /\ InHand' /\ InOrder' /\ NoneWaitsAsleep'
  BY DEF BufferInv, Types, Threads, Seen, OneWay, Room, NewestKept, Behind, InHand, InOrder, NoneWaitsAsleep,
         Readable, None, Publish, ring, output, control
<1>3. Once'
  BY DEF BufferInv, Types, Once, Publish, None, ring, output, control
<1> QED BY <1>1, <1>2, <1>3 DEF BufferInv

(* flush() empties the ring.                                               *)
LEMMA FlushInv ==
  ASSUME BufferInv, flush
  PROVE  BufferInv'
<1>1. Types'
  BY DEF BufferInv, Types, flush, output, control
<1>2. Readable' = 0 /\ Readable \in Nat /\ Len(log) \in Nat
  <2>1. Readable' = (writeCur + Size - writeCur) % Size
    BY DEF flush, Readable
  <2>2. (writeCur + Size - writeCur) % Size = 0
    BY Distance DEF BufferInv, Types, Waiting
  <2> QED BY <2>1, <2>2, ReadableType DEF BufferInv
<1>3. Threads' /\ Seen' /\ OneWay' /\ Room' /\ NewestKept' /\ NoneWaitsAsleep'
  BY <1>2 DEF BufferInv, Threads, Seen, OneWay, Room, NewestKept, NoneWaitsAsleep, flush, output, control
<1>4. Behind' /\ InHand'
  BY <1>2 DEF BufferInv, Behind, InHand, flush, output
<1>5. InOrder' /\ Once'
  BY DEF BufferInv, InOrder, Once, flush, output
<1> QED BY <1>1, <1>3, <1>4, <1>5 DEF BufferInv

(* run() accepts a frame: it is new to the log.                            *)
LEMMA AcceptFrame ==
  ASSUME BufferInv, Accept, rpc \in {"push", "copy"}, UNCHANGED sent
  PROVE  /\ Len(log') = Len(log) + 1 /\ log' \in Seq(Nat) /\ Len(log) \in Nat
         /\ log'[Len(log) + 1] = input[in] /\ input[in] \in Nat
         /\ \A a \in 1 .. Len(log) : log'[a] = log[a]
         /\ input' \in [Inputs -> Nat]
         /\ InOrder' /\ Once'
<1>1. log \in Seq(Nat) /\ input[in] \in Nat /\ in \in Inputs /\ input' \in [Inputs -> Nat]
  BY DEF BufferInv, Types, Accept, None
<1>2. /\ log' \in Seq(Nat) /\ Len(log') = Len(log) + 1 /\ Len(log) \in Nat
      /\ DOMAIN log' = 1 .. Len(log) + 1 /\ log'[Len(log) + 1] = input[in]
      /\ \A a \in 1 .. Len(log) : log'[a] = log[a]
  BY <1>1, AppendFrame DEF Accept
<1>3. DOMAIN log = 1 .. Len(log)
  BY <1>1
<1>4. InOrder'
  <2> SUFFICES ASSUME ~mixed, NEW i \in DOMAIN sent, NEW j \in DOMAIN sent, i < j
               PROVE  \E a, b \in DOMAIN log' : log'[a] = sent[i] /\ log'[b] = sent[j] /\ a < b
    BY DEF InOrder, Accept
  <2>1. PICK a \in DOMAIN log, b \in DOMAIN log : log[a] = sent[i] /\ log[b] = sent[j] /\ a < b
    BY DEF BufferInv, InOrder
  <2> QED BY <1>2, <1>3, <2>1
<1>5. Once'
  <2>1. input[in] # None /\ input' = [input EXCEPT ![in] = None] /\ published' = published
    BY DEF BufferInv, Seen, Accept
  <2>2. input[in] \in 1 .. published
    BY <1>1, <2>1 DEF BufferInv, Once, Types, None
  <2>3. \A s \in Inputs : input'[s] <= published
    BY <1>1, <2>1 DEF BufferInv, Once, Types, None
  <2>4. ASSUME NEW a \in DOMAIN log'
        PROVE  log'[a] \in 1 .. published /\ \A s \in Inputs : input'[s] # log'[a]
    <3>1. CASE a \in DOMAIN log
      BY <1>1, <1>2, <1>3, <2>1, <3>1 DEF BufferInv, Once, Types, None
    <3>2. CASE a = Len(log) + 1
      BY <1>1, <1>2, <2>1, <2>2, <3>2 DEF BufferInv, Once, Types, None
    <3> QED BY <1>2, <1>3, <3>1, <3>2
  <2>5. \A s, t \in Inputs : input'[s] # None /\ input'[s] = input'[t] => s = t
    BY <2>1 DEF BufferInv, Once, Types
  <2>6. ASSUME NEW a \in DOMAIN log', NEW b \in DOMAIN log', log'[a] = log'[b]
        PROVE  a = b
    <3>1. \A x \in DOMAIN log : log[x] # input[in]
      BY <1>1 DEF BufferInv, Once
    <3>2. a \in DOMAIN log /\ b \in DOMAIN log => log[a] = log[b]
      BY <1>2, <1>3, <2>6
    <3>3. a = Len(log) + 1 <=> b = Len(log) + 1
      BY <1>2, <1>3, <2>6, <3>1
    <3> QED BY <1>2, <1>3, <3>2, <3>3 DEF BufferInv, Once
  <2> QED BY <2>1, <2>3, <2>4, <2>5, <2>6 DEF Once
<1> QED BY <1>1, <1>2, <1>4, <1>5

(* A frame is put on the ring, which may overrun it.                       *)
LEMMA PushInv ==
  ASSUME BufferInv, Push
  PROVE  BufferInv'
<1> USE BoundsAssumption
<1> DEFINE n == Readable
           m == Readable'
<1>1. Types'
  <2>1. writeCur' \in 0 .. Size - 1
    BY DEF BufferInv, Types, Push
  <2> QED BY <2>1, AcceptFrame DEF BufferInv, Types, Push, Accept, output, control
<1>0. /\ writeCur \in 0 .. Size - 1 /\ readCur \in 0 .. Size - 1 /\ writeCur' \in 0 .. Size - 1
      /\ writeCur' = (writeCur + 1) % Size
      /\ n = Waiting(writeCur, readCur) /\ m = Waiting(writeCur', readCur)
  BY <1>1 DEF BufferInv, Types, Readable, Waiting, Push, Accept, output
<1>2. n \in 0 .. Size - 1 /\ m \in 0 .. Size - 1
  BY ONLY <1>0, Distance
<1>3. /\ m = IF n = Size - 1 THEN 0 ELSE n + 1
      /\ m # 0 => (readCur + n) % Size = writeCur
      /\ \A i \in 0 .. n - 1 : (readCur + i) % Size # writeCur
  BY ONLY <1>0, PushRing
<1>4. Threads' /\ Seen'
  BY DEF BufferInv, Threads, Seen, Push, Woken, Accept, output, control
<1>5. ~mixed => ~bypass
  BY DEF BufferInv, OneWay, Push
<1>6. OneWay' /\ NoneWaitsAsleep'
  BY <1>5 DEF BufferInv, Types, Threads, OneWay, NoneWaitsAsleep, Push, Woken, Unlocked, Accept, output
<1>7. /\ Len(log') = Len(log) + 1 /\ Len(log) \in Nat /\ n <= Len(log)
      /\ log'[Len(log) + 1] = input[in]
      /\ \A a \in 1 .. Len(log) : log'[a] = log[a]
  BY AcceptFrame DEF Push, output, BufferInv, Room
<1>8. Room' /\ Len(log) - n <= Len(log') - m
  BY <1>2, <1>3, <1>7 DEF Room
<1>9. NewestKept'
  <2> SUFFICES ASSUME ~mixed, NEW i \in 0 .. m - 1
               PROVE  buffers'[(readCur + i) % Size] = log'[Len(log') - m + i + 1]
    BY DEF NewestKept, Push, Accept, output
  <2>1. m = n + 1 /\ (readCur + n) % Size = writeCur
    BY <1>2, <1>3
  <2>2. buffers' = [buffers EXCEPT ![writeCur] = input[in]] /\ writeCur \in DOMAIN buffers
    BY DEF Push, BufferInv, Types
  <2>3. CASE i = n
    <3>1. buffers'[(readCur + i) % Size] = input[in]
      BY <2>1, <2>2, <2>3
    <3>2. Len(log') - m + i + 1 = Len(log) + 1
      BY ONLY <1>2, <1>7, <2>1, <2>3
    <3> QED BY <1>7, <3>1, <3>2
  <2>4. CASE i < n
    <3>1. i \in 0 .. n - 1
      BY <1>2, <2>4
    <3>2. buffers'[(readCur + i) % Size] = buffers[(readCur + i) % Size]
      BY <1>3, <2>2, <3>1
    <3>3. buffers[(readCur + i) % Size] = log[Len(log) - n + i + 1]
      BY <3>1 DEF BufferInv, NewestKept
    <3>4. log'[Len(log) - n + i + 1] = log[Len(log) - n + i + 1]
      <4>1. Len(log) - n + i + 1 \in 1 .. Len(log)
        BY <1>2, <1>7, <3>1
      <4> QED BY <1>7, <4>1
    <3>5. Len(log') - m + i + 1 = Len(log) - n + i + 1
      BY <1>2, <1>7, <2>1
    <3> QED BY <3>2, <3>3, <3>4, <3>5
  <2> QED BY <1>2, <2>1, <2>3, <2>4
<1>10. Behind'
  <2> SUFFICES ASSUME ~mixed, NEW i \in DOMAIN sent
               PROVE  \E a \in 1 .. Len(log') - m : log'[a] = sent[i]
    BY DEF Behind, Push, Accept, output
  <2>1. PICK a \in 1 .. Len(log) - n : log[a] = sent[i]
    BY DEF BufferInv, Behind
  <2> QED BY <1>2, <1>7, <1>8, <2>1
<1>11. InHand'
  <2> SUFFICES ASSUME ~mixed, wpc = "swap"
               PROVE  \E p \in 1 .. Len(log') - m :
                        /\ log'[p] = writeBuf
                        /\ \A i \in DOMAIN sent : \E a \in 1 .. p - 1 : log'[a] = sent[i]
    BY DEF InHand, Push, Accept, output, Woken
  <2>1. PICK p \in 1 .. Len(log) - n :
               /\ log[p] = writeBuf
               /\ \A i \in DOMAIN sent : \E a \in 1 .. p - 1 : log[a] = sent[i]
    BY DEF BufferInv, InHand
  <2>2. p \in 1 .. Len(log') - m /\ log'[p] = writeBuf
    BY <1>2, <1>7, <1>8, <2>1
  <2>3. \A a \in 1 .. p - 1 : log'[a] = log[a]
    BY <1>2, <1>7
  <2> QED BY <2>1, <2>2, <2>3
<1>12. InOrder' /\ Once'
  BY AcceptFrame DEF Push, output
<1> QED BY <1>1, <1>4, <1>6, <1>8, <1>9, <1>10, <1>11, <1>12 DEF BufferInv

(* A frame is copied past an empty ring.                                   *)
LEMMA BypassInv ==
  ASSUME BufferInv, Bypass
  PROVE  BufferInv'
<1>1. /\ Len(log') = Len(log) + 1 /\ Len(log) \in Nat /\ log'[Len(log) + 1] = input[in]
      /\ \A a \in 1 .. Len(log) : log'[a] = log[a]
      /\ InOrder' /\ Once'
  BY AcceptFrame DEF Bypass, CopyOut
<1>2. Types'
  BY AcceptFrame DEF BufferInv, Types, Bypass, Accept, CopyOut, control
<1>3. Readable' = Readable /\ Readable \in Nat
  BY ReadableType DEF BufferInv, Bypass, Accept, CopyOut, Readable
<1>4. Threads' /\ Seen' /\ OneWay' /\ Room' /\ NoneWaitsAsleep'
  BY <1>1, <1>3 DEF BufferInv, Threads, Seen, OneWay, Room, NoneWaitsAsleep, Bypass, Accept, CopyOut, control
<1>5. ~mixed => Readable = 0 /\ wpc # "swap"
  BY DEF BufferInv, OneWay, Bypass
<1>6. NewestKept'
  BY <1>3, <1>5 DEF NewestKept, Bypass, Accept, CopyOut
<1>7. ASSUME ~mixed, NEW i \in DOMAIN sent
      PROVE  \E a \in 1 .. Len(log) : log'[a] = sent[i]
  <2>1. PICK a \in 1 .. Len(log) - Readable : log[a] = sent[i]
    BY <1>7 DEF BufferInv, Behind
  <2> QED BY <1>1, <1>5, <1>7, <2>1
<1>8. Behind'
  BY <1>1, <1>3, <1>5, <1>7 DEF Behind, Bypass, Accept, CopyOut
<1>9. InHand'
  <2> SUFFICES ASSUME ~mixed
               PROVE  \E p \in 1 .. Len(log') - Readable' :
                        /\ log'[p] = writeBuf'
                        /\ \A i \in DOMAIN sent : \E a \in 1 .. p - 1 : log'[a] = sent[i]
    BY DEF InHand, Bypass, Accept, CopyOut
  <2>1. Len(log) + 1 \in 1 .. Len(log') - Readable' /\ writeBuf' = input[in]
    BY <1>1, <1>3, <1>5 DEF Bypass, CopyOut
  <2>2. Len(log) + 1 - 1 = Len(log)
    BY <1>1
  <2> QED BY <1>1, <1>7, <2>1, <2>2
<1> QED BY <1>1, <1>2, <1>4, <1>6, <1>8, <1>9 DEF BufferInv

(* worker() takes the oldest waiting frame in hand.                        *)
LEMMA CopyInv ==
  ASSUME BufferInv, Copy
  PROVE  BufferInv'
<1> USE BoundsAssumption
<1> DEFINE n == Readable
           m == Readable'
<1>1. Types'
  BY DEF BufferInv, Types, Copy, CopyOut, control
<1>0. /\ writeCur \in 0 .. Size - 1 /\ readCur \in 0 .. Size - 1 /\ readCur' \in 0 .. Size - 1
      /\ readCur' = (readCur + 1) % Size
      /\ n = Waiting(writeCur, readCur) /\ m = Waiting(writeCur, readCur') /\ n > 0
  BY <1>1 DEF BufferInv, Types, Readable, Waiting, Copy, CopyOut
<1>2. n \in 1 .. Size - 1 /\ m \in 0 .. Size - 1
  BY ONLY <1>0, Distance
<1>3. /\ m = n - 1 /\ readCur % Size = readCur
      /\ \A i \in 0 .. m - 1 : (readCur' + i) % Size = (readCur + (i + 1)) % Size
  <2>1. n # 0
    BY <1>2
  <2> QED BY ONLY <1>0, <2>1, PopRing
<1>4. /\ Len(log) \in Nat /\ n <= Len(log) /\ Len(log) - m = Len(log) - n + 1
  BY <1>2, <1>3, ReadableType DEF BufferInv, Room
<1>5. Threads' /\ Seen' /\ Room' /\ NoneWaitsAsleep'
  BY <1>2, <1>3, <1>4 DEF BufferInv, Threads, Seen, Room, NoneWaitsAsleep, Copy, CopyOut, control
<1>6. OneWay'
  BY <1>2 DEF BufferInv, OneWay, Copy, CopyOut
<1>7. NewestKept'
  <2> SUFFICES ASSUME ~mixed, NEW i \in 0 .. m - 1
               PROVE  buffers[(readCur' + i) % Size] = log[Len(log) - m + i + 1]
    BY DEF NewestKept, Copy, CopyOut
  <2>1. i + 1 \in 0 .. n - 1 /\ Len(log) - m + i + 1 = Len(log) - n + (i + 1) + 1
    BY <1>2, <1>3, <1>4
  <2>2. buffers[(readCur + (i + 1)) % Size] = log[Len(log) - n + (i + 1) + 1]
    BY <2>1 DEF BufferInv, NewestKept
  <2> QED BY <1>3, <2>1, <2>2
<1>8. Behind'
  <2> SUFFICES ASSUME ~mixed, NEW i \in DOMAIN sent
               PROVE  \E a \in 1 .. Len(log) - m : log[a] = sent[i]
    BY DEF Behind, Copy, CopyOut
  <2>1. PICK a \in 1 .. Len(log) - n : log[a] = sent[i]
    BY DEF BufferInv, Behind
  <2> QED BY <1>2, <1>4, <2>1
<1>9. InHand'
  <2> SUFFICES ASSUME ~mixed
               PROVE  \E p \in 1 .. Len(log) - m :
                        /\ log[p] = writeBuf'
                        /\ \A i \in DOMAIN sent : \E a \in 1 .. p - 1 : log[a] = sent[i]
    BY DEF InHand, Copy, CopyOut
  <2>1. 0 \in 0 .. n - 1 /\ readCur + 0 = readCur /\ Len(log) - n + 0 + 1 = Len(log) - n + 1
    BY <1>2, <1>4 DEF BufferInv, Types
  <2>2. buffers[(readCur + 0) % Size] = log[Len(log) - n + 0 + 1]
    BY <2>1 DEF BufferInv, NewestKept
  <2>3. writeBuf' = log[Len(log) - n + 1]
    BY <1>3, <2>1, <2>2 DEF Copy, CopyOut
  <2>5. \A i \in DOMAIN sent : \E a \in 1 .. Len(log) - n : log[a] = sent[i]
    BY DEF BufferInv, Behind
  <2> DEFINE p == Len(log) - n + 1
  <2> HIDE DEF n, m
  <2>6. p \in 1 .. Len(log) - m /\ log[p] = writeBuf' /\ p - 1 = Len(log) - n
    BY <1>2, <1>4, <2>3
  <2> HIDE DEF p
  <2> QED BY <2>5, <2>6
<1>10. InOrder' /\ Once'
  BY DEF BufferInv, InOrder, Once, Copy, CopyOut
<1> QED BY <1>1, <1>5, <1>6, <1>7, <1>8, <1>9, <1>10 DEF BufferInv

(* The frame in hand is put in the output, after those sent before.        *)
LEMMA SwapInv ==
  ASSUME BufferInv, Swap \/ BypassSwap
  PROVE  BufferInv'
<1>1. sent' = Append(sent, writeBuf) /\ sent \in Seq(Nat) /\ writeBuf \in Nat
  BY DEF BufferInv, Types, Swap, BypassSwap, SwapOut
<1>2. /\ sent' \in Seq(Nat) /\ Len(sent) \in Nat /\ DOMAIN sent = 1 .. Len(sent)
      /\ DOMAIN sent' = 1 .. Len(sent) + 1 /\ sent'[Len(sent) + 1] = writeBuf
      /\ \A i \in 1 .. Len(sent) : sent'[i] = sent[i]
  BY <1>1, AppendFrame
<1>3. Types'
  BY <1>2 DEF BufferInv, Types, Swap, BypassSwap, SwapOut, None, ring, control
<1>4. Threads' /\ Seen' /\ OneWay' /\ Room' /\ NewestKept' /\ Once' /\ NoneWaitsAsleep' /\ Readable' = Readable
  BY DEF BufferInv, Threads, Seen, OneWay, Room, NewestKept, Once, NoneWaitsAsleep, Readable,
         Swap, BypassSwap, ring, control
<1>5. InHand'
  BY DEF BufferInv, OneWay, InHand, Swap, BypassSwap
<1>6. ASSUME ~mixed
      PROVE  Behind' /\ InOrder'
  <2>1. PICK p \in 1 .. Len(log) - Readable :
               /\ log[p] = writeBuf
               /\ \A i \in DOMAIN sent : \E a \in 1 .. p - 1 : log[a] = sent[i]
    BY <1>6 DEF BufferInv, InHand, Swap, BypassSwap
  <2>2. Readable \in Nat /\ Len(log) \in Nat /\ DOMAIN log = 1 .. Len(log) /\ log' = log
    BY ReadableType DEF BufferInv, Swap, BypassSwap
  <2>3. Behind'
    <3> SUFFICES ASSUME NEW i \in DOMAIN sent'
                 PROVE  \E a \in 1 .. Len(log) - Readable : log[a] = sent'[i]
      BY <1>4, <2>2 DEF Behind
    <3>1. CASE i \in DOMAIN sent
      BY <1>2, <2>1, <2>2, <3>1
    <3>2. CASE i = Len(sent) + 1
      BY <1>2, <2>1, <3>2
    <3> QED BY <1>2, <3>1, <3>2
  <2>4. InOrder'
    <3> SUFFICES ASSUME NEW i \in DOMAIN sent', NEW j \in DOMAIN sent', i < j
                 PROVE  \E a, b \in DOMAIN log : log[a] = sent'[i] /\ log[b] = sent'[j] /\ a < b
      BY <2>2 DEF InOrder
    <3>1. i \in DOMAIN sent /\ sent'[i] = sent[i]
      BY <1>2
    <3>2. CASE j \in DOMAIN sent
      BY <1>2, <1>6, <3>1, <3>2 DEF BufferInv, InOrder
    <3>3. CASE j = Len(sent) + 1
      <4>1. PICK a \in 1 .. p - 1 : log[a] = sent[i]
        BY <2>1, <3>1
      <4>2. a \in DOMAIN log /\ p \in DOMAIN log /\ a < p
        BY <2>1, <2>2
      <4> QED BY <1>2, <2>1, <3>1, <3>3, <4>1, <4>2
    <3> QED BY <1>2, <3>2, <3>3
  <2> QED BY <2>3, <2>4
<1>7. mixed => Behind' /\ InOrder'
  BY DEF Behind, InOrder, Swap, BypassSwap
<1> QED BY <1>3, <1>4, <1>5, <1>6, <1>7 DEF BufferInv

-----------------------------------------------------------------------------
LEMMA NextInv == BufferInv /\ [Next]_vars => BufferInv'
<1> SUFFICES ASSUME BufferInv, [Next]_vars PROVE BufferInv'
  OBVIOUS
<1>1. CASE Run
  BY <1>1, QuietRunInv, PushInv, BypassInv, SwapInv DEF Run
<1>2. CASE Worker
  BY <1>2, QuietWorkerInv, CopyInv, SwapInv DEF Worker
<1>3. CASE Finish
  BY <1>3, ControlInv, ApplyInv DEF Finish
<1>4. CASE Consume \/ Spurious \/ flush \/ setBuffering
  BY <1>4, QuietRunInv, QuietWorkerInv, FlushInv, SetBufferingInv
<1>5. CASE \E s \in Inputs : Publish(s) \/ Call("setInput", s)
  BY <1>5, PublishInv, ControlInv
<1>6. CASE Call("start", in) \/ Call("stop", in)
  <2>1. in \in Inputs
    BY DEF BufferInv, Types
  <2> QED BY <1>6, <2>1, ControlInv
<1>7. CASE UNCHANGED vars
  <2>1. Contents'
    BY <1>7, ContentsKept DEF BufferInv, Contents, vars, output
  <2>2. Types' /\ Threads'
    BY <1>7 DEF BufferInv, Types, Threads, vars, ring, output, control
  <2>3. Seen' /\ OneWay' /\ InHand' /\ NoneWaitsAsleep'
    BY <1>7 DEF BufferInv, Seen, OneWay, InHand, NoneWaitsAsleep, Readable, vars, ring, output, control
  <2> QED BY <2>1, <2>2, <2>3 DEF BufferInv, Contents
<1> QED BY <1>1, <1>2, <1>3, <1>4, <1>5, <1>6, <1>7 DEF Next

LEMMA Invariance == Spec => []BufferInv
BY InitInv, NextInv, PTL DEF Spec

(* For every size of the ring: an overrun or a flush() discards all that   *)
(* waited, so that what waits is always the newest, with no gap, as long   *)
(* as buffering is switched with no frame under way.                       *)
THEOREM NewestKeptHolds == Spec => []NewestKept
<1>1. BufferInv => NewestKept
  BY DEF BufferInv
<1> QED BY <1>1, Invariance, PTL

(* Of the frames: what waits on the ring, was accepted, was sent.          *)
OnRing(i) == buffers[(readCur + i) % Size]
Waits == {OnRing(i) : i \in 0 .. Readable - 1}
Accepted == {log[a] : a \in DOMAIN log}
Sent == {sent[i] : i \in DOMAIN sent}

(* A frame is in one of these places at a time, however often buffering is *)
(* switched, until the two threads meet in the write buffer.               *)
RingOnce ==
  /\ Waits \subseteq Accepted
  /\ \A i, j \in 0 .. Readable - 1 : OnRing(i) = OnRing(j) => i = j

SentOnce ==
  ~clashed =>
    /\ Sent \subseteq Accepted \ Waits
    /\ wpc = "swap" \/ rpc = "swap" => writeBuf \in Accepted \ (Waits \cup Sent)
    /\ ~(wpc = "swap" /\ rpc = "swap")

ClashMixes == clashed \in BOOLEAN /\ (clashed => mixed)

OnceInv == RingOnce /\ SentOnce /\ NoneTwice /\ ClashMixes

LEMMA InitOnce == Init => OnceInv
<1> SUFFICES ASSUME Init PROVE OnceInv
  OBVIOUS
<1>1. Readable = 0 /\ DOMAIN sent = {}
  BY InitInv, ReadableType DEF BufferInv, Init
<1>2. Waits = {} /\ Sent = {}
  BY <1>1 DEF Waits, Sent
<1>3. RingOnce
  BY <1>1, <1>2 DEF RingOnce
<1> QED BY <1>1, <1>2, <1>3 DEF Init, OnceInv, SentOnce, NoneTwice, ClashMixes

(* The steps that touch neither a frame on the ring nor the write buffer.  *)
LEMMA OnceKept ==
  ASSUME BufferInv, OnceInv, UNCHANGED <<buffers, writeCur, readCur, log, sent, writeBuf, clashed>>,
         mixed => mixed', wpc' = "swap" => wpc = "swap", rpc' = "swap" => rpc = "swap"
  PROVE  OnceInv'
<1>1. Readable' = Readable /\ Waits' = Waits /\ Accepted' = Accepted /\ Sent' = Sent /\ \A i : OnRing(i)' = OnRing(i)
  BY DEF Readable, Waits, OnRing, Accepted, Sent
<1> QED BY <1>1 DEF OnceInv, RingOnce, SentOnce, NoneTwice, ClashMixes

(* The frame that run() accepts is new.                                    *)
LEMMA AcceptNew ==
  ASSUME BufferInv, Accept, rpc \in {"push", "copy"}, UNCHANGED sent
  PROVE  input[in] \notin Accepted /\ Accepted' = Accepted \cup {input[in]}
<1>1. /\ DOMAIN log' = 1 .. Len(log) + 1 /\ DOMAIN log = 1 .. Len(log) /\ Len(log) \in Nat
      /\ log'[Len(log) + 1] = input[in] /\ \A a \in 1 .. Len(log) : log'[a] = log[a]
  BY AcceptFrame, ReadableType DEF BufferInv
<1>2. in \in Inputs
  BY DEF BufferInv, Types
<1>3. input[in] \notin Accepted
  BY <1>2 DEF BufferInv, Once, Accepted
<1>4. Accepted' = {log'[a] : a \in 1 .. Len(log) + 1}
  BY <1>1 DEF Accepted
<1>5. 1 .. Len(log) + 1 = (1 .. Len(log)) \cup {Len(log) + 1}
  BY <1>1
<1>6. Accepted' = Accepted \cup {input[in]}
  BY <1>1, <1>4, <1>5 DEF Accepted
<1> QED BY <1>3, <1>6

LEMMA PushOnce ==
  ASSUME BufferInv, OnceInv, Push
  PROVE  OnceInv'
<1> USE BoundsAssumption
<1> DEFINE n == Readable
           m == Readable'
           f == input[in]
<1>1. /\ writeCur \in 0 .. Size - 1 /\ readCur \in 0 .. Size - 1 /\ writeCur \in DOMAIN buffers
      /\ writeCur' = (writeCur + 1) % Size /\ readCur' = readCur
      /\ buffers' = [buffers EXCEPT ![writeCur] = f]
  BY DEF BufferInv, Types, Push, Accept
<1>2. /\ n = Waiting(writeCur, readCur) /\ m = Waiting((writeCur + 1) % Size, readCur)
      /\ n \in 0 .. Size - 1
  BY <1>1, Distance DEF Readable, Waiting
<1>3. /\ m = IF n = Size - 1 THEN 0 ELSE n + 1
      /\ m # 0 => (readCur + n) % Size = writeCur
      /\ \A i \in 0 .. n - 1 : (readCur + i) % Size # writeCur
  BY ONLY <1>1, <1>2, PushRing
<1>4. f \notin Accepted /\ Accepted' = Accepted \cup {f} /\ Sent' = Sent
  BY AcceptNew DEF Push, output, Sent
<1> HIDE DEF n, m, f
<1>5. ASSUME NEW i \in 0 .. m - 1
      PROVE  OnRing(i)' = IF i = n THEN f ELSE OnRing(i)
  <2>1. i \in 0 .. n
    BY <1>2, <1>3
  <2>2. CASE i = n
    BY <1>1, <1>3, <2>2 DEF OnRing
  <2>3. CASE i # n
    <3>1. i \in 0 .. n - 1
      BY <1>2, <2>1, <2>3
    <3> QED BY <1>1, <1>3, <2>3, <3>1 DEF OnRing
  <2> QED BY <2>2, <2>3
<1>6. \A i \in 0 .. m - 1 : i = n \/ i \in 0 .. n - 1
  BY <1>2, <1>3
<1>7. \A i \in 0 .. n - 1 : OnRing(i) \in Waits
  BY DEF Waits, n
<1>8. Waits' \subseteq Waits \cup {f}
  <2>1. Waits' = {OnRing(i)' : i \in 0 .. m - 1}
    BY DEF Waits, m
  <2> QED BY <1>5, <1>6, <1>7, <2>1
<1>9. RingOnce'
  <2>1. \A i, j \in 0 .. m - 1 : OnRing(i)' = OnRing(j)' => i = j
    <3>1. \A i \in 0 .. n - 1 : OnRing(i) # f
      BY <1>4, <1>7 DEF OnceInv, RingOnce
    <3>2. \A i, j \in 0 .. n - 1 : OnRing(i) = OnRing(j) => i = j
      BY DEF OnceInv, RingOnce, n
    <3> QED BY <1>5, <1>6, <3>1, <3>2
  <2>2. Waits' \subseteq Accepted'
    BY <1>4, <1>8 DEF OnceInv, RingOnce
  <2> QED BY <2>1, <2>2 DEF RingOnce, m
<1>10. SentOnce'
  <2>1. wpc' = "swap" => wpc = "swap"
    BY DEF Push, Woken
  <2>2. rpc' = "read" /\ UNCHANGED <<clashed, writeBuf>>
    BY DEF Push, output
  <2> QED BY <1>4, <1>8, <2>1, <2>2 DEF OnceInv, SentOnce
<1>11. NoneTwice' /\ ClashMixes'
  BY DEF OnceInv, NoneTwice, ClashMixes, Push, Accept, output
<1> QED BY <1>9, <1>10, <1>11 DEF OnceInv

LEMMA BypassOnce ==
  ASSUME BufferInv, OnceInv, Bypass
  PROVE  OnceInv'
<1>1. input[in] \notin Accepted /\ Accepted' = Accepted \cup {input[in]} /\ Sent' = Sent
  BY AcceptNew DEF Bypass, CopyOut, Sent
<1>2. Readable' = Readable /\ Waits' = Waits /\ \A i : OnRing(i)' = OnRing(i)
  BY DEF Bypass, Accept, Readable, Waits, OnRing
<1>3. RingOnce'
  BY <1>1, <1>2 DEF OnceInv, RingOnce
<1>4. ~clashed' => ~clashed /\ wpc' # "swap"
  BY DEF Bypass, CopyOut, OnceInv, ClashMixes
<1>5. SentOnce'
  BY <1>1, <1>2, <1>4 DEF OnceInv, RingOnce, SentOnce, Bypass, CopyOut
<1>6. NoneTwice'
  BY <1>4 DEF OnceInv, NoneTwice, Bypass, CopyOut
<1>7. ~mixed => wpc # "swap"
  BY DEF BufferInv, OneWay, Bypass
<1>8. ClashMixes'
  BY <1>7 DEF OnceInv, ClashMixes, Bypass, CopyOut, Accept
<1> QED BY <1>3, <1>5, <1>6, <1>8 DEF OnceInv

LEMMA CopyOnce ==
  ASSUME BufferInv, OnceInv, Copy
  PROVE  OnceInv'
<1> USE BoundsAssumption
<1> DEFINE n == Readable
           m == Readable'
<1>1. /\ writeCur \in 0 .. Size - 1 /\ readCur \in 0 .. Size - 1
      /\ readCur' = (readCur + 1) % Size /\ UNCHANGED <<buffers, writeCur>>
      /\ n = Waiting(writeCur, readCur) /\ n > 0
  BY DEF BufferInv, Types, Copy, Readable, Waiting
<1>2. m = Waiting(writeCur, (readCur + 1) % Size) /\ n \in 1 .. Size - 1
  BY <1>1, Distance DEF Readable, Waiting
<1>3. /\ m = n - 1 /\ readCur % Size = readCur
      /\ \A i \in 0 .. m - 1 : (readCur' + i) % Size = (readCur + (i + 1)) % Size
  <2>1. Waiting(writeCur, readCur) # 0
    BY <1>1, <1>2
  <2> QED BY ONLY <1>1, <1>2, <2>1, PopRing
<1>4. Sent' = Sent /\ Accepted' = Accepted
  BY DEF Copy, CopyOut, Sent, Accepted
<1> HIDE DEF n, m
<1>5. \A i \in 0 .. m - 1 : OnRing(i)' = OnRing(i + 1) /\ i + 1 \in 0 .. n - 1 /\ i + 1 # 0
  BY <1>1, <1>2, <1>3 DEF OnRing
<1>6. writeBuf' = OnRing(0) /\ 0 \in 0 .. n - 1
  <2>1. readCur + 0 = readCur
    BY <1>1
  <2> QED BY <1>2, <1>3, <2>1 DEF Copy, CopyOut, OnRing
<1>7. /\ \A i \in 0 .. n - 1 : OnRing(i) \in Waits
      /\ \A i, j \in 0 .. n - 1 : OnRing(i) = OnRing(j) => i = j
  BY DEF OnceInv, RingOnce, Waits, n
<1>8. Waits' \subseteq Waits \ {writeBuf'} /\ writeBuf' \in Waits
  <2>1. Waits' = {OnRing(i)' : i \in 0 .. m - 1}
    BY DEF Waits, m
  <2> QED BY <1>5, <1>6, <1>7, <2>1
<1>9. RingOnce'
  <2>1. ASSUME NEW i \in 0 .. m - 1, NEW j \in 0 .. m - 1, OnRing(i)' = OnRing(j)'
        PROVE  i = j
    <3>1. i + 1 = j + 1
      BY <1>5, <1>7, <2>1
    <3> QED BY <1>2, <1>3, <3>1
  <2>2. Waits' \subseteq Accepted'
    BY <1>4, <1>8 DEF OnceInv, RingOnce
  <2> QED BY <2>1, <2>2 DEF RingOnce, m
<1>10. ~clashed' => ~clashed /\ rpc' # "swap"
  BY DEF Copy, CopyOut, OnceInv, ClashMixes
<1>11. SentOnce'
  BY <1>4, <1>8, <1>10 DEF OnceInv, RingOnce, SentOnce
<1>12. NoneTwice'
  BY <1>10 DEF OnceInv, NoneTwice, Copy, CopyOut
<1>13. ~mixed => rpc # "swap"
  BY <1>1 DEF BufferInv, OneWay, n, Copy
<1>14. ClashMixes'
  BY <1>13 DEF OnceInv, ClashMixes, Copy, CopyOut
<1> QED BY <1>9, <1>11, <1>12, <1>14 DEF OnceInv

LEMMA SwapOnce ==
  ASSUME BufferInv, OnceInv, Swap \/ BypassSwap
  PROVE  OnceInv'
<1>1. sent' = Append(sent, writeBuf) /\ sent \in Seq(Nat) /\ writeBuf \in Nat
  BY DEF BufferInv, Types, Swap, BypassSwap, SwapOut
<1>2. /\ Len(sent) \in Nat /\ DOMAIN sent = 1 .. Len(sent)
      /\ DOMAIN sent' = 1 .. Len(sent) + 1 /\ sent'[Len(sent) + 1] = writeBuf
      /\ \A i \in 1 .. Len(sent) : sent'[i] = sent[i]
  BY <1>1, AppendFrame
<1>3. \A i \in DOMAIN sent' : i = Len(sent) + 1 \/ i \in DOMAIN sent
  BY <1>2
<1>4. /\ Readable' = Readable /\ Waits' = Waits /\ Accepted' = Accepted /\ clashed' = clashed
      /\ \A i : OnRing(i)' = OnRing(i)
  BY DEF Swap, BypassSwap, SwapOut, ring, Readable, Waits, OnRing, Accepted
<1>5. RingOnce'
  BY <1>4 DEF OnceInv, RingOnce
<1>6. ClashMixes'
  BY <1>4 DEF OnceInv, ClashMixes, Swap, BypassSwap
<1>7. ASSUME ~clashed
      PROVE  NoneTwice' /\ SentOnce'
  <2>1. writeBuf \in Accepted \ (Waits \cup Sent)
    BY <1>7 DEF OnceInv, SentOnce, Swap, BypassSwap
  <2>2. ~(wpc' = "swap" \/ rpc' = "swap")
    BY <1>7 DEF OnceInv, SentOnce, Swap, BypassSwap
  <2>3. \A i \in DOMAIN sent : sent[i] # writeBuf
    BY <2>1 DEF Sent
  <2>4. NoneTwice'
    <3>1. ASSUME NEW i \in DOMAIN sent', NEW j \in DOMAIN sent', sent'[i] = sent'[j]
          PROVE  i = j
      <4>1. i \in DOMAIN sent /\ j \in DOMAIN sent => i = j
        BY <1>2, <1>7, <3>1 DEF OnceInv, NoneTwice
      <4>2. i \in DOMAIN sent <=> j \in DOMAIN sent
        BY <1>2, <1>3, <2>3, <3>1
      <4> QED BY <1>3, <4>1, <4>2
    <3> QED BY <3>1 DEF NoneTwice
  <2>5. \A x \in Sent' : x = writeBuf \/ x \in Sent
    BY <1>2, <1>3 DEF Sent
  <2>6. SentOnce'
    BY <1>4, <1>7, <2>1, <2>2, <2>5 DEF OnceInv, SentOnce
  <2> QED BY <2>4, <2>6
<1>8. CASE clashed
  BY <1>4, <1>5, <1>6, <1>8 DEF OnceInv, NoneTwice, SentOnce
<1> QED BY <1>5, <1>6, <1>7, <1>8 DEF OnceInv

LEMMA FlushOnce ==
  ASSUME BufferInv, OnceInv, flush
  PROVE  OnceInv'
<1>1. Readable' = 0
  <2>1. Readable' = (writeCur + Size - writeCur) % Size
    BY DEF flush, Readable
  <2>2. (writeCur + Size - writeCur) % Size = 0
    BY Distance, BoundsAssumption DEF BufferInv, Types, Waiting
  <2> QED BY <2>1, <2>2
<1>2. Waits' = {} /\ Accepted' = Accepted /\ Sent' = Sent
  BY <1>1 DEF Waits, Accepted, Sent, flush, output
<1> QED BY <1>1, <1>2 DEF OnceInv, RingOnce, SentOnce, NoneTwice, ClashMixes, flush, output

LEMMA NextOnce == BufferInv /\ OnceInv /\ [Next]_vars => OnceInv'
<1> SUFFICES ASSUME BufferInv, OnceInv, [Next]_vars PROVE OnceInv'
  OBVIOUS
<1>1. CASE Run
  <2>1. CASE ReadFrame \/ RunStopped
    BY <2>1, OnceKept DEF ReadFrame, RunStopped, ring, output
  <2> QED BY <1>1, <2>1, PushOnce, BypassOnce, SwapOnce DEF Run
<1>2. CASE Worker
  <2>1. CASE Empty \/ Sleep \/ WorkerStopped
    BY <2>1, OnceKept DEF Empty, Sleep, WorkerStopped, ring, output
  <2> QED BY <1>2, <2>1, CopyOnce, SwapOnce DEF Worker
<1>3. CASE Finish
  <2>1. CASE Apply
    <3>1. wpc' # "swap" /\ rpc' # "swap"
      BY <2>1 DEF Apply
    <3> QED BY <2>1, <3>1, OnceKept DEF Apply, ring, output
  <2>2. CASE StopStreams \/ StopWorker \/ Join
    BY <2>2, OnceKept DEF StopStreams, StopWorker, Join, Woken, ring, output
  <2> QED BY <1>3, <2>1, <2>2 DEF Finish
<1>4. CASE Consume \/ Spurious \/ setBuffering
  <2>1. CASE Consume
    BY <2>1, OnceKept DEF Consume, ring
  <2>2. CASE Spurious
    BY <2>2, OnceKept DEF Spurious, ring, output
  <2>3. CASE setBuffering
    BY <2>3, OnceKept DEF setBuffering, ring, output
  <2> QED BY <1>4, <2>1, <2>2, <2>3
<1>5. CASE flush
  BY <1>5, FlushOnce
<1>6. ASSUME NEW s \in Inputs, Publish(s) PROVE OnceInv'
  BY <1>6, OnceKept DEF Publish, ring, output
<1>7. ASSUME NEW o, NEW s, Call(o, s) PROVE OnceInv'
  BY <1>7, OnceKept DEF Call, ring, output
<1>8. CASE UNCHANGED vars
  BY <1>8, OnceKept DEF vars, ring, output
<1> QED BY <1>1, <1>2, <1>3, <1>4, <1>5, <1>6, <1>7, <1>8 DEF Next

LEMMA OnceInvariance == Spec => []OnceInv
BY InitOnce, NextOnce, Invariance, PTL DEF Spec

(* Although both threads may write to the output after a setBuffering(),   *)
(* it gets no frame twice as long as they have not both had a frame in its *)
(* write buffer at once (`clashed`).                                       *)
THEOREM NoneTwiceHolds == Spec => []NoneTwice
<1>1. OnceInv => NoneTwice
  BY DEF OnceInv
<1> QED BY <1>1, OnceInvariance, PTL

(* ... which needs a setBuffering() that finds a frame under way.          *)
LEMMA ClashNeedsMixing == Spec => [](clashed => mixed)
<1>1. OnceInv => (clashed => mixed)
  BY DEF OnceInv, ClashMixes
<1> QED BY <1>1, OnceInvariance, PTL

(* The output gets the frames in the order in which they were accepted, as *)
(* long as buffering is switched with no frame under way, and none twice   *)
(* as long as the two threads have not met in the write buffer.            *)
THEOREM OrderedHolds == Spec => []Ordered
<1>1. BufferInv => InOrder
  BY DEF BufferInv
<1>2. InOrder /\ NoneTwice => Ordered
  BY DEF Ordered
<1> QED BY <1>1, <1>2, Invariance, NoneTwiceHolds, PTL

(* worker() never sleeps on a ring that is not empty: the wakeup of push   *)
(* cannot be lost, because worker() goes to sleep under bufMtx.            *)
THEOREM NoneWaitsAsleepHolds == Spec => []NoneWaitsAsleep
<1>1. BufferInv => NoneWaitsAsleep
  BY DEF BufferInv
<1> QED BY <1>1, Invariance, PTL

-----------------------------------------------------------------------------
(* The stop flags are up exactly while doStop() has raised them.           *)
StopFlags ==
  /\ stopFlag \in BOOLEAN /\ stopFlag <=> ctl \in {"worker", "join"}
  /\ stopWorker \in BOOLEAN /\ stopWorker <=> ctl = "join"

(* The steps that run() and worker() have before they end.                 *)
RunLeft == CASE rpc = "exit" -> 0 [] rpc \in {"read", "swap"} -> 1 [] rpc \in {"push", "copy"} -> 2
WorkLeft ==
  CASE wpc = "exit" -> 0 [] wpc \in {"check", "swap"} -> 1 [] wpc = "wait" -> 2 [] wpc = "sleep" -> 3

(* While the two threads are being joined, every step of theirs brings     *)
(* them nearer to their end; and worker() is blocked then only if it was   *)
(* already about to block when it was notified.                            *)
StopBounded ==
  /\ ctl = "join" /\ ctl' = "join" =>
       /\ rpc' # rpc => RunLeft' < RunLeft
       /\ wpc' # wpc => WorkLeft' < WorkLeft
  /\ ctl = "worker" /\ ctl' = "join" => wpc' # "wait"

LEMMA StopFlagsHold == Spec => []StopFlags
<1>1. Init => StopFlags
  BY DEF Init, StopFlags
<1>2. ASSUME StopFlags, [Next]_vars PROVE StopFlags'
  <2>1. CASE Run \/ Worker \/ Consume \/ Spurious \/ flush \/ setBuffering \/ \E s \in Inputs : Publish(s)
    <3>1. UNCHANGED <<stopFlag, stopWorker, ctl>>
      BY <2>1 DEF Run, ReadFrame, Push, Bypass, BypassSwap, RunStopped, Accept, Worker, Copy, Empty,
                  Sleep, Swap, WorkerStopped, Consume, Spurious, flush, setBuffering, Publish, control
    <3> QED BY <1>2, <3>1 DEF StopFlags
  <2>2. CASE Finish
    <3>1. ASSUME Apply PROVE ctl = "apply" /\ ctl' = "idle" /\ UNCHANGED <<stopFlag, stopWorker>>
      BY <3>1 DEF Apply
    <3>2. CASE StopStreams
      BY <1>2, <3>2 DEF StopFlags, StopStreams
    <3>3. CASE StopWorker
      BY <1>2, <3>3 DEF StopFlags, StopWorker
    <3>4. CASE Join
      BY <3>4 DEF StopFlags, Join
    <3>5. CASE Apply
      BY <1>2, <3>1, <3>5 DEF StopFlags
    <3> QED BY <2>2, <3>2, <3>3, <3>4, <3>5 DEF Finish
  <2>3. ASSUME NEW o, NEW s, Call(o, s) PROVE StopFlags'
    BY <1>2, <2>3 DEF StopFlags, Call
  <2>4. CASE UNCHANGED vars
    BY <1>2, <2>4 DEF StopFlags, vars, control
  <2> QED BY <1>2, <2>1, <2>2, <2>3, <2>4 DEF Next
<1> QED BY <1>1, <1>2, PTL DEF Spec

(* What run() and worker() do while they are being joined.                 *)
LEMMA JoinedSteps ==
  ASSUME StopFlags, BufferInv, Next, ctl = "join", ctl' = "join"
  PROVE  /\ rpc' = rpc \/ <<rpc, rpc'>> \in {<<"read", "exit">>, <<"swap", "exit">>, <<"push", "read">>,
                                            <<"copy", "swap">>}
         /\ wpc' = wpc \/ <<wpc, wpc'>> \in {<<"check", "exit">>, <<"swap", "exit">>, <<"wait", "check">>,
                                            <<"sleep", "wait">>}
<1>1. stopFlag /\ stopWorker
  BY DEF StopFlags
<1>2. CASE Run
  BY <1>1, <1>2 DEF Run, ReadFrame, Push, Bypass, BypassSwap, SwapOut, RunStopped, Woken
<1>3. CASE Worker
  BY <1>1, <1>3 DEF Worker, Copy, Empty, Sleep, Swap, SwapOut, WorkerStopped
<1>4. CASE Consume \/ Spurious \/ flush \/ setBuffering \/ \E s \in Inputs : Publish(s)
  BY <1>4 DEF Consume, Spurious, flush, setBuffering, Publish
<1>5. ~Finish
  BY DEF Finish, StopStreams, StopWorker, Join, Apply
<1>6. \A o, s : ~Call(o, s)
  BY DEF Call
<1> QED BY <1>2, <1>3, <1>4, <1>5, <1>6 DEF Next

(* A stop() of the block waits for at most two steps of run() and three of *)
(* worker(), of which only the wake-up of a worker() that had been about   *)
(* to block need not come.                                                 *)
THEOREM StopBoundedHolds == Spec => [][StopBounded]_vars
<1>1. StopFlags /\ BufferInv /\ [Next]_vars => [StopBounded]_vars
  <2> SUFFICES ASSUME StopFlags, BufferInv, Next PROVE StopBounded
    BY DEF StopBounded, vars, control
  <2>1. ASSUME ctl = "join", ctl' = "join", rpc' # rpc
        PROVE  RunLeft' < RunLeft
    BY <2>1, JoinedSteps DEF RunLeft
  <2>2. ASSUME ctl = "join", ctl' = "join", wpc' # wpc
        PROVE  WorkLeft' < WorkLeft
    BY <2>2, JoinedSteps DEF WorkLeft
  <2>3. ASSUME ctl = "worker", ctl' = "join" PROVE wpc' # "wait"
    <3>1. StopWorker
      BY <2>3 DEF Next, Run, ReadFrame, Push, Bypass, BypassSwap, RunStopped, Accept, Worker, Copy,
                  Empty, Sleep, Swap, WorkerStopped, Finish, StopStreams, Join, Apply, Consume,
                  Spurious, flush, setBuffering, Publish, Call, control
    <3> QED BY <3>1 DEF StopWorker, Woken
  <2> QED BY <2>1, <2>2, <2>3 DEF StopBounded
<1> QED BY <1>1, StopFlagsHold, Invariance, PTL DEF Spec
=============================================================================
