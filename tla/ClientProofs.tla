------------------------------ MODULE ClientProofs -----------------------------
(***************************************************************************)
(* What PacketWaiter does guarantee, for any number of requests and any    *)
(* depth of the connection: the receive buffer is stable while an answer   *)
(* is loaded, and the answers shown never go back.                         *)
(***************************************************************************)
EXTENDS ServerClient, TLAPS

-----------------------------------------------------------------------------
(* What is left of a request, named for its first step and its length.     *)
Send5 == <<"send", "await", "load", "handled", "notify">>
Await4 == <<"await", "load", "handled", "notify">>
Load3 == <<"load", "handled", "notify">>
Send5F == <<"send", "register", "await", "handled", "notify">>
Register4 == <<"register", "await", "handled", "notify">>
Await3 == <<"await", "handled", "notify">>
Handled2 == <<"handled", "notify">>
Notify1 == <<"notify">>

(* The request has no waiter yet; it has not told the worker to go on.     *)
Unregistered == {PostAsk, Ask, Send5F, Register4}
Unhandled == Unregistered \cup {Send5, Await4, Load3, Await3, Handled2}
Rests == Unhandled \cup {Notify1, <<>>}

(* The packets in either direction.                                        *)
Names == {"none", "getUI", "uiAction", "start", "stop", "setFrequency"}
Commands == [cmd : Names, id : Nat]
Packets == [type : {"none", "sampleRate", "disconnect", "data", "ack"}, cmd : Names, id : Nat]

(* Every request begins with nothing done.                                 *)
LEMMA Begins ==
  ASSUME NEW o \in DOMAIN Steps
  PROVE  Steps[o] \in Unregistered /\ Command(o) # "none" /\ {o, Command(o)} \subseteq Names
<1>1. DOMAIN Steps = {"getUI", "uiAction", "start", "stop", "setFrequency"}
  BY DEF Steps
<1>2. /\ Steps["getUI"] = Ask /\ Steps["uiAction"] = Ask
      /\ Steps["start"] = PostAsk /\ Steps["stop"] = PostAsk
      /\ Steps["setFrequency"] = Send5F
  BY DEF Steps, Send5F
<1>3. o \in {"getUI", "uiAction", "start", "stop", "setFrequency"}
  BY <1>1
<1> HIDE DEF Steps
<1>4. Steps[o] \in Unregistered
  BY <1>2, <1>3 DEF Unregistered
<1>5. Command(o) # "none" /\ {o, Command(o)} \subseteq Names
  BY <1>3 DEF Command, Names
<1> QED BY <1>4, <1>5

(* The steps of a request follow each other in order.                      *)
LEMMA Follows ==
  /\ Head(PostAsk) = "post" /\ Tail(PostAsk) = Ask
  /\ Head(Ask) = "register" /\ Tail(Ask) = Send5
  /\ Head(Send5) = "send" /\ Tail(Send5) = Await4
  /\ Head(Await4) = "await" /\ Tail(Await4) = Load3
  /\ Head(Load3) = "load" /\ Tail(Load3) = Handled2
  /\ Head(Send5F) = "send" /\ Tail(Send5F) = Register4
  /\ Head(Register4) = "register" /\ Tail(Register4) = Await3
  /\ Head(Await3) = "await" /\ Tail(Await3) = Handled2
  /\ Head(Handled2) = "handled" /\ Tail(Handled2) = Notify1
  /\ Head(Notify1) = "notify" /\ Tail(Notify1) = <<>>
<1>1. Head(PostAsk) = "post" /\ Tail(PostAsk) = Ask
  BY DEF PostAsk, Ask
<1>2. Head(Ask) = "register" /\ Tail(Ask) = Send5
  BY DEF Ask, Send5
<1>3. Head(Send5) = "send" /\ Tail(Send5) = Await4
  BY DEF Send5, Await4
<1>4. Head(Await4) = "await" /\ Tail(Await4) = Load3
  BY DEF Await4, Load3
<1>5. Head(Load3) = "load" /\ Tail(Load3) = Handled2
  BY DEF Load3, Handled2
<1>6. Head(Send5F) = "send" /\ Tail(Send5F) = Register4
  BY DEF Send5F, Register4
<1>7. Head(Register4) = "register" /\ Tail(Register4) = Await3
  BY DEF Register4, Await3
<1>8. Head(Await3) = "await" /\ Tail(Await3) = Handled2
  BY DEF Await3, Handled2
<1>9. Head(Handled2) = "handled" /\ Tail(Handled2) = Notify1
  BY DEF Handled2, Notify1
<1>10. Head(Notify1) = "notify" /\ Tail(Notify1) = <<>>
  BY DEF Notify1
<1> QED BY <1>1, <1>2, <1>3, <1>4, <1>5, <1>6, <1>7, <1>8, <1>9, <1>10

(* None of them is the end of a request.                                   *)
LEMMA Unfinished == <<>> \notin Unhandled \cup {Notify1}
BY DEF Unhandled, Unregistered, PostAsk, Ask, Send5, Await4, Load3, Send5F, Register4,
       Await3, Handled2, Notify1

(* What may be left of a request at each of its steps, and after it.       *)
LEMMA StepOf ==
  ASSUME steps \in Rests
  PROVE  /\ At("post") => steps = PostAsk /\ Tail(steps) = Ask
         /\ At("register") => \/ steps = Ask /\ Tail(steps) = Send5
                              \/ steps = Register4 /\ Tail(steps) = Await3
         /\ At("send") => \/ steps = Send5 /\ Tail(steps) = Await4
                          \/ steps = Send5F /\ Tail(steps) = Register4
         /\ At("await") => \/ steps = Await4 /\ Tail(steps) = Load3
                           \/ steps = Await3 /\ Tail(steps) = Handled2
         /\ At("load") <=> steps = Load3
         /\ At("load") => Tail(steps) = Handled2
         /\ At("handled") => steps = Handled2 /\ Tail(steps) = Notify1
         /\ At("notify") => steps = Notify1 /\ Tail(steps) = <<>>
BY Follows, Unfinished DEF At, Rests, Unhandled, Unregistered

(* The steps before a request is registered, and before it is handled, are *)
(* told from the others, and so are the last ones.                         *)
LEMMA Apart ==
  /\ Unregistered \cap {Send5, Await4, Load3, Await3, Handled2, Notify1, <<>>} = {}
  /\ Unhandled \cap {Notify1, <<>>} = {}
  /\ {Load3, Handled2, Notify1, <<>>} \cap (Unregistered \cup {Send5, Await4, Await3}) = {}
  /\ Load3 \notin {Handled2, Notify1, <<>>} /\ Handled2 \notin {Notify1, <<>>}
<1>1. Send5 # Send5F
  BY Follows
<1> QED BY <1>1, Follows, Unfinished DEF Unhandled, Unregistered

(* Every one of them is what is left of some request.                      *)
LEMMA Inside ==
  /\ {PostAsk, Ask, Send5F, Register4} \subseteq Unregistered
  /\ Unregistered \subseteq Unhandled
  /\ {Send5, Await4, Load3, Await3, Handled2} \subseteq Unhandled
  /\ Unhandled \subseteq Rests /\ {Notify1, <<>>} \subseteq Rests
BY DEF Unregistered, Unhandled, Rests

(* Each step keeps to the requests there are, and what it leaves undone    *)
(* was undone before it.                                                   *)
LEMMA Moves ==
  ASSUME steps \in Rests
  PROVE  /\ At("post") \/ At("send") =>
              /\ steps \in Unhandled /\ Tail(steps) \in Unhandled
              /\ Tail(steps) \in Unregistered => steps \in Unregistered
              /\ Tail(steps) \notin {Load3, Handled2, Notify1, <<>>}
         /\ At("register") =>
              /\ steps \in Unregistered /\ steps \in Unhandled
              /\ Tail(steps) \in Unhandled \ (Unregistered \cup {Load3, Handled2, Notify1, <<>>})
         /\ At("await") =>
              /\ steps \in Unhandled \ Unregistered
              /\ Tail(steps) \in {Load3, Handled2} /\ Tail(steps) \in Unhandled \ Unregistered
         /\ At("load") =>
              /\ steps = Load3 /\ steps \in Unhandled \ Unregistered
              /\ Tail(steps) = Handled2 /\ Handled2 \in Unhandled \ (Unregistered \cup {Load3})
         /\ At("handled") =>
              /\ steps = Handled2 /\ steps \in Unhandled \ Unregistered
              /\ Tail(steps) = Notify1 /\ Notify1 \notin Unhandled \cup {Load3}
         /\ At("notify") =>
              /\ steps = Notify1 /\ steps \notin Unhandled
              /\ Tail(steps) = <<>> /\ <<>> \notin Unhandled \cup {Load3}
<1>1. CASE At("post")
  BY <1>1, StepOf, Apart, Inside DEF At
<1>2. CASE At("register")
  BY <1>2, StepOf, Apart, Inside DEF At
<1>3. CASE At("send")
  <2>1. CASE steps = Send5 /\ Tail(steps) = Await4
    BY <1>3, <2>1, Apart, Inside DEF At
  <2>2. CASE steps = Send5F /\ Tail(steps) = Register4
    BY <1>3, <2>2, Apart, Inside DEF At
  <2> QED BY <1>3, <2>1, <2>2, StepOf
<1>4. CASE At("await")
  BY <1>4, StepOf, Apart, Inside DEF At
<1>5. CASE At("load")
  BY <1>5, StepOf, Apart, Inside DEF At
<1>6. CASE At("handled")
  BY <1>6, StepOf, Apart, Inside DEF At
<1>7. CASE At("notify")
  BY <1>7, StepOf, Apart, Inside DEF At
<1> QED BY <1>1, <1>2, <1>3, <1>4, <1>5, <1>6, <1>7

(* A request that fails has still to tell the worker to go on.             *)
LEMMA Failed == <<"handled", "notify">> = Handled2
BY DEF Handled2

-----------------------------------------------------------------------------
(* What Append and Tail do to the elements of a sequence.                  *)
LEMMA AppendMore ==
  ASSUME NEW S, NEW q \in Seq(S), NEW x \in S
  PROVE  /\ Append(q, x) \in Seq(S) /\ Len(Append(q, x)) = Len(q) + 1 /\ Len(q) \in Nat
         /\ \A i \in 1 .. Len(q) + 1 : Append(q, x)[i] = IF i = Len(q) + 1 THEN x ELSE q[i]
OBVIOUS

LEMMA Elements ==
  ASSUME NEW S, NEW q \in Seq(S)
  PROVE  Len(q) \in Nat /\ \A i \in 1 .. Len(q) : q[i] \in S
OBVIOUS

LEMMA TailLess ==
  ASSUME NEW S, NEW q \in Seq(S), q # <<>>
  PROVE  /\ Head(q) = q[1] /\ q[1] \in S /\ Len(q) \in Nat \ {0}
         /\ Tail(q) \in Seq(S) /\ Len(Tail(q)) = Len(q) - 1
         /\ \A i \in 1 .. Len(q) - 1 : Tail(q)[i] = q[i + 1]
OBVIOUS

-----------------------------------------------------------------------------

(* The types of the state, and that only an acknowledgement names a        *)
(* command.                                                                *)
Types ==
  /\ op \in DOMAIN Steps /\ steps \in Rests /\ last \in Nat \ {0}
  /\ \A w \in waiters : w.id \in 1 .. last
  /\ ready \subseteq 1 .. last /\ handled \subseteq 1 .. last /\ canceled \subseteq 1 .. last
  /\ todo \subseteq 1 .. last /\ cur \in 0 .. last
  /\ rbuf \in Packets /\ toClient \in Seq(Packets)
  /\ toServer \in Seq(Commands)
  /\ rbuf.cmd # "none" => rbuf.type = "ack"
  /\ \A i \in 1 .. Len(toClient) : toClient[i].cmd # "none" => toClient[i].type = "ack"
  /\ worker = "notify" => cur # 0
  /\ cancelling \in BOOLEAN /\ admitted \in BOOLEAN /\ shown \in Nat

(* The worker waits for a waiter that it has notified.                     *)
Waiting == worker \in {"check", "dozing", "asleep"}

(* Where the waiter of the current request is.  Until the caller has told  *)
(* the worker to go on, the worker waits for it once it has been notified, *)
(* and the buffer holds an answer to its command, or a refusal.            *)
Current ==
  /\ steps \in Unregistered =>
       last \notin ready \cup todo /\ cur # last /\ \A w \in waiters : w.id # last
  /\ steps \in Unhandled => last \notin handled
  /\ \A w \in waiters : w.id = last => w.cmd = Command(op)
  /\ last \in todo /\ ~cancelling => rbuf.cmd = Command(op)
  /\ (Waiting \/ worker = "notify") /\ cancelling => cur \in canceled
  /\ (Waiting \/ worker = "notify") /\ ~cancelling /\ cur = last => rbuf.cmd = Command(op)
  /\ last \in ready \ handled => Waiting /\ cur = last
  /\ steps = Load3 => last \in ready \ canceled

(* Answers come in the order of their requests.                            *)
Order ==
  /\ shown =< last
  /\ \A i \in 1 .. Len(toServer) : shown =< toServer[i].id /\ toServer[i].id =< last
  /\ \A i, j \in 1 .. Len(toServer) : i < j => toServer[i].id =< toServer[j].id
  /\ \A i \in 1 .. Len(toClient) : toClient[i].type = "ack" =>
       /\ shown =< toClient[i].id /\ toClient[i].id =< last
       /\ \A j \in 1 .. Len(toServer) : toClient[i].id =< toServer[j].id
  /\ \A i, j \in 1 .. Len(toClient) :
       i < j /\ toClient[i].type = "ack" /\ toClient[j].type = "ack" =>
         toClient[i].id =< toClient[j].id
  /\ rbuf.type = "ack" =>
       /\ shown =< rbuf.id /\ rbuf.id =< last
       /\ \A i \in 1 .. Len(toServer) : rbuf.id =< toServer[i].id
       /\ \A i \in 1 .. Len(toClient) : toClient[i].type = "ack" => rbuf.id =< toClient[i].id

(* A client that is turned away gets no answer.                            *)
Refused ==
  ~admitted =>
    /\ phase # "open" /\ ~running
    /\ \A i \in 1 .. Len(toClient) : toClient[i].type = "disconnect"
    /\ worker \in {"recv", "done"} \/ cancelling
    /\ ready \subseteq canceled
    /\ steps \in {Handled2, Notify1, <<>>} => result = "failed"

(* The inductive invariant.                                                *)
Inv == Types /\ Current /\ Order /\ Refused

-----------------------------------------------------------------------------
(* The numbers of the requests on their way.                               *)
LEMMA Ids ==
  ASSUME Types
  PROVE  /\ \A i \in 1 .. Len(toServer) : toServer[i].id \in Nat
         /\ \A i \in 1 .. Len(toClient) : toClient[i].id \in Nat /\ toClient[i] \in Packets
         /\ rbuf.id \in Nat /\ Len(toServer) \in Nat /\ Len(toClient) \in Nat
<1>1. toServer \in Seq(Commands) /\ toClient \in Seq(Packets) /\ rbuf \in Packets
  BY DEF Types
<1>2. /\ \A i \in 1 .. Len(toServer) : toServer[i] \in Commands
      /\ \A i \in 1 .. Len(toClient) : toClient[i] \in Packets
      /\ Len(toServer) \in Nat /\ Len(toClient) \in Nat
  BY <1>1, Elements
<1>3. \A p \in Packets : p.id \in Nat
  BY DEF Packets
<1>4. \A p \in Commands : p.id \in Nat
  BY DEF Commands
<1> QED BY <1>1, <1>2, <1>3, <1>4

(* Nobody knows the number of a new request.                               *)
LEMMA BeginInv ==
  ASSUME Inv, NEW o \in DOMAIN Steps, Begin(o)
  PROVE  Inv'
<1> USE DEF Begin, caller, flags, walk, state, peer, Inv
<1>1. Types' BY Inside, Begins DEF Types
<1>2. Current' BY Apart, Begins DEF Types, Current, Waiting
<1>3. Order'
  <2>1. last \in Nat /\ last' = last + 1 /\ UNCHANGED <<shown, toServer, toClient, rbuf>>
    BY DEF Types
  <2>2. shown \in Nat /\ shown =< last
    BY DEF Types, Order
  <2>3. \A n \in Nat : n =< last => n =< last'
    BY <2>1
  <2>4. \A i \in 1 .. Len(toServer) : shown =< toServer[i].id /\ toServer[i].id =< last'
    BY <2>3, Ids DEF Order
  <2>5. \A i \in 1 .. Len(toClient) : toClient[i].type = "ack" =>
          shown =< toClient[i].id /\ toClient[i].id =< last'
    BY <2>3, Ids DEF Order
  <2>6. rbuf.type = "ack" => rbuf.id =< last'
    BY <2>3, Ids DEF Order
  <2> HIDE DEF Begin, Inv
  <2> QED BY <2>1, <2>2, <2>3, <2>4, <2>5, <2>6 DEF Order, Inv
<1>4. Refused' BY DEF Refused
<1> QED BY <1>1, <1>2, <1>3, <1>4

(* A command is sent behind all the others.                                *)
LEMMA SendInv ==
  ASSUME Inv, Send
  PROVE  Inv'
<1> USE DEF Send, SendPacket, Proceed, caller, flags, walk, state, peer, Inv
<1>0. \/ UNCHANGED toServer
      \/ \E c \in Names : toServer' = Append(toServer, [cmd |-> c, id |-> last])
  <2>1. op \in Names /\ Command(op) \in Names
    BY Begins DEF Types
  <2> QED BY <2>1
<1>1. Types'
  <2>1. toServer' \in Seq(Commands)
    <3>1. \A c \in Names : [cmd |-> c, id |-> last] \in Commands
      BY DEF Types, Commands
    <3>2. toServer \in Seq(Commands)
      BY DEF Types
    <3>3. CASE UNCHANGED toServer
      BY <3>2, <3>3
    <3>4. ASSUME NEW c \in Names, toServer' = Append(toServer, [cmd |-> c, id |-> last])
          PROVE  toServer' \in Seq(Commands)
      BY <3>1, <3>2, <3>4
    <3> QED BY <1>0, <3>3, <3>4
  <2>2. steps' \in Rests
    BY Moves, Inside DEF Types
  <2> QED BY <2>1, <2>2 DEF Types
<1>2. Current' BY Moves DEF Types, Current, Waiting
<1>3. Order'
  <2>1. CASE UNCHANGED toServer
    BY <2>1 DEF Order
  <2>2. CASE ~UNCHANGED toServer
    <3>1. PICK c \in Names : toServer' = Append(toServer, [cmd |-> c, id |-> last])
      BY <1>0, <2>2
    <3>2. /\ Len(toServer') = Len(toServer) + 1 /\ Len(toServer) \in Nat
          /\ \A i \in 1 .. Len(toServer) + 1 :
               toServer'[i] = IF i = Len(toServer) + 1 THEN [cmd |-> c, id |-> last]
                              ELSE toServer[i]
      <4>1. [cmd |-> c, id |-> last] \in Commands
        BY DEF Types, Commands
      <4>2. toServer \in Seq(Commands)
        BY DEF Types
      <4> QED BY <3>1, <4>1, <4>2, AppendMore
    <3>3. \A i \in 1 .. Len(toServer) + 1 :
               toServer'[i].id = IF i = Len(toServer) + 1 THEN last ELSE toServer[i].id
      BY <3>2
    <3>4. last \in Nat /\ UNCHANGED <<shown, last, toClient, rbuf>>
      BY DEF Types
    <3>5. /\ \A i \in 1 .. Len(toServer') : shown =< toServer'[i].id /\ toServer'[i].id =< last
          /\ \A i, j \in 1 .. Len(toServer') : i < j => toServer'[i].id =< toServer'[j].id
      <4>1. shown =< last /\ \A i \in 1 .. Len(toServer) :
              toServer[i].id \in Nat /\ shown =< toServer[i].id /\ toServer[i].id =< last
        BY Ids DEF Order
      <4>2. \A i, j \in 1 .. Len(toServer) : i < j => toServer[i].id =< toServer[j].id
        BY DEF Order
      <4> HIDE DEF Send, SendPacket, Inv
      <4>3. \A i \in 1 .. Len(toServer') : shown =< toServer'[i].id /\ toServer'[i].id =< last
        BY <3>2, <3>3, <3>4, <4>1
      <4>4. ASSUME NEW i \in 1 .. Len(toServer'), NEW j \in 1 .. Len(toServer'), i < j
            PROVE  toServer'[i].id =< toServer'[j].id
        <5>1. i \in 1 .. Len(toServer) /\ toServer'[i].id = toServer[i].id
          BY <3>2, <3>3, <4>4
        <5>2. CASE j = Len(toServer) + 1
          BY <3>2, <3>3, <4>1, <5>1, <5>2
        <5>3. CASE j \in 1 .. Len(toServer)
          BY <3>2, <3>3, <4>2, <4>4, <5>1, <5>3
        <5> QED BY <3>2, <5>2, <5>3
      <4> QED BY <4>3, <4>4
    <3>6. /\ \A i \in 1 .. Len(toClient) : toClient[i].type = "ack" =>
               \A j \in 1 .. Len(toServer') : toClient[i].id =< toServer'[j].id
          /\ rbuf.type = "ack" => \A j \in 1 .. Len(toServer') : rbuf.id =< toServer'[j].id
      <4>1. /\ \A i \in 1 .. Len(toClient) : toClient[i].type = "ack" =>
                 /\ toClient[i].id =< last
                 /\ \A j \in 1 .. Len(toServer) : toClient[i].id =< toServer[j].id
            /\ rbuf.type = "ack" =>
                 rbuf.id =< last /\ \A j \in 1 .. Len(toServer) : rbuf.id =< toServer[j].id
        BY DEF Order
      <4> HIDE DEF Send, SendPacket, Inv
      <4> QED BY <3>2, <3>3, <4>1
    <3> HIDE DEF Send, SendPacket, Inv
    <3> QED BY <3>4, <3>5, <3>6 DEF Order, Inv
  <2> QED BY <2>1, <2>2
<1>4. Refused' BY Moves DEF Types, Refused
<1> QED BY <1>1, <1>2, <1>3, <1>4

(* A waiter is registered for its own command.                             *)
LEMMA RegisterInv ==
  ASSUME Inv, Register
  PROVE  Inv'
<1> USE DEF Register, Proceed, Walking, caller, flags, walk, state, peer, Inv
<1>0. /\ At("register") /\ last \in 1 .. last
      /\ steps' \in Rests /\ steps' \notin Unregistered \cup {Load3}
      /\ waiters' = waiters \/ waiters' = waiters \cup {[id |-> last, cmd |-> Command(op)]}
      /\ todo' = todo \/ (todo' = todo \cup {last} /\ (cancelling \/ rbuf.cmd = Command(op)))
      /\ UNCHANGED <<op, last, ready, handled, canceled, worker, cur, notified, cancelling, rbuf,
                     shown, toServer, toClient, admitted>>
  <2>1. last \in 1 .. last /\ steps \in Rests
    BY DEF Types
  <2>2. steps' \in {Tail(steps), <<>>} /\ <<>> \in Rests /\ <<>> \notin Unregistered \cup {Load3}
    BY Inside, Apart
  <2>3. Tail(steps) \in Rests /\ Tail(steps) \notin Unregistered \cup {Load3}
    BY <2>1, Moves, Inside
  <2> QED BY <2>1, <2>2, <2>3
<1>1. Types'
  <2>1. \A w \in waiters' : w.id \in 1 .. last
    BY <1>0 DEF Types
  <2>2. todo' \subseteq 1 .. last
    BY <1>0 DEF Types
  <2> QED BY <1>0, <2>1, <2>2 DEF Types
<1>2. Current'
  <2>1. steps \in Unregistered /\ steps \in Unhandled
    BY <1>0, Moves DEF Types
  <2>2. last \notin ready \cup todo /\ cur # last /\ last \notin handled
    BY <2>1 DEF Current
  <2>3. \A w \in waiters' : w.id = last => w.cmd = Command(op)
    BY <1>0 DEF Current
  <2>4. last \in todo' /\ ~cancelling => rbuf.cmd = Command(op)
    BY <1>0, <2>2
  <2> QED BY <1>0, <2>2, <2>3, <2>4 DEF Current, Waiting
<1>3. Order' BY DEF Order
<1>4. Refused' BY Moves DEF Types, Refused
<1> QED BY <1>1, <1>2, <1>3, <1>4

(* An answer the worker keeps, or a failure.                               *)
LEMMA AwaitInv ==
  ASSUME Inv, Await
  PROVE  Inv'
<1> USE DEF Await, Proceed, Fail, caller, flags, walk, state, peer, Inv
<1>1. Types' BY Moves, Inside, Failed DEF Types
<1>2. Current' BY Moves, Apart, Failed DEF Types, Current, Waiting
<1>3. Order' BY DEF Order
<1>4. Refused' BY DEF Refused
<1> QED BY <1>1, <1>2, <1>3, <1>4

(* The answer loaded is older than all that are under way.                 *)
LEMMA LoadInv ==
  ASSUME Inv, Load
  PROVE  Inv'
<1> USE DEF Load, Proceed, caller, flags, walk, state, peer, Inv
<1>0. rbuf.type = "ack" /\ rbuf.id \in Nat
  <2>1. Waiting /\ cur = last /\ last \notin canceled
    BY Moves DEF Types, Current
  <2>2. rbuf.cmd = Command(op) /\ Command(op) # "none"
    BY <2>1, Begins DEF Types, Current
  <2> QED BY <2>2, Ids DEF Types
<1>1. Types'
  <2>1. steps' \in Rests
    BY Moves, Inside DEF Types
  <2> QED BY <1>0, <2>1 DEF Types
<1>2. Current' BY Moves DEF Types, Current, Waiting
<1>3. Order' BY <1>0, Ids DEF Order
<1>4. Refused' BY Moves DEF Types, Current, Refused
<1> QED BY <1>1, <1>2, <1>3, <1>4

(* The worker may go on.                                                   *)
LEMMA HandledInv ==
  ASSUME Inv, Handled
  PROVE  Inv'
<1> USE DEF Handled, Proceed, caller, flags, walk, state, peer, Inv
<1>1. Types'
  <2>1. steps' \in Rests
    BY Moves, Inside DEF Types
  <2>2. handled' \subseteq 1 .. last
    BY DEF Types
  <2> QED BY <2>1, <2>2 DEF Types
<1>2. Current' BY Moves, Apart DEF Types, Current, Waiting
<1>3. Order' BY DEF Order
<1>4. Refused' BY Moves DEF Types, Refused
<1> QED BY <1>1, <1>2, <1>3, <1>4

(* The wake-up changes nothing but the worker's sleep.                     *)
LEMMA NotifyHandledInv ==
  ASSUME Inv, NotifyHandled
  PROVE  Inv'
<1> USE DEF NotifyHandled, Proceed, caller, flags, walk, state, peer, Inv
<1>1. Types' BY Moves, Inside DEF Types
<1>2. Current' BY Moves, Apart DEF Types, Current, Waiting
<1>3. Order' BY DEF Order
<1>4. Refused' BY Moves DEF Types, Refused
<1> QED BY <1>1, <1>2, <1>3, <1>4

(* The constructor has its answer, hence the server's admission.           *)
LEMMA OpenedInv ==
  ASSUME Inv, Opened
  PROVE  Inv'
<1> USE DEF Opened, caller, flags, walk, state, peer, Inv
<1>1. Types' BY DEF Types
<1>2. Current' BY DEF Current, Waiting
<1>3. Order' BY DEF Order
<1>4. Refused' BY DEF Refused
<1> QED BY <1>1, <1>2, <1>3, <1>4

(* Closing is left to the worker.                                          *)
LEMMA CloseInv ==
  ASSUME Inv, Close
  PROVE  Inv'
<1> USE DEF Close, caller, flags, walk, state, peer, Inv
<1>1. Types' BY DEF Types
<1>2. Current' BY DEF Current, Waiting
<1>3. Order' BY DEF Order
<1>4. Refused' BY DEF Refused
<1> QED BY <1>1, <1>2, <1>3, <1>4

(* The worker has gone.                                                    *)
LEMMA ClosedInv ==
  ASSUME Inv, Closed
  PROVE  Inv'
<1> USE DEF Closed, caller, flags, walk, state, peer, Inv
<1>1. Types' BY DEF Types
<1>2. Current' BY DEF Current, Waiting
<1>3. Order' BY DEF Order
<1>4. Refused' BY DEF Refused
<1> QED BY <1>1, <1>2, <1>3, <1>4

(* Nothing is received while a caller loads.                               *)
LEMMA ReceiveInv ==
  ASSUME Inv, Receive
  PROVE  Inv'
<1> USE DEF Receive, caller, flags, walk, state, peer, Inv
<1>1. Types' BY DEF Types
<1>2. Current' BY DEF Current, Waiting
<1>3. Order' BY DEF Order
<1>4. Refused'
  <2> SUFFICES ASSUME ~admitted
               PROVE  /\ worker' = "visit" /\ cancelling'
                      /\ \A i \in 1 .. Len(toClient') : toClient'[i].type = "disconnect"
    BY DEF Refused
  <2>1. rbuf' = toClient[1] /\ 1 \in 1 .. Len(toClient)
    BY TailLess DEF Types
  <2>2. rbuf'.type = "disconnect"
    BY <2>1 DEF Refused
  <2>3. \A i \in 1 .. Len(toClient') : toClient'[i].type = "disconnect"
    BY TailLess DEF Types, Refused
  <2> QED BY <2>2, <2>3
<1> QED BY <1>1, <1>2, <1>3, <1>4

(* Only a worker that waits for nobody leaves.                             *)
LEMMA HangupInv ==
  ASSUME Inv, Hangup
  PROVE  Inv'
<1> USE DEF Hangup, caller, flags, walk, state, peer, Inv
<1>1. Types' BY DEF Types
<1>2. Current' BY DEF Current, Waiting
<1>3. Order' BY DEF Order
<1>4. Refused' BY DEF Refused
<1> QED BY <1>1, <1>2, <1>3, <1>4

(* The same when nothing comes any more.                                   *)
LEMMA StallInv ==
  ASSUME Inv, Stall
  PROVE  Inv'
<1> USE DEF Stall, caller, flags, walk, state, peer, Inv
<1>1. Types' BY DEF Types
<1>2. Current' BY DEF Current, Waiting
<1>3. Order' BY DEF Order
<1>4. Refused' BY DEF Refused
<1> QED BY <1>1, <1>2, <1>3, <1>4

(* Samples go to nobody's waiter.                                          *)
LEMMA SwapInv ==
  ASSUME Inv, Swap
  PROVE  Inv'
<1> USE DEF Swap, caller, flags, walk, state, peer, Inv
<1>1. Types' BY DEF Types
<1>2. Current' BY DEF Current, Waiting
<1>3. Order' BY DEF Order
<1>4. Refused' BY DEF Refused
<1> QED BY <1>1, <1>2, <1>3, <1>4

(* A waiter that was met is told so first.                                 *)
LEMMA VisitInv ==
  ASSUME Inv, Visit
  PROVE  Inv'
<1> USE DEF Visit, caller, flags, walk, state, peer, Inv
<1>1. Types' BY Begins DEF Types
<1>2. Current' BY Inside DEF Current, Waiting
<1>3. Order' BY DEF Order
<1>4. Refused' BY DEF Refused
<1> QED BY <1>1, <1>2, <1>3, <1>4

(* The worker has notified a waiter and now waits for it.                  *)
LEMMA NotifyInv ==
  ASSUME Inv, Notify
  PROVE  Inv'
<1> USE DEF Notify, caller, flags, walk, state, peer, Inv
<1>1. Types'
  <2>1. cur \in 1 .. last
    BY DEF Types
  <2> QED BY <2>1 DEF Types
<1>2. Current' BY DEF Current, Waiting
<1>3. Order' BY DEF Order
<1>4. Refused' BY DEF Current, Refused
<1> QED BY <1>1, <1>2, <1>3, <1>4

(* It goes on only when the waiter was handled.                            *)
LEMMA CheckInv ==
  ASSUME Inv, Check
  PROVE  Inv'
<1> USE DEF Check, caller, flags, walk, state, peer, Inv
<1>1. Types' BY DEF Types
<1>2. Current' BY DEF Current, Waiting
<1>3. Order' BY DEF Order
<1>4. Refused' BY DEF Refused
<1> QED BY <1>1, <1>2, <1>3, <1>4

(* It has looked and goes to sleep.                                        *)
LEMMA DozeInv ==
  ASSUME Inv, Doze
  PROVE  Inv'
<1> USE DEF Doze, caller, flags, walk, state, peer, Inv
<1>1. Types' BY DEF Types
<1>2. Current' BY DEF Current, Waiting
<1>3. Order' BY DEF Order
<1>4. Refused' BY DEF Refused
<1> QED BY <1>1, <1>2, <1>3, <1>4

(* It wakes up and looks again.                                            *)
LEMMA SpuriousWakeupInv ==
  ASSUME Inv, SpuriousWakeup
  PROVE  Inv'
<1> USE DEF SpuriousWakeup, caller, flags, walk, state, peer, Inv
<1>1. Types' BY DEF Types
<1>2. Current' BY DEF Current, Waiting
<1>3. Order' BY DEF Order
<1>4. Refused' BY DEF Refused
<1> QED BY <1>1, <1>2, <1>3, <1>4

(* Waiters are taken off the list.                                         *)
LEMMA RemoveInv ==
  ASSUME Inv, Remove
  PROVE  Inv'
<1> USE DEF Remove, caller, flags, walk, state, peer, Inv
<1>1. Types' BY DEF Types
<1>2. Current' BY DEF Current, Waiting
<1>3. Order' BY DEF Order
<1>4. Refused' BY DEF Refused
<1> QED BY <1>1, <1>2, <1>3, <1>4

(* Answers leave the server in the order of the commands.                  *)
LEMMA CommandHandlerInv ==
  ASSUME Inv, CommandHandler
  PROVE  Inv'
<1> USE DEF CommandHandler, Room, Packet, caller, flags, walk, state, peer, Inv
<1> DEFINE m == Head(toServer)
           p == [type |-> "ack", cmd |-> m.cmd, id |-> m.id]
<1>a. /\ m = toServer[1] /\ m \in Commands /\ Len(toServer) \in Nat \ {0}
      /\ toServer' \in Seq(Commands) /\ Len(toServer') = Len(toServer) - 1
      /\ \A i \in 1 .. Len(toServer) - 1 : toServer'[i] = toServer[i + 1]
  <2>1. toServer \in Seq(Commands) /\ toServer # <<>> /\ toServer' = Tail(toServer)
    BY DEF Types
  <2> QED BY <2>1, TailLess
<1>b. p \in Packets /\ p.type = "ack" /\ p.id = toServer[1].id
  <2>1. m.cmd \in Names /\ m.id \in Nat /\ m = toServer[1]
    BY <1>a DEF Commands
  <2> HIDE DEF m
  <2> QED BY <2>1 DEF Packets
<1>c. toClient' = toClient \/ toClient' = Append(toClient, p)
  OBVIOUS
<1> HIDE DEF p, m
<1>d. toClient' = Append(toClient, p) =>
        /\ toClient' \in Seq(Packets) /\ Len(toClient') = Len(toClient) + 1 /\ Len(toClient) \in Nat
        /\ \A i \in 1 .. Len(toClient) + 1 :
             toClient'[i] = IF i = Len(toClient) + 1 THEN p ELSE toClient[i]
  BY <1>b, AppendMore DEF Types
<1>1. Types' BY <1>a, <1>b, <1>c, <1>d DEF Types
<1>2. Current' BY DEF Current, Waiting
<1>3. Order'
  <2>1. /\ \A i \in 1 .. Len(toServer') : shown =< toServer'[i].id /\ toServer'[i].id =< last
        /\ \A i, j \in 1 .. Len(toServer') : i < j => toServer'[i].id =< toServer'[j].id
        /\ \A j \in 1 .. Len(toServer') : p.id =< toServer'[j].id
    BY <1>a, <1>b, Ids DEF Order
  <2>2. /\ \A i \in 1 .. Len(toClient) : toClient[i].type = "ack" =>
             /\ toClient[i].id =< p.id
             /\ \A j \in 1 .. Len(toServer') : toClient[i].id =< toServer'[j].id
        /\ rbuf.type = "ack" =>
             rbuf.id =< p.id /\ \A j \in 1 .. Len(toServer') : rbuf.id =< toServer'[j].id
        /\ shown =< p.id /\ p.id =< last
    BY <1>a, <1>b, Ids DEF Order
  <2>3. CASE toClient' = toClient
    BY <2>1, <2>2, <2>3 DEF Order
  <2>4. CASE toClient' = Append(toClient, p)
    BY <1>b, <1>d, <2>1, <2>2, <2>4, Ids DEF Order
  <2> QED BY <1>c, <2>3, <2>4
<1>4. Refused' BY DEF Refused
<1> QED BY <1>1, <1>2, <1>3, <1>4

(* Samples come in between.                                                *)
LEMMA SendSamplesInv ==
  ASSUME Inv, SendSamples
  PROVE  Inv'
<1> USE DEF SendSamples, Room, Packet, caller, flags, walk, state, peer, Inv
<1> DEFINE p == [type |-> "data", cmd |-> "none", id |-> 0]
<1>a. p \in Packets /\ p.type = "data" /\ p.cmd = "none" /\ toClient' = Append(toClient, p)
  <2>1. p \in Packets
    BY DEF Packets, Names
  <2> QED BY <2>1
<1> HIDE DEF p
<1>b. /\ toClient' \in Seq(Packets) /\ Len(toClient') = Len(toClient) + 1 /\ Len(toClient) \in Nat
      /\ \A i \in 1 .. Len(toClient) + 1 :
           toClient'[i] = IF i = Len(toClient) + 1 THEN p ELSE toClient[i]
  BY <1>a, AppendMore DEF Types
<1>1. Types' BY <1>a, <1>b DEF Types
<1>2. Current' BY DEF Current, Waiting
<1>3. Order'
  <2>1. UNCHANGED <<shown, last, toServer, rbuf>>
    OBVIOUS
  <2>2. \A i \in 1 .. Len(toClient') : toClient'[i].type = "ack" =>
          i \in 1 .. Len(toClient) /\ toClient'[i] = toClient[i]
    BY <1>a, <1>b
  <2> HIDE DEF SendSamples, Inv
  <2> QED BY <2>1, <2>2 DEF Order, Inv
<1>4. Refused' BY DEF Refused
<1> QED BY <1>1, <1>2, <1>3, <1>4

(* The connection fails.                                                   *)
LEMMA DisconnectInv ==
  ASSUME Inv, Disconnect
  PROVE  Inv'
<1> USE DEF Disconnect, caller, flags, walk, state, peer, Inv
<1>1. Types' BY DEF Types
<1>2. Current' BY DEF Current, Waiting
<1>3. Order' BY DEF Order
<1>4. Refused' BY DEF Refused
<1> QED BY <1>1, <1>2, <1>3, <1>4

(* Every step preserves the invariant.                                     *)
LEMMA NextInv ==
  ASSUME Inv, [Next]_vars
  PROVE  Inv'
<1>1. CASE UNCHANGED vars
  BY <1>1 DEF vars, caller, flags, walk, state, peer, Inv, Types, Current, Waiting, Order, Refused
<1>2. CASE Caller
  BY <1>2, SendInv, RegisterInv, AwaitInv, LoadInv, HandledInv, NotifyHandledInv, OpenedInv,
     ClosedInv DEF Caller
<1>3. CASE Worker
  BY <1>3, ReceiveInv, HangupInv, SwapInv, VisitInv, NotifyInv, CheckInv, DozeInv, RemoveInv
  DEF Worker
<1>4. CASE \E o \in DOMAIN Steps : Begin(o)
  BY <1>4, BeginInv
<1>5. CASE Close \/ Stall \/ Swap \/ SpuriousWakeup
  BY <1>5, CloseInv, StallInv, SwapInv, SpuriousWakeupInv
<1>6. CASE CommandHandler \/ SendSamples \/ Disconnect
  BY <1>6, CommandHandlerInv, SendSamplesInv, DisconnectInv
<1> QED BY <1>1, <1>2, <1>3, <1>4, <1>5, <1>6 DEF Next

(* It holds when the connection is made.                                   *)
LEMMA InitInv == Init => Inv
<1> SUFFICES ASSUME Init PROVE Inv
  OBVIOUS
<1>1. steps = Ask /\ op \in DOMAIN Steps
  BY DEF Init, Steps
<1>2. PICK p \in Packets : /\ toClient = <<p>> /\ p.cmd = "none" /\ p.type # "ack"
                           /\ ~admitted => p.type = "disconnect"
  BY DEF Init, Packet, Packets, Names
<1>3. /\ toClient \in Seq(Packets) /\ Len(toClient) = 1 /\ toClient[1] = p
  BY <1>2
<1>4. rbuf \in Packets /\ rbuf.cmd = "none" /\ rbuf.type = "none"
  BY DEF Init, NoPacket, Packet, Packets, Names
<1>5. Types
  <2>1. /\ steps \in Rests /\ last = 1 /\ waiters = {} /\ todo = {} /\ cur = 0 /\ shown = 0
        /\ ready = {} /\ handled = {} /\ canceled = {} /\ worker = "recv"
        /\ cancelling = FALSE /\ admitted \in BOOLEAN
    BY <1>1, Inside DEF Init
  <2>2. toServer \in Seq(Commands)
    BY DEF Init
  <2>3. \A i \in 1 .. Len(toClient) : toClient[i].cmd = "none"
    BY <1>2, <1>3
  <2>4. /\ last \in Nat \ {0} /\ shown \in Nat /\ cur \in 0 .. last
        /\ todo \subseteq 1 .. last /\ \A w \in waiters : w.id \in 1 .. last
        /\ ready \subseteq 1 .. last /\ handled \subseteq 1 .. last /\ canceled \subseteq 1 .. last
    BY <2>1
  <2> QED BY <1>1, <1>3, <1>4, <2>1, <2>2, <2>3, <2>4, Zenon DEF Types
<1>6. Current
  BY <1>1, Apart, Inside DEF Init, Current, Waiting
<1>7. Order
  BY <1>2, <1>3, <1>4 DEF Init, Order
<1>8. Refused
  BY <1>1, <1>2, <1>3, Apart, Inside DEF Init, Refused
<1> QED BY <1>5, <1>6, <1>7, <1>8 DEF Inv

(* The invariant, of every behaviour.                                      *)
LEMMA InvHolds == Spec => []Inv
<1> QED BY InitInv, NextInv, PTL DEF Spec

(***************************************************************************)
(* The worker leaves the receive buffer alone while a caller loads its     *)
(* answer (PacketWaiter::notify waits for dataHandled).                    *)
(***************************************************************************)
THEOREM BufferStableHolds == Spec => []BufferStable
<1>1. Inv => BufferStable
  <2> SUFFICES ASSUME Inv, At("load") PROVE BufferStable
    BY DEF BufferStable
  <2>1. /\ Waiting /\ cur = last /\ last \notin canceled
    BY Moves DEF Inv, Types, Current
  <2>2. rbuf.cmd = Command(op) /\ Command(op) # "none"
    BY <2>1, Begins DEF Inv, Types, Current
  <2> QED BY <2>1, <2>2 DEF Inv, Types, Waiting, BufferStable
<1> QED BY <1>1, InvHolds, PTL

(***************************************************************************)
(* The answers loaded never go back to an older request's, and a client    *)
(* that is turned away never opens, however many requests there are.       *)
(***************************************************************************)
THEOREM AnswersHolds == Spec => []Answers
<1>1. Inv => Answers
  <2>1. ASSUME Inv, At("load") PROVE rbuf.id \in shown .. last
    <3>1. Waiting /\ cur = last /\ last \notin canceled
      BY <2>1, Moves DEF Inv, Types, Current
    <3>2. rbuf.type = "ack" /\ rbuf.id \in Nat
      BY <2>1, <3>1, Begins, Ids DEF Inv, Types, Current
    <3> QED BY <2>1, <3>2 DEF Inv, Types, Order
  <2>2. Inv /\ phase = "open" => admitted
    BY DEF Inv, Types, Refused
  <2> QED BY <2>1, <2>2 DEF Answers
<1> QED BY <1>1, InvHolds, PTL

-----------------------------------------------------------------------------
(***************************************************************************)
(* What CallsReturn rests on.  A request is shorter by a step with each    *)
(* step of its caller, and nothing makes it longer.  While close() joins   *)
(* the worker, the worker receives nothing more, meets each waiter it      *)
(* still has to meet once, and goes to sleep no more: it was asleep        *)
(* already, for a waiter that had been handled, or it ends.                *)
(***************************************************************************)
WorkerLeft ==
  CASE worker = "dozing" -> 5 [] worker \in {"asleep", "notify"} -> 4 [] worker = "check" -> 3
    [] worker = "visit" -> 2 [] worker \in {"recv", "swap"} -> 1 [] worker = "done" -> 0

CallsBounded ==
  /\ steps # <<>> => UNCHANGED <<steps, op, last>> \/ Len(steps') < Len(steps)
  /\ phase = "closing" =>
       /\ ~open /\ writeStop /\ (worker = "asleep" => LostWakeup)
       /\ \/ UNCHANGED <<worker, todo>>
          \/ todo' \subseteq todo /\ todo' # todo
          \/ todo' = todo /\ WorkerLeft' < WorkerLeft

(* Whoever the worker knows of has been handled, or is the current request *)
(* and has yet to say so; a connection being closed has no request.        *)
Known ==
  {w.id : w \in waiters} \cup todo \cup (IF Waiting \/ worker = "notify" THEN {cur} ELSE {})

Served ==
  /\ \A i \in Known : i \in handled \/ (i = last /\ steps \in Unhandled)
  /\ phase \in {"closing", "closed"} => ~open /\ steps = <<>>
  /\ phase = "closing" => writeStop
  /\ phase \in {"connecting", "open", "closing", "closed"}

(* The steps of the caller.                                                *)
LEMMA CallerServes ==
  ASSUME Inv, Served, Caller \/ Close \/ \E o \in DOMAIN Steps : Begin(o)
  PROVE  Served'
<1> USE DEF Proceed, caller, flags, walk, state, peer, Waiting
<1>0. steps \in Rests /\ <<>> \notin Unhandled /\ Notify1 \notin Unhandled
  BY Unfinished, Apart DEF Inv, Types
<1>1. ASSUME NEW o \in DOMAIN Steps, Begin(o) PROVE Served'
  <2>1. steps = <<>> /\ steps' \in Unhandled /\ Known' = Known /\ phase = "open"
    BY <1>1, Begins, Inside DEF Begin, Known
  <2> QED BY <1>0, <1>1, <2>1 DEF Begin, Served
<1>2. CASE Send
  <2>1. steps \in Unhandled /\ steps' \in Unhandled /\ Known' = Known
    BY <1>0, <1>2, Moves DEF Send, Known
  <2> QED BY <1>0, <1>2, <2>1 DEF Send, SendPacket, Served
<1>3. CASE Register
  <2>1. steps \in Unregistered /\ last \notin todo /\ cur # last /\ \A w \in waiters : w.id # last
    BY <1>0, <1>3, Moves DEF Register, Inv, Current
  <2>2. \A i \in Known : i \in handled
    BY <2>1 DEF Known, Served
  <2>3. Known' = Known \/ (Known' \subseteq Known \cup {last} /\ steps' \in Unhandled)
    <3>1. CASE Command(op) = "getUI" /\ ~open
      BY <1>3, <3>1 DEF Register, Known
    <3>2. CASE ~ (Command(op) = "getUI" /\ ~open)
      <4>1. waiters' = waiters \cup {[id |-> last, cmd |-> Command(op)]}
            /\ todo' \subseteq todo \cup {last} /\ UNCHANGED <<worker, cur>>
        BY <1>3, <3>2 DEF Register
      <4>2. Known' \subseteq Known \cup {last}
        BY <4>1 DEF Known
      <4>3. steps' \in Unhandled
        BY <1>0, <1>3, <3>2, Moves DEF Register
      <4> QED BY <4>2, <4>3
    <3> QED BY <3>1, <3>2
  <2>4. phase \notin {"closing", "closed"}
    BY <1>0, <2>1, Inside DEF Served
  <2> QED BY <1>3, <2>2, <2>3, <2>4 DEF Register, Served
<1>4. CASE Await
  <2>1. steps \in Unhandled /\ steps' \in Unhandled /\ Known' = Known
    BY <1>0, <1>4, Moves, Failed, Inside DEF Await, Fail, Known
  <2> QED BY <1>0, <1>4, <2>1 DEF Await, Served
<1>5. CASE Load
  <2>1. steps \in Unhandled /\ steps' \in Unhandled /\ Known' = Known
    BY <1>0, <1>5, Moves DEF Load, Known
  <2> QED BY <1>0, <1>5, <2>1 DEF Load, Served
<1>6. CASE Handled
  <2>1. steps \in Unhandled /\ handled' = handled \cup {last} /\ Known' = Known
    BY <1>0, <1>6, Moves DEF Handled, Known
  <2> QED BY <1>0, <1>6, <2>1 DEF Handled, Served
<1>7. CASE NotifyHandled
  <2>1. steps \notin Unhandled /\ steps # <<>> /\ steps' = <<>>
    BY <1>0, <1>7, Moves DEF NotifyHandled, At
  <2>2. Known' = Known
    BY <1>7 DEF NotifyHandled, Known
  <2> QED BY <1>7, <2>1, <2>2 DEF NotifyHandled, Served
<1>8. CASE Opened \/ Closed \/ Close
  <2>1. Known' = Known
    BY <1>8 DEF Opened, Closed, Close, Known
  <2> QED BY <1>8, <2>1 DEF Opened, Closed, Close, Served
<1> QED BY <1>1, <1>2, <1>3, <1>4, <1>5, <1>6, <1>7, <1>8 DEF Caller

(* The steps of the worker, of the server and of the network: the worker   *)
(* comes to know of nobody new.                                            *)
LEMMA WorkerServes ==
  ASSUME Inv, Served,
         Worker \/ Stall \/ Swap \/ SpuriousWakeup \/ CommandHandler \/ SendSamples \/ Disconnect
  PROVE  Served'
<1> USE DEF caller, flags, walk, state, peer, Waiting
<1>1. Known' \subseteq Known
  <2>1. CASE Receive
    BY <2>1 DEF Receive, Known
  <2>2. CASE Hangup \/ Stall \/ Swap
    BY <2>2 DEF Hangup, Stall, Swap, Known
  <2>3. CASE Visit
    BY <2>3 DEF Visit, Known
  <2>4. CASE Notify \/ Check \/ Doze \/ SpuriousWakeup
    BY <2>4 DEF Notify, Check, Doze, SpuriousWakeup, Known
  <2>5. CASE Remove
    BY <2>5 DEF Remove, Known
  <2>6. CASE CommandHandler \/ SendSamples \/ Disconnect
    BY <2>6 DEF CommandHandler, SendSamples, Disconnect, Known
  <2> QED BY <2>1, <2>2, <2>3, <2>4, <2>5, <2>6 DEF Worker
<1>2. UNCHANGED <<steps, last, handled, phase, writeStop>> /\ (~open => ~open')
  <2>1. CASE Worker
    BY <2>1 DEF Worker, Receive, Hangup, Swap, Visit, Notify, Check, Doze, Remove
  <2>2. CASE Stall \/ Swap \/ SpuriousWakeup
    BY <2>2 DEF Stall, Swap, SpuriousWakeup
  <2>3. CASE CommandHandler \/ SendSamples \/ Disconnect
    BY <2>3 DEF CommandHandler, SendSamples, Disconnect
  <2> QED BY <2>1, <2>2, <2>3
<1> QED BY <1>1, <1>2 DEF Served

LEMMA ServedHolds == Spec => []Served
<1>1. Init => Served
  <2> SUFFICES ASSUME Init PROVE Served
    OBVIOUS
  <2>1. Known = {}
    BY DEF Init, Known, Waiting
  <2> QED BY <2>1 DEF Init, Served
<1>2. ASSUME Inv, Served, [Next]_vars PROVE Served'
  <2>1. CASE UNCHANGED vars
    BY <1>2, <2>1 DEF vars, caller, flags, walk, state, peer, Served, Known, Waiting
  <2> QED BY <1>2, <2>1, CallerServes, WorkerServes DEF Next
<1> QED BY <1>1, <1>2, InvHolds, PTL DEF Spec

(* A request has a step fewer after each step.                             *)
LEMMA Shorter ==
  ASSUME steps \in Rests, steps # <<>>
  PROVE  /\ Len(Tail(steps)) < Len(steps) /\ Len(<<>>) < Len(steps)
         /\ At("await") => Len(Handled2) < Len(steps)
<1>1. /\ Len(PostAsk) = 7 /\ Len(Ask) = 6 /\ Len(Send5) = 5 /\ Len(Await4) = 4 /\ Len(Load3) = 3
      /\ Len(Send5F) = 5 /\ Len(Register4) = 4 /\ Len(Await3) = 3
      /\ Len(Handled2) = 2 /\ Len(Notify1) = 1 /\ Len(<<>>) = 0
  BY DEF PostAsk, Ask, Send5, Await4, Load3, Send5F, Register4, Await3, Handled2, Notify1
<1>2. steps \in {PostAsk, Ask, Send5F, Register4, Send5, Await4, Load3, Await3, Handled2, Notify1}
  BY DEF Rests, Unhandled, Unregistered
<1>3. At("await") => steps = Await4 \/ steps = Await3
  BY StepOf
<1>4. /\ Len(Tail(PostAsk)) = 6 /\ Len(Tail(Ask)) = 5 /\ Len(Tail(Send5)) = 4
      /\ Len(Tail(Await4)) = 3 /\ Len(Tail(Load3)) = 2 /\ Len(Tail(Send5F)) = 4
      /\ Len(Tail(Register4)) = 3 /\ Len(Tail(Await3)) = 2
      /\ Len(Tail(Handled2)) = 1 /\ Len(Tail(Notify1)) = 0
  BY <1>1, Follows
<1>5. Len(Tail(steps)) < Len(steps)
  BY <1>1, <1>2, <1>4
<1>6. Len(<<>>) < Len(steps)
  BY <1>1, <1>2
<1>7. ASSUME At("await") PROVE Len(Handled2) < Len(steps)
  <2>1. Len(steps) = 4 \/ Len(steps) = 3
    BY <1>1, <1>3, <1>7
  <2>2. Len(Handled2) = 2
    BY <1>1
  <2>3. \A a, b \in Nat : a = 2 /\ (b = 4 \/ b = 3) => a < b
    OBVIOUS
  <2>4. Len(Handled2) \in Nat /\ Len(steps) \in Nat
    BY <2>1, <2>2
  <2> QED BY <2>1, <2>2, <2>3, <2>4, Zenon
<1> QED BY <1>5, <1>6, <1>7

(* Every request, and every close(), is a bounded number of steps; only a  *)
(* worker asleep after a lost wake-up takes none of them.                  *)
THEOREM CallsBoundedHolds == Spec => [][CallsBounded]_vars
<1>1. ASSUME Inv, Served, Next, steps # <<>>
      PROVE  UNCHANGED <<steps, op, last>> \/ Len(steps') < Len(steps)
  <2>0. steps \in Rests
    BY <1>1 DEF Inv, Types
  <2>1. CASE Send \/ Register \/ Load \/ Handled \/ NotifyHandled
    BY <1>1, <2>0, <2>1, Shorter DEF Send, Register, Load, Handled, NotifyHandled, Proceed
  <2>2. CASE Await
    BY <1>1, <2>0, <2>2, Shorter, Failed DEF Await, Proceed, Fail
  <2>3. CASE Opened \/ Closed \/ Close \/ \E o \in DOMAIN Steps : Begin(o)
    BY <1>1, <2>3 DEF Opened, Closed, Close, Begin
  <2>4. CASE Worker \/ Stall \/ Swap \/ SpuriousWakeup
    BY <2>4 DEF Worker, Receive, Hangup, Swap, Visit, Notify, Check, Doze, Remove, Stall,
       SpuriousWakeup, caller
  <2>5. CASE CommandHandler \/ SendSamples \/ Disconnect
    BY <2>5 DEF CommandHandler, SendSamples, Disconnect, caller
  <2> QED BY <1>1, <2>1, <2>2, <2>3, <2>4, <2>5 DEF Next, Caller
<1>2. ASSUME Inv, Served, Next, phase = "closing"
      PROVE  \/ UNCHANGED <<worker, todo>>
             \/ todo' \subseteq todo /\ todo' # todo
             \/ todo' = todo /\ WorkerLeft' < WorkerLeft
  <2>0. /\ steps = <<>> /\ ~open /\ writeStop
        /\ worker = "check" => cur \in handled
    BY <1>2, Unfinished DEF Served, Known, Waiting
  <2>1. CASE Worker \/ Stall \/ Swap \/ SpuriousWakeup
    <3>1. CASE Visit
      BY <3>1 DEF Visit
    <3>2. CASE ~Visit
      <4>1. /\ UNCHANGED todo
            /\ \/ worker = "recv" /\ worker' = "done"
               \/ worker = "swap" /\ worker' = "done"
               \/ worker = "notify" /\ worker' = "check"
               \/ worker = "check" /\ worker' = "visit"
               \/ worker = "dozing" /\ worker' = "asleep"
               \/ worker = "asleep" /\ worker' = "check"
               \/ worker = "visit" /\ worker' = "recv"
        BY <2>0, <2>1, <3>2 DEF Worker, Receive, Hangup, Swap, Notify, Check, Doze, Remove, Stall,
           SpuriousWakeup
      <4> QED BY <4>1 DEF WorkerLeft
    <3> QED BY <3>1, <3>2
  <2>2. CASE Caller \/ Close \/ \E o \in DOMAIN Steps : Begin(o)
    BY <1>2, <2>0, <2>2 DEF Caller, Send, Register, Await, Load, Handled, NotifyHandled, At,
       Opened, Closed, Close, Begin, walk
  <2>3. CASE CommandHandler \/ SendSamples \/ Disconnect
    BY <2>3 DEF CommandHandler, SendSamples, Disconnect, walk
  <2> QED BY <1>2, <2>1, <2>2, <2>3 DEF Next
<1>3. ASSUME Served, phase = "closing"
      PROVE  ~open /\ writeStop /\ (worker = "asleep" => LostWakeup)
  <2>1. worker = "asleep" => cur \in handled
    BY <1>3, Unfinished DEF Served, Known, Waiting
  <2> QED BY <1>3, <2>1 DEF Served, LostWakeup, At
<1>4. ASSUME Inv, Served, Next PROVE CallsBounded
  BY <1>1, <1>2, <1>3, <1>4 DEF CallsBounded
<1> QED BY <1>4, InvHolds, ServedHolds, PTL DEF Spec
=============================================================================
