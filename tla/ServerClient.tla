----------------------------- MODULE ServerClient -----------------------------
(***************************************************************************)
(* The client of an SDR++ server (sdrpp_server_client.{h,cpp}) talking to  *)
(* the server (core/src/server.cpp).  A caller, the GUI thread or whoever  *)
(* tunes, sends commands; there is one at a time here, while two threads   *)
(* may use the client and its one send buffer together.  A worker receives *)
(* packets into one buffer, hands each acknowledgement to the waiters of   *)
(* that command, and does not receive again before each of them has taken  *)
(* it.  A request gives up after PROTOCOL_TIMEOUT_MS and leaves its waiter *)
(* registered.                                                             *)
(*                                                                         *)
(* Requests are numbered, and a waiter and an answer carry the number of   *)
(* their request; the program has no such number.  The map of waiters is   *)
(* shared without a lock: its operations are atomic here, and a waiter     *)
(* registered during the worker's walk may or may not be met by it.        *)
(***************************************************************************)
EXTENDS Naturals, Sequences

CONSTANTS MaxRequests,    \* requests made of one client
          Depth           \* packets on their way to the client

ASSUME MaxRequestsAssumption == MaxRequests \in Nat \ {0}
ASSUME DepthAssumption == Depth \in Nat \ {0}

(* What each method does, in order.  setFrequency sends before it          *)
(* registers its waiter.                                                   *)
Ask == <<"register", "send", "await", "load", "handled", "notify">>
PostAsk == <<"post", "register", "send", "await", "load", "handled", "notify">>
Steps == [getUI |-> Ask, uiAction |-> Ask, start |-> PostAsk, stop |-> PostAsk,
          setFrequency |-> <<"send", "register", "await", "handled", "notify">>]
Command(o) == IF o \in {"start", "stop"} THEN "getUI" ELSE o

VARIABLES
  phase, op, steps, last, result,    \* the caller
  waiters,                           \* commandAckWaiters: records [id, cmd]
  ready, handled, canceled,          \* the ids whose waiter has that flag
  worker, todo, cur, notified, cancelling, rbuf,    \* the worker
  open, writeStop, serverBusy, shown,    \* shown: the request whose answer dl holds
  link, toServer, toClient, admitted, running    \* the network and the server

caller == <<phase, op, steps, last, result>>
flags == <<ready, handled, canceled>>
walk == <<worker, todo, cur, notified, cancelling, rbuf>>
state == <<open, writeStop, serverBusy, shown>>
peer == <<link, toServer, toClient, admitted, running>>
vars == <<caller, waiters, flags, walk, state, peer>>

Packet(type, cmd, id) == [type |-> type, cmd |-> cmd, id |-> id]
NoPacket == Packet("none", "none", 0)

(* A server tells its client the sample rate, and one that already has a   *)
(* client answers with a disconnect.                                       *)
Init ==
  /\ phase = "connecting" /\ op = "getUI" /\ steps = Steps.getUI /\ last = 1 /\ result = "ok"
  /\ waiters = {} /\ ready = {} /\ handled = {} /\ canceled = {}
  /\ worker = "recv" /\ todo = {} /\ cur = 0 /\ notified = {} /\ cancelling = FALSE
  /\ rbuf = NoPacket
  /\ open = TRUE /\ writeStop = FALSE /\ serverBusy = FALSE /\ shown = 0
  /\ link = TRUE /\ toServer = <<>> /\ running = FALSE
  /\ admitted \in BOOLEAN
  /\ toClient = <<Packet(IF admitted THEN "sampleRate" ELSE "disconnect", "none", 0)>>

(***************************************************************************)
(* The caller.                                                             *)
(***************************************************************************)
Proceed == steps' = Tail(steps)
At(step) == steps # <<>> /\ Head(steps) = step

(* showMenu does not ask whether the connection is open.                   *)
Begin(o) ==
  /\ phase = "open" /\ steps = <<>> /\ last < MaxRequests
  /\ open \/ o = "uiAction"
  /\ op' = o /\ steps' = Steps[o] /\ last' = last + 1 /\ result' = "ok"
  /\ UNCHANGED <<phase, waiters, flags, walk, state, peer>>

(* sendPacket; an error closes the socket.                                 *)
SendPacket(cmd) ==
  \/ open /\ link /\ toServer' = Append(toServer, [cmd |-> cmd, id |-> last]) /\ UNCHANGED open
  \/ (~open \/ ~link) /\ UNCHANGED <<toServer, open>>
  \/ ~link /\ open' = FALSE /\ UNCHANGED toServer

Send ==
  /\ \/ At("send") /\ SendPacket(Command(op))
     \/ At("post") /\ SendPacket(op)
  /\ Proceed
  /\ UNCHANGED <<phase, op, last, result, waiters, flags, walk, writeStop, serverBusy, shown,
                 link, toClient, admitted, running>>

Walking == worker \in {"visit", "notify", "check", "dozing", "asleep"}

(* awaitCommandAck; getUI gives up at once on a closed connection.         *)
Register ==
  /\ At("register")
  /\ IF Command(op) = "getUI" /\ ~open
     THEN /\ steps' = <<>> /\ result' = "failed"
          /\ UNCHANGED <<waiters, todo>>
     ELSE /\ waiters' = waiters \cup {[id |-> last, cmd |-> Command(op)]}
          /\ \/ UNCHANGED todo
             \/ /\ Walking /\ (cancelling \/ rbuf.cmd = Command(op))
                /\ todo' = todo \cup {last}
          /\ Proceed /\ UNCHANGED result
  /\ UNCHANGED <<phase, op, last, flags, worker, cur, notified, cancelling, rbuf, state, peer>>

(* Seeded fault: a request that gives up does not tell the worker.         *)
FailUnhandled == steps' = <<>> /\ result' = "failed"

(* PacketWaiter::await returns: an answer, a cancellation or a timeout.    *)
(* Only an answer is loaded.                                               *)
Fail == steps' = <<"handled", "notify">> /\ result' = "failed"

Await ==
  /\ At("await")
  /\ IF last \in ready \ canceled THEN Proceed /\ UNCHANGED result ELSE Fail
  /\ UNCHANGED <<phase, op, last, waiters, flags, walk, state, peer>>

Load ==
  /\ At("load")
  /\ shown' = rbuf.id /\ Proceed
  /\ UNCHANGED <<phase, op, last, result, waiters, flags, walk, open, writeStop, serverBusy, peer>>

(* PacketWaiter::handled: the flag, under a mutex the worker does not      *)
(* wait with, and then the wake-up.                                        *)
Handled ==
  /\ At("handled")
  /\ handled' = handled \cup {last} /\ Proceed
  /\ UNCHANGED <<phase, op, last, result, waiters, ready, canceled, walk, state, peer>>

NotifyHandled ==
  /\ At("notify")
  /\ worker' = IF worker = "asleep" /\ cur = last THEN "check" ELSE worker
  /\ Proceed
  /\ UNCHANGED <<phase, op, last, result, waiters, flags, todo, cur, notified, cancelling, rbuf,
                 state, peer>>

(* close(), by the constructor when getUI failed or by the user.           *)
Opened ==
  /\ phase = "connecting" /\ steps = <<>> /\ result = "ok"
  /\ phase' = "open"
  /\ UNCHANGED <<op, steps, last, result, waiters, flags, walk, state, peer>>

Close ==
  /\ steps = <<>>
  /\ phase = "open" \/ (phase = "connecting" /\ result = "failed")
  /\ phase' = "closing" /\ open' = FALSE /\ writeStop' = TRUE
  /\ UNCHANGED <<op, steps, last, result, waiters, flags, walk, serverBusy, shown, peer>>

Closed ==
  /\ phase = "closing" /\ worker = "done"
  /\ phase' = "closed" /\ writeStop' = FALSE
  /\ UNCHANGED <<op, steps, last, result, waiters, flags, walk, open, serverBusy, shown, peer>>

(***************************************************************************)
(* The worker.                                                             *)
(***************************************************************************)
Receive ==
  /\ worker = "recv" /\ open /\ toClient # <<>>
  /\ rbuf' = Head(toClient) /\ toClient' = Tail(toClient)
  /\ cancelling' = (rbuf'.type = "disconnect")
  /\ serverBusy' = (serverBusy \/ cancelling')
  /\ notified' = {}
  /\ todo' = {w.id : w \in {v \in waiters : cancelling' \/ v.cmd = rbuf'.cmd}}
  /\ worker' = IF rbuf'.type = "data" THEN "swap" ELSE "visit"
  /\ UNCHANGED <<caller, waiters, flags, cur, open, writeStop, shown, link, toServer, admitted, running>>

(* The end of the connection, or the rest of a packet that does not come.  *)
Hangup ==
  /\ worker = "recv"
  /\ ~open \/ (~link /\ toClient = <<>>)
  /\ worker' = "done" /\ open' = FALSE
  /\ UNCHANGED <<caller, waiters, flags, todo, cur, notified, cancelling, rbuf,
                 writeStop, serverBusy, shown, peer>>

Stall ==
  /\ worker = "recv"
  /\ worker' = "done"
  /\ UNCHANGED <<caller, waiters, flags, todo, cur, notified, cancelling, rbuf, state, peer>>

(* decompIn.swap returns once the decompressor has read the last block, or *)
(* at stopWriter.                                                          *)
Swap ==
  /\ worker = "swap"
  /\ worker' = IF writeStop THEN "done" ELSE "recv"
  /\ UNCHANGED <<caller, waiters, flags, todo, cur, notified, cancelling, rbuf, state, peer>>

(* Seeded fault: a cancellation that looks like an answer.                 *)
VisitAnswered ==
  /\ worker = "visit" /\ todo # {}
  /\ \E w \in todo : cur' = w /\ todo' = todo \ {w}
  /\ worker' = "notify"
  /\ UNCHANGED <<caller, waiters, flags, notified, cancelling, rbuf, state, peer>>

Visit ==
  /\ worker = "visit" /\ todo # {}
  /\ \E w \in todo :
       /\ cur' = w /\ todo' = todo \ {w}
       /\ canceled' = IF cancelling THEN canceled \cup {w} ELSE canceled
  /\ worker' = "notify"
  /\ UNCHANGED <<caller, waiters, ready, handled, notified, cancelling, rbuf, state, peer>>

(* Seeded fault: the worker does not wait for the waiter.                  *)
NotifyOnly ==
  /\ worker = "notify"
  /\ ready' = ready \cup {cur} /\ notified' = notified \cup {cur}
  /\ worker' = "visit"
  /\ UNCHANGED <<caller, waiters, handled, canceled, todo, cur, cancelling, rbuf, state, peer>>

(* PacketWaiter::notify: the flag and the wake-up, then the wait for       *)
(* dataHandled.  The predicate is read and the thread put to sleep under a *)
(* mutex that handled() does not take.                                     *)
Notify ==
  /\ worker = "notify"
  /\ ready' = ready \cup {cur}
  /\ worker' = "check"
  /\ UNCHANGED <<caller, waiters, handled, canceled, todo, cur, notified, cancelling, rbuf, state, peer>>

Check ==
  /\ worker = "check"
  /\ IF cur \in handled
     THEN worker' = "visit" /\ notified' = notified \cup {cur}
     ELSE worker' = "dozing" /\ UNCHANGED notified
  /\ UNCHANGED <<caller, waiters, flags, todo, cur, cancelling, rbuf, state, peer>>

Doze ==
  /\ worker = "dozing"
  /\ worker' = "asleep"
  /\ UNCHANGED <<caller, waiters, flags, todo, cur, notified, cancelling, rbuf, state, peer>>

SpuriousWakeup ==
  /\ worker = "asleep"
  /\ worker' = "check"
  /\ UNCHANGED <<caller, waiters, flags, todo, cur, notified, cancelling, rbuf, state, peer>>

Remove ==
  /\ worker = "visit" /\ todo = {}
  /\ waiters' = {w \in waiters : w.id \notin notified}
  /\ worker' = "recv"
  /\ UNCHANGED <<caller, flags, todo, cur, notified, cancelling, rbuf, state, peer>>

(***************************************************************************)
(* The server handles the commands of its client in order, and sends       *)
(* samples while it runs; the network may fail at any time.                *)
(***************************************************************************)
Room == link /\ Len(toClient) < Depth

CommandHandler ==
  /\ admitted /\ Room /\ toServer # <<>>
  /\ toServer' = Tail(toServer)
  /\ LET m == Head(toServer)
     IN  /\ running' = IF m.cmd \in {"start", "stop"} THEN m.cmd = "start" ELSE running
         /\ toClient' = IF m.cmd \in {"start", "stop"} THEN toClient
                        ELSE Append(toClient, Packet("ack", m.cmd, m.id))
  /\ UNCHANGED <<caller, waiters, flags, walk, state, link, admitted>>

SendSamples ==
  /\ running /\ Room
  /\ toClient' = Append(toClient, Packet("data", "none", 0))
  /\ UNCHANGED <<caller, waiters, flags, walk, state, link, toServer, admitted, running>>

Disconnect ==
  /\ link /\ link' = FALSE
  /\ UNCHANGED <<caller, waiters, flags, walk, state, toServer, toClient, admitted, running>>

Caller == Send \/ Register \/ Await \/ Load \/ Handled \/ NotifyHandled \/ Opened \/ Closed
Worker == Receive \/ Hangup \/ (Swap /\ writeStop) \/ Visit \/ Notify \/ Check \/ Doze \/ Remove

Next ==
  \/ Caller \/ Worker \/ (\E o \in DOMAIN Steps : Begin(o)) \/ Close
  \/ Stall \/ Swap \/ SpuriousWakeup
  \/ CommandHandler \/ SendSamples \/ Disconnect

(* Threads are scheduled; await is bounded by its timeout, and a failed    *)
(* constructor closes.                                                     *)
Fairness ==
  /\ WF_vars(Caller) /\ WF_vars(Worker)
  /\ WF_vars(Close /\ phase = "connecting")

Spec == Init /\ [][Next]_vars /\ Fairness

TypeOK ==
  /\ phase \in {"connecting", "open", "closing", "closed"} /\ op \in DOMAIN Steps
  /\ last \in 1 .. MaxRequests /\ result \in {"ok", "failed"}
  /\ waiters \subseteq [id : 1 .. last, cmd : DOMAIN Steps]
  /\ UNION {ready, handled, canceled, todo, notified} \subseteq 1 .. last /\ cur \in 0 .. last
  /\ Len(toClient) =< Depth /\ shown \in 0 .. last

-----------------------------------------------------------------------------
(***************************************************************************)
(* While a caller loads an answer out of the receive buffer, the worker    *)
(* waits for that very caller and the buffer holds an acknowledgement of   *)
(* the caller's command: nothing is received over it.                      *)
(***************************************************************************)
BufferStable ==
  At("load") =>
    /\ worker \in {"check", "dozing", "asleep"} /\ cur = last
    /\ rbuf.type = "ack" /\ rbuf.cmd = Command(op)

(***************************************************************************)
(* An answer can be that of an earlier request of the same command (it     *)
(* came after the timeout, or while the next request was being             *)
(* registered), but the menu never goes back to an older one, and a client *)
(* the server turned away never opens.                                     *)
(***************************************************************************)
Answers ==
  /\ At("load") => rbuf.id \in shown .. last
  /\ phase = "open" => admitted

(***************************************************************************)
(* Every request ends, and close() returns, whatever the network does, in  *)
(* every case but one: the wake-up of handled() fell between the worker's  *)
(* look at dataHandled and its sleep.                                      *)
(***************************************************************************)
LostWakeup == worker = "asleep" /\ cur \in handled /\ ~At("notify")

CallsReturn ==
  /\ steps # <<>> ~> steps = <<>>
  /\ phase = "closing" ~> (phase = "closed" \/ LostWakeup)
=============================================================================
