# SDR++ in TLA+

TLA+ models of the concurrent core of SDR++ (with the channel bank module of
this tree), TLC configurations that check them on small instances, and TLAPS
proofs of what matters most. Every definition is translated from the source;
`PROJECT.json` maps each of them to the lines it stands for, and lists the
components, the runs, the seeded faults that show each property can fail, the
hazards of the code and the theorems.

    tlc -config Stream.cfg MCStream        # one run
    tlapm DataPathProofs.tla               # one module of proofs

## 1. The system

SDR++ is a software-defined radio. A *source* produces IQ samples; the *IQ front
end* buffers, conditions and splits them; *VFOs* cut channels out of them;
modules demodulate, decode, record and play them. Everything that handles
samples is a `dsp::block` with a worker thread of its own, and blocks are
connected by `dsp::stream`s. A GUI thread (or the server's network thread)
creates, rewires, starts and stops blocks while the workers run. Nearly all of
the system's difficulty is there.

    source --stream--> SampleFrameBuffer --stream--> chain of processors
           --stream--> Splitter --streams--> VFOs, FFT, channel bank, ...

### Components

| component | state | operations | what is hard | what makes it correct |
|---|---|---|---|---|
| **stream** `dsp/stream.h` | two buffers, `canSwap`, `dataReady`, `writerStop`, `readerStop`, `dataSize`, two mutexes and condition variables | `swap`, `read`, `flush`, `stop*`, `clear*Stop` | two flags changed under two mutexes, one after the other; stops from a third thread | the reader gets each frame once, whole, in order; no lost wake-up; a stop returns |
| **block** `dsp/block.h`, with Processor, Sink, Operator | `running`, `tempStopped`, `tempStopDepth`, `workerThread`, `ctrlMtx` | `start`, `stop`, `tempStop`, `tempStart` and the setters | nested windows; windows opened with and without `ctrlMtx` | no worker during a reconfiguration; never two; it ends as it began |
| **core splitter** `dsp/routing/splitter.h` | `streams`, input | `run`, `bindStream`, `unbindStream`, `setInput` | a swap cancelled in the middle of a block | how much can be lost; nothing twice |
| **continuous splitter** `channel_bank/src/continuous_iq_splitter.h` | `streams`, `delivered`, `pending` | the same | progress kept across stops and changes of membership | nothing lost, nothing twice |
| **chain** `dsp/chain.h` | `links`, `states`, `out`, `running` | `addBlock`, `removeBlock`, `enableBlock`, `disableBlock`, `setInput`, `start`, `stop` | rewired while its blocks run | one pipeline; never two readers of a stream |
| **frame buffer** `dsp/buffer/frame_buffer.h` | a ring, two cursors, `bypass`, `stopWorker`, a second thread | `run`, `worker`, `flush`, `setInput`, `setBuffering`, `start`, `stop` | overrun, flush and a switch of the bypass while a frame is on its way out | newest frames kept, order kept, drains by itself |
| **IQ front end** `signal_path/iq_frontend.cpp` | the three above, a map of VFOs, the FFT path | `setInput`, `setSampleRate`, `setDecimation`, `addVFO`, ... | called by the GUI and by the server client's thread | the composition stays one pipeline |
| **receiver allocator** `channel_bank/src/multi_receiver_allocator.h` | receivers with center and channels, `dispatch_`, `assignments_` | `markPendingDistinct`, `choose`, `activate`, `release`, `disconnect`, ... | an allocation is chosen, the locks are dropped for a tuning, then it is activated | records agree; neighbours exclude each other; nobody is moved |
| **multi-receiver scan** `channel_bank/src/main.cpp` | `activeChannels`, `receiverRuntimes`, `dispatchQueue`, `dispatchRunning` | detection, dispatch, release, source loss, stop, restart | four threads, three mutexes | slots and allocator agree; every pending key is decided; channels end for a reason |
| **configuration** `core/src/config.cpp` | `conf`, `changed`, the file, the auto-save thread | `load`, `acquire`, `release`, `enableAutoSave`, `disableAutoSave` | polling with `try_lock`; shutdown; a kill during a save | no released change forgotten, none half written |
| **source manager** `signal_path/source.cpp` | sources, selection, independent owners | register, unregister, select, acquire, start, tune | unregistration drops the lock to emit an event; the GUI, the rigctl server and the channel banks act through it | leases are exclusive and end with their scan; no driver runs that nobody will stop |
| **VFO manager**, **sink manager** `signal_path/` | VFOs; streams and providers | create, delete, `setStreamSink`, unregister | a provider removed while streams use it | every stream has a live sink |
| **modules and events** `module.cpp`, `utils/event.h` | instances; handlers | create, delete, `emit`, bind, unbind | handlers that (un)bind while an event is emitted | no handler called after it is unbound |
| **connections** `utils/networking.cpp` | sockets, two queues with workers | `read`, `write`, `close`, `waitForEnd` | close races the workers | close returns, waiters wake |
| **server and its client** `server.cpp`, `sdrpp_server_client.cpp` | the client connection, `running`; waiters of acknowledgements, one receive buffer | commands and answers | timeouts, late answers, a refused client, a buffer shared by the receiving worker and the caller | the buffer is stable while it is read; answers never go back; calls end |
| **ring buffer, reshaper** `dsp/buffer/` | cursors and two counters | `read`, `write`, stops | the counters change under two mutexes | order kept, stops return |
| **rest of the channel bank, scanner, recorder, scheduler, rigctl** | a thread and a few states each | | | |
| **GUI, backends, drivers, decoders, DSP arithmetic, vendored libraries** | | | | not for TLA+ |

They interact in four ways: by frames in streams; by control calls made under a
block's `ctrlMtx` (and by IQFrontEnd without it); by events (`Event::emit`, called
synchronously on the emitter's thread); and, in the channel bank, by a queue and
shared tables under `multiReceiverMtx`, `channelsMtx` and `dispatchQueueMtx`.

## 2. The modules

| module | models | extends / instantiates |
|---|---|---|
| `Handoff` | what a stream promises, abstractly | |
| `Stream` | `dsp::stream` with its condition variables, and both blocks' start and stop | `Handoff` by refinement |
| `Block` | `dsp::block` called by several threads | |
| `FanOut` | what a splitter that loses nothing promises | |
| `Splitter` | both splitters, the core's and the channel bank's | `FanOut` by refinement |
| `Chain` | `dsp::chain` | |
| `FrameBuffer` | `dsp::buffer::SampleFrameBuffer` | |
| `ReceiverAllocator` | the allocator, and `AllocatorSpec`, how it may be used | |
| `MultiReceiver` | the orchestration of the scan | `ReceiverAllocator`, and implements its `AllocatorSpec` |
| `ConfigManager` | the configuration and its auto-save thread | |
| `SourceManager` | the source manager and all who act through it | |
| `ServerClient` | the client of an SDR++ server, the network and the server as its peer | |
| `DataPathProofs` | the proofs about a stream and about a chain | `Stream`, `Chain` |
| `MultiReceiverProofs` | the proofs about the allocator and about the scan that uses it | `MultiReceiver` |
| `BlockProofs`, `SplitterProofs`, `FrameBufferProofs`, `ConfigProofs`, `SourceProofs`, `ClientProofs` | the proofs about one component | the module of that name |
| `MC...` | the instances for TLC | |

Composition is by layers. `Stream` is shown to be a place for one frame with a
writer and a reader that can be stopped. The splitters and the frame buffer use
that place and not the two buffers: `full` and `input` are streams in the
sense of `Handoff` (but for the frame buffer's output, whose two buffers are kept). `MultiReceiver` contains the allocator itself and is shown, and
proved, to call it only in the ways `AllocatorSpec` allows, so that what is proved of
`AllocatorSpec` holds in it.

Conventions. A step is one critical section of the code, or the code between two
of them. A thread in a condition-variable wait has a `pc` value of its own; it
re-checks its predicate when it is notified or spuriously. Where it matters that a
notification can come between the evaluation of the predicate and the blocking
(the mutex of the wait is not held by the notifier), that window is a `pc` value too
(`"sleep"` in `FrameBuffer` and `MultiReceiver`, `"dozing"` in `ServerClient`). Frames,
blocks of samples, requests and documents are numbers. An operator marked *Seeded fault*
is the definition after it with a plausible bug; nothing uses it except the experiment
that replaces the one by the other and expects the property named in `PROJECT.json`
to fail.

### How each module corresponds to the code

**Stream.** `buf`, `writeBuf`, `canSwap`, `dataReady`, `writerStop`, `readerStop` and
`dataSize` are the fields of the class. `wpc` and `rpc` are the workers of the two
blocks: the writer fills (`Fill`, `Filled`), swaps (`SwapWait`, `SwapBuffers`,
`SetReady`, `NotifyReader`, or `SwapAbandon` when stopped); the reader reads
(`ReadWait`, `ReadCount`, `ReadAbandon`), uses the buffer (`Process`) and flushes in
two sections (`FlushReady`, `FlushSwap`, `NotifyWriter`). `wctl` and `rctl` are the
threads in `doStop()`. A frame whose swap was abandoned was never published.

**Block.** A thread makes one call at a time; `Setter` is the code inside a window
that opens a nested one (`Processor::setInput` inside `IQFrontEnd::setDecimation`).
`Unlocked` is the set of threads that open windows without `ctrlMtx`.

**Splitter.** One module for two classes that differ in one point, what a cancelled
swap does with the block that was being distributed. `keeps`, fixed at the start, says
which class it is: `Cancel` keeps the block and the progress (`delivered`, `pending`) in
`ContinuousIQSplitter`, and flushes the block in `dsp::routing::Splitter`. The worker is
`run()` one stream at a time; a control call is begun (`Call`), joined (`Joined`) and
applied (`Bind`, `Unbind`, `SetInput`, `StartStop`). The stop flags of the streams of one
block are one flag, because the worker waits for one stream at a time. A stream that is bound again may still hold an
old block (`Bind` leaves `full` alone); the consumer has to read it first. `Publish` and
`Consume` are the source and the consumers. The properties about one class have `keeps`
or its negation as a premise, and all are checked on both in one run.

**Chain.** `enableBlock` and `disableBlock` are several steps, one per `setInput()`,
`start()` or `stop()`, because the workers run in between. A stream is named by the
block that writes it.

**FrameBuffer.** `run()` is `ReadFrame`, then `Push`, or `Bypass` and `BypassSwap`; `worker()`
is `Copy`/`Empty`/`Sleep`/`Swap`. `run()` reads `bypass` once per frame, as the code does.
`writeBuf`, `readBuf` and `canSwap` are the output stream's: here its two buffers matter, because both
threads copy into the write buffer when `setBuffering` is called between them (`CopyOut`), and a swap leaves the
frame of the swap before in it (`SwapOut`). Two history variables remember this: `mixed` that `setBuffering` was
called with a frame under way, `clashed` that a thread copied into the write buffer while the other was waiting to swap
its own frame out. `Size` is `TEST_BUFFER_SIZE`.

**ReceiverAllocator.** One action per method. A missing map entry is `"none"`
or `NoReceiver`. `AllocatorSpec` allows a channel to be activated with any allocation that
is sound *at that time*; that the program's allocations are is a property of
`MultiReceiver`.

**MultiReceiver.** `dpc` is `dispatchThreadFunc`, `mpc` the management loop, `cpc` the
thread in `start()`/`stop()`, `leaving` the one in the unregistration handler. The
locks are dropped exactly between `BeginTune` and `Tuned` or `SetupFailed`.

**ConfigManager.** `pc` is the main thread's life (load, run, `disableAutoSave`,
final save, end), `wpc` the auto-save worker, `tpc` the threads between `acquire` and
`release`. A save is two steps, because opening the file truncates it. `Restart` is
a kill, or the next start of a program that has ended.

**SourceManager.** Each method of the class is one section under `sourceMtx`. Two threads
act through it, the GUI and the rigctl server: `setPlayState` is three steps on either of them
(`PlayPressed`, `StartSource`, `NowPlaying`; `StopPressed`, `StopSource`), since it holds no
lock. The removal of a module is `Destroy` (its destructor stops the driver),
`Announce` (the event, emitted with the lock dropped) and `Erase` with the menu's reselection.
The banks' `prepareMultiReceiverScan` and `releaseMultiReceiverSources` are `prepareMultiReceiverScan`
and `Release`, with a receiver that cannot be claimed, prepared or started at each place where the code
provides for it. `Select` is shared by the four callers of `selectSource`. `strays` is a history variable:
the drivers that were deselected while they ran.

**ServerClient.** The caller runs the steps of the method it is in: `Steps` lists them in the
order of the code, and `setFrequency` sends before it registers its waiter, as the code does.
The worker receives a packet, walks through the waiters of that command (`Visit`, `Notify`, then `Check`,
`Doze` until the caller has called `handled()`) and removes those it has notified
(`Remove`). `Stall` is a packet that does not come complete, `Disconnect` a network that fails,
`Hangup` the end of the connection; the timeout of a request is a choice of `Await`. `Close` and `Closed` are
`close()`. The server answers in order (`CommandHandler`), sends samples while it runs
(`SendSamples`) and turns away a client when it has one (`admitted`).

## 3. The runs

| run | instance | question and answer |
|---|---|---|
| `stream` | 3 frames, unbounded stops and restarts | Does the two-buffer stream implement the hand-off, its liveness included? Yes: `FrameIntegrity`, `NoLostWakeup`, `StopReturns`, `Implements`. Three frames fill and reuse both buffers. |
| `block` | 2 threads, 8 calls | With windows opened under `ctrlMtx`: `StoppedWhileReconfigured`, `NeverTerminates` (no thread object overwritten while joinable), `AliveIffRunning`, `CallsReturn`. |
| `block_unlocked_window` | 2 threads of which one does not lock, 3 calls | *Expected violation*: the block runs inside a window. See section 6. |
| `splitter` | both splitters, 2 inputs, 3 consumers, 2 blocks on each input, 5 calls (376 000 states) | The channel bank's: `ImplementsFanOut`, `Drains`. Both: `LossBounded` (the core's loses at most one block per control call, the other none), `NoRepeat`, `CompleteUnlessCancelled`, `CallsReturn`. Three consumers: one that has the block, one that blocks it, one still to be served; five calls allow two binds, a start, and an unbind and a bind in the middle of a block. |
| `chain` | 3 blocks, 2 inputs, unbounded | `Wired`, `OneReader`, `RunsEnabled`, `NoFeedback`. Three blocks give one an enabled and a disabled neighbour on either side. |
| `frame_buffer` | a ring of 3, 2 inputs, 4 frames, 3 calls (391 000 states) | `NewestKept`, `Ordered` (that is `InOrder` and `NoneTwice`), `DrainsAndStops`, with buffering switched at any time; what each says of the switch is in section 6. Four frames: one copied out, three that overrun the ring; three calls: a start, a switch and a stop. |
| `multi_receiver` | 2 receivers of unequal span, 3 keys | `SlotsAgree`, `Heard`, `PendingTracked`, `Distinct`, `EndsForAReason`, `NeverMoved`, with source loss, stop and restart. Of the three keys two exclude each other, two can share either receiver, and two only the first. |
| `multi_receiver_decides` | 2 receivers, 2 keys | `ImplementsAllocator`, `PendingDecided` (liveness; hence fewer keys). |
| `multi_receiver_stop` | the same | *Expected violation* of `StopReturns`. See section 6. |
| `config` | 2 threads, 3 edits, 2 kills, 4 kinds of path | `NoLostChange`, `NeverPartial`, `CleanExit`, `SavedEventually`, `ExitReturns`. |
| `source_manager` | 3 sources, 2 banks with all of them in both pools, unbounded (1.2 million states) | `LeasesHeld`, `Accounted`, `Independent`. One source to select and one for each bank, any of which may leave. |
| `server_client` | 3 requests, 2 packets under way (192 000 states) | `BufferStable`, `Answers`, `CallsReturn`. Three requests: one that times out, one its late answer reaches, one after it. |

Bounds: `MaxFrames`, `MaxBlocks`, `MaxChanges`, `MaxCalls`, `MaxEdits`, `MaxCrashes`,
`MaxRequests` cap counters that only grow, `Depth` the packets under way; each is in the guard of the
action it bounds, and is chosen so that every interesting combination fits before it is reached.
Symmetry is not used: most runs check liveness.

Deadlock is checked in `stream`, `chain`, `source_manager` and the `multi_receiver`
runs. It is not where the calls are bounded and the system may come to rest (the `block` runs, `splitter`,
`server_client`), nor in `config`, where `load()` on a directory returns with
the mutex held (config.cpp:29-32) and the program stops at the next use, nor in
`frame_buffer`, where a `stop()` may lose its wake-up (section 6).

### Fairness

Only threads that exist are fair: a worker is a running thread, and a thread inside
a call goes on with it (`WF` on `Worker`, `Run`, `Writer`, `Reader`, `Finish`, `Proceed`,
`Management`, `Dispatcher`, `Stopping`, `Caller`). Nobody has to *begin* a call, publish, drain a stream,
edit, unregister or stop; no spurious wake-up has to happen. A request to the server ends because its
wait is bounded by `PROTOCOL_TIMEOUT_MS`, and a client whose constructor failed is closed; the server and the
network owe it nothing, so that no fairness is assumed of them. Where a property needs
a living environment (`Drains`: a source that publishes, consumers that read) the
fairness is its premise. Strong fairness is assumed in three places, each a mutex
that is taken and released again and again: `Push` of the multi-receiver scan (the queue's mutex), `TryLock`
(tried once a second, while the mutex is held for microseconds) and `FinalSave`.
It says only that a thread that waits for such a mutex gets it in the end.

## 4. The proofs

TLAPS proves these for every value of the constants; TLC's bounds play no part.
What is assumed is what the `ASSUME`s of the modules say of the constants, which TLC
evaluates on every run, and what a theorem itself assumes.

**DataPathProofs, the stream** (from `MaxFrames \in Nat`): `TypeCorrect`, `FrameIntegrityHolds`,
`NoLostWakeupHolds`, `NeverBothWaitHolds`, `ImplementsHandoff`. `FrameIntegrity` is not inductive: it speaks
only of the moment at which the reader uses the buffer. The inductive invariant
`IInv` adds `OneHolder` (the right to the buffers is in exactly one of `canSwap`,
`dataReady`, a writer between its two sections, a reader between its two sections),
`Lag` (how far the reader is behind, by holder) and `Sides` (a stop flag is up exactly
while that side is being stopped, and no worker waits once its stop was notified). From `OneHolder` it also
follows that the two workers never wait for each other. Refinement: each
action of `Stream` is one of `Handoff` (`SwapBuffers` is `Put`, `Process` is `Take`, starts
and stops are control steps) or a stutter, under `IInv`.

**DataPathProofs, the chain** (any number of blocks and inputs): `WiredHolds`, `OneReaderHolds`, `RunsEnabledHolds`,
`NoFeedbackHolds`. `Wired` speaks of the chain between two calls, `OneReader` of every step of a call, and a call
is several steps in which the pipeline is neither the old one nor the new one. The invariant `ChainInv` therefore says
what the pipeline is at each of them: `Path` is the enabled blocks and the one that a call in
progress is putting in or taking out, and `Connected` says that each block on it
reads from the one before it, the first from the input (but for a block that was put in and is not yet connected), and
that `out` is the output of the last. `Listed` says that no block is in
`links` twice, `RunsAlways` that the block that is being put in or taken out does not run. Two blocks with the same
input would be two successors of one block in `Path`; a block that reads its own output, its own predecessor.

**BlockProofs** (assuming `Unlocked = {}`: every window is opened under `ctrlMtx`): for any set of threads
and any number of calls, `StoppedWhileReconfiguredHolds`, `NeverTerminatesHolds`, `AliveIffRunningHolds`. The
invariant is `Exclusion` (a thread inside a call holds `ctrlMtx`, and the windows that are open are its own),
`Place` (what its place says of the call and of the depth) and `Life` (what its place says of the worker).
The run `block_unlocked_window` shows that the assumption is needed. `CallsBoundedHolds` is described below.

**SplitterProofs** (any streams, blocks and calls): `ImplementsFanOutHolds`, `LossBoundedHolds`,
`NoRepeatHolds`, `CompleteHolds`. The invariant `Inv` says that no stream is bound twice (`Types`), that a call takes effect
with the worker joined and still makes sense then (`Control`), that `delivered` is exactly the bound streams that
have the block being distributed and nobody has one that is not being distributed yet (`Progress`), and that a call
which finds the worker running has a loss of its own to spend (`Losses`). Two lemmas say what binding
and unbinding do to the vector, which is what the code's `erase` does.

**FrameBufferProofs** (from `BoundsAssumption`: a ring of any size greater than one, any numbers of inputs, frames
and calls): `NewestKeptHolds`, `OrderedHolds`, `NoneTwiceHolds`, `NoneWaitsAsleepHolds`. Neither `NewestKept` nor `Ordered` is
inductive. `BufferInv` adds that only one of the two ways through the buffer is in use until they
are mixed (`OneWay`); that what waits on the ring is the end of what was accepted (`Room`), and what was sent comes
before it (`Behind`), the frame that is copied but not yet swapped being the last of that (`InHand`); that
a frame `run()` has read stays in its stream until it is accepted (`Seen`); and that every frame is in one input or
was accepted once (`Once`). `NewestKept` and `InOrder` have the premise that buffering was only switched with no frame under way
(`~mixed`). `NoneTwice` has a weaker one, `~clashed`, and so an invariant of its own, `OnceInv`: what waits on the ring was
accepted and is there once (`RingOnce`), and, until there was a clash, what was sent no longer waits, the frame in
the write buffer neither waits nor was sent, and only one thread is about to swap (`SentOnce`). `ClashNeedsMixing`
says that the one premise implies the other. The lemmas `Wrap`, `Distance`, `NextCursor`,
`PushRing` and `PopRing` are the arithmetic of the two cursors. `NoneWaitsAsleep` is the safety core of draining: `worker()`
neither sleeps nor is about to while a frame waits.

**MultiReceiverProofs, the allocator** (from `AllocatorAssumption`: a pool of any size, any
natural keys, non-zero carriers): `ConsistentHolds`, `DistinctHolds`,
`ParkedHolds`, `NeverMovedHolds`, and two theorems about the operator `choose`: what it returns is sound (`ChooseIsSound`), and
it returns nothing only when nothing would be (`ChooseRefuses`). The invariant
`AllocatorInv` is the conjunction of the type, `Consistent`, `Distinct` and `Parked`: they
are proved together because an operation keeps one of them on the strength of the others. There is one
lemma per operation. `NeverMoved` is an action property, from the same invariant.

**MultiReceiverProofs, the scan** (from the same assumption): `ImplementsAllocatorHolds`, that every step of the scan
is a step of `AllocatorSpec` or leaves the allocator alone; from it and the allocator's theorems
`DistinctInScan` and `NeverMovedInScan`; and `SlotsAgreeHolds`, `HeardHolds`, `PendingTrackedHolds`,
`EndsForAReasonHolds`. What makes an allocation still sound after the locks were dropped is in the
invariant `ScanInv`: only one request is decided at a time and it is the only one of its key (`Flying`), so
that the receiver being tuned hosts nobody (`Centers`), and a receiver that hosts channels is tuned where
the allocator has it. `Phases` says which threads there are while the scan is started and stopped and what is left of it,
`Tracked` where a pending key is, `Bound` that every slot's offset lands on its carrier, and `Ending` that the
channels about to end have been asked to. There is one lemma per action, which proves both `ScanInv'`
and the allocator's step.

**ConfigProofs** (from `ConfigAssumption`: any set of threads whose names are not those
of the other holders): `TypeCorrect`, `NoLostChangeHolds`, `NeverPartialHolds`,
`CleanExitHolds`. `ConfigInv` says, at each place where the mutex is held, who holds it
(`Holders`), that the document is the released one outside an edit (`Document`), that
the file is the released document unless `changed` or a save in progress says otherwise
(`Saved`), and that what was released later is greater (`Order`).

**SourceProofs** (any sources, banks and pools): `LeasesHeldHolds`, `AccountedHolds`,
`IndependentHolds`. The leases and the accounting depend on each other: the end of a scan stops what has a
lease *and* a runtime, so that a lease may outlive its runtime only when the driver is already stopped. That is
`Leaving`, which says what holds between the three steps of a removal.

**ClientProofs** (any number of requests, any depth): `BufferStableHolds`, `AnswersHolds`. What is left of a
request is one of finitely many suffixes of `Steps` (`Rests`); the invariant says where
the worker may be while a caller waits or loads (`Current`), in what order answers and requests travel
(`Order`), and that a client the server turned away is never answered (`Refused`).

### How far the proofs reach into liveness

That something happens in the end needs fairness and ENABLED, which the prover does not reason about. What can be
proved is the safety core of such a property: a measure of the steps that are left falls with every step
of the thread that is waited for, nobody else makes it rise, and the thread is not blocked. These are action
properties, proved from the invariants above for every value of the constants; what remains for TLC is only
that a thread which can take a step takes it.

| theorem | measure | what it is the core of |
|---|---|---|
| `StopBoundedHolds` in `DataPathProofs` | at most six steps of the worker that is joined, which is never blocked | `StopReturns` |
| `CallsBoundedHolds` in `BlockProofs` (`Unlocked = {}`) | at most seven steps of the caller, and as many for a nested window it opens | `CallsReturn` |
| `StopBoundedHolds` in `SplitterProofs` | at most three steps of `run()` | `CallsReturn` |
| `StopBoundedHolds` in `FrameBufferProofs` | at most three steps of each thread; `worker()` was not left blocked | `DrainsAndStops` |
| `DecisionBoundedHolds` in `MultiReceiverProofs` | the receivers that are available and not yet tried | `PendingDecided` |
| `StopBoundedHolds` in `MultiReceiverProofs` | the keys not yet scanned and the channels not yet ended, then at most four steps of the dispatcher | `StopReturns` |
| `ExitBoundedHolds` in `ConfigProofs` | at most five steps of the auto-save thread | `ExitReturns` |
| `CallsBoundedHolds` in `ClientProofs` | what is left of the request; the waiters the worker has yet to meet | `CallsReturn` |

The last but one needs `Leaving` (the loop's flag is down while the thread is joined, and the main thread never
waits for itself), the last needs `Served`: everybody the worker knows of has been
handled, or is the request in progress, so that a worker being joined finds `dataHandled` set whenever it looks.
In the frame buffer, the scan and the client the step that blocks may come after the only notification;
the theorems say that this is the only way in which the joined thread is blocked, and section 6 what it means.

Only model-checked: the liveness properties themselves (`StopReturns`, `CallsReturn`, `Drains`, `DrainsAndStops`,
`PendingDecided`, `SavedEventually`, `ExitReturns`, and the fairness of `Implements`). Every safety property
of the passing runs is the property of a theorem.

## 5. What is abstracted or left out

- Samples, gains, rates and filters: a frame is a number. `STREAM_BUFFER_SIZE`,
  `stream::setBufferSize` and `free`, which are called with the block stopped.
- Frequencies in the multi-receiver scan are small numbers; the grid, the spectrum,
  VFO objects and the decisions of voice detection are choices.
- In `FrameBuffer`, two copies into the write buffer at the same time: the later one is taken to win. `NewestKept` and the
  order in `Ordered` say nothing once the two ways through the buffer have been mixed, and `NoneTwice`
  nothing once the two threads have met in the write buffer.
- In `MultiReceiver`, the two sections of one pass over the slots (main.cpp:7339 under `multiReceiverMtx`, which copies what
  the detectors saw, and 7349 under `channelsMtx`) are one step, `Observe`, at the place of the second: what was copied in
  the first may be out of date by then, and is any of the four findings. `requestMultiReceiverRelease` (7242), which
  would set the same flags from another thread, has no caller.
- In `ConfigManager`, JSON and the file system; writing never fails (the code does not
  look at the result, config.cpp:49-51).
- In `SourceManager`, tuning and frequencies, and the mutexes of the channel bank: what the GUI thread does
  in several sections is one step where nothing the rigctl server touches lies in between.
- In `ServerClient` there is one caller at a time. In the program the GUI thread (`showMenu`) and a thread that tunes (the
  rigctl server, the channel bank) may call methods of one client together: they fill the one send buffer
  under no lock (sdrpp_server_client.cpp:135 and 339), and their waiters are served by one worker. The
  properties are about one caller.
- In `ServerClient`, the requests are numbered so that the properties can speak of them; the program has no
  such number. The operations on the map of waiters are atomic, although no lock protects the map.
  Settings that are sent without an acknowledgement, decompression and the statistics are left out.
- Not modelled: the VFO manager, the sink manager, modules and events, the connections below the server and
  its client, the handover of the server from one connection to another, the ring buffer and the reshaper,
  and the rest of the channel bank, the scanner and the recorder, each a thread and a few states; the composition of the IQ
  front end, whose parts are modelled; and the GUI, the drivers, the decoders and the numerics, which
  have no state that TLA+ would say anything about.

## 6. What the models show about the code

The first two are violations that a run expects. The others are behaviours of the code that the models contain and that
nothing in the repository rules out. A property that meets one of them exempts it by name (`LostWakeup`, `mixed`, `clashed`,
`strays`) and so does not catch it; it shows that nothing else goes wrong. `PROJECT.json` lists these as hazards
without a property. Only the late answers are bounded by a property that has no exemption (`Answers`).

- **IQFrontEnd opens windows without the mutex** (`block_unlocked_window`).
  `setSampleRate` (iq_frontend.cpp:78) calls `tempStop()` on blocks whose `ctrlMtx` it does not
  hold. The SDR++ server client calls it from its network thread
  (sdrpp_server_client.cpp:209) while the GUI may start or stop the same blocks
  (gui/menus/source.cpp:305). In the trace, a `start()` comes while the window is open and the
  block runs while it is reconfigured. The comment over the calls says "Temp stop the necessary
  blocks". The same runs with `ctrlMtx` held are the `block` run, which passes.
- **stop() of the multi-receiver scan can hang** (`multi_receiver_stop`).
  main.cpp:7281 clears `dispatchRunning` and notifies without the queue's mutex; the dispatch
  thread may have found the predicate false and not yet be waiting. The join then never returns.
  MULTI_RECEIVER_SCAN_BUILD_HANDOFF.md names "clean stop/restart" as expected.
- **stop() of the frame buffer has the same shape** (frame_buffer.h:111-112): `stopWorker` is set and
  notified without `bufMtx`. `DrainsAndStops` therefore says that a call returns *unless* that wake-up
  is lost (`LostWakeup`). Nothing in the repository promises more.
- **close() of the server client has it too.** `PacketWaiter::notify()` waits for `dataHandled` under `readyMtx`, while
  `handled()` sets it under `handledMtx`: the wake-up can fall in between, the worker then sleeps and
  `close()` waits for it. `CallsReturn` names that case and shows it is the only one.
- **An answer can be an older one's.** A request that timed out leaves its waiter; its late answer is taken for that of the
  next request of the same command. What holds is that the menu never goes back
  (`Answers`), and that an answer is never overwritten while it is read (`BufferStable`).
- **Switching the buffering under way mixes frames.** `setBuffering` with a frame in the ring gives the output two writers for
  a moment. Frames may then overtake each other; and if one thread copies a frame into the write buffer while the
  other waits to swap its own out, one of the two frames is lost and the second swap publishes the frame of the swap
  before again (without its premise `NoneTwice` fails in the model, in this way). Nothing in the repository promises otherwise, so that
  this is named in the properties and not caught by them. What holds is that no frame is reordered unless the switch
  comes with a frame under way (`InOrder`), and none repeated unless the two threads then meet in the write buffer (`NoneTwice`).
- **Deselecting does not stop a driver.** `onSourcesChanged` (gui/menus/source.cpp:121) selects again whenever a source
  is registered or removed, also while one plays. The driver that ran is then no longer the selected one and no stop names
  it: `strays`. The channel bank itself asks its user to "stop SDR before changing source". `Accounted` shows that this, and the removal of a
  playing source under the rigctl server's feet, are the only ways to lose a driver.

## 7. Plan

Modules, in this order:
1. `IQFrontEnd` with the VFO manager: `Chain`, `Splitter` and `FrameBuffer` composed, `updateFFTPath`, and the
   removal of a VFO that is blocked.
2. The connections (`ConnClass`, `ListenerClass`) under `ServerClient`, and the server's handover from one client to the
   next.
3. Modules and events, whose emission drives `SourceManager`; and that module composed with `MultiReceiver`, whose
   locks `tune` and the unregistration take in different orders (source.cpp:227).
4. `RingBuffer` and `Reshaper` against an abstract FIFO; the sink manager; the channel bank's recorder and the scanner.

Proofs: the measures of section 4 for what is left of `SavedEventually` and `Drains`; the order in which the dispatcher
takes the requests; and the invariants of the new modules.
