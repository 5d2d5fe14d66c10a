---------------------------- MODULE SourceManager ----------------------------
(***************************************************************************)
(* SourceManager (core/src/signal_path/source.cpp) and those who act       *)
(* through it: the source menu (core/src/gui/menus/source.cpp), the play   *)
(* button and the rigctl server (MainWindow::setPlayState), the removal of *)
(* a source module, and the channel banks that lease sources for a         *)
(* Multi-Receiver Scan (misc_modules/channel_bank/src/main.cpp).           *)
(*                                                                         *)
(* Each method of SourceManager is one section under sourceMtx.  All the   *)
(* callers but the rigctl server run on the GUI thread; what one of them   *)
(* does in several sections is one step where nothing the rigctl server    *)
(* touches is read or written in between.  Frequencies are left out.       *)
(***************************************************************************)
EXTENDS Naturals

CONSTANTS Sources,    \* source names, as numbers in the order of the names
          Banks,      \* channel bank instances
          Pool        \* Pool[b]: transmissionReceiverPool, fixed while b runs

None == 0
Nobody == "nobody"
Threads == {"gui", "rigctl"}

ASSUME SourcesAssumption == Sources \subseteq Nat \ {None}
ASSUME BanksAssumption == Nobody \notin Banks /\ Pool \in [Banks -> SUBSET Sources]

VARIABLES
  sources, selected, owner,   \* SourceManager: sources, selectedName, independentOwners
  on,             \* sources whose driver is running
  menu,           \* sourcemenu::selectedSource
  playing,        \* MainWindow::playing
  pc, leaving,    \* where each thread is; the source whose module is being deleted
  scanning, discovery, runtimes,    \* per bank: running, discoveryReceiver, receiverRuntimes
  strays          \* running sources nobody will stop: see Accounted

registry == <<sources, selected, owner>>
banks == <<scanning, discovery, runtimes>>
vars == <<registry, on, menu, playing, pc, leaving, banks, strays>>

Init ==
  /\ sources = {} /\ selected = None /\ owner = [s \in Sources |-> Nobody]
  /\ on = {} /\ menu = None /\ playing = FALSE
  /\ pc = [t \in Threads |-> "idle"] /\ leaving = None
  /\ scanning = {} /\ runtimes = [b \in Banks |-> {}]
  /\ discovery = [b \in Banks |-> None] /\ strays = {}

(***************************************************************************)
(* selectSource, on the sources S with the owners o, when `now` is         *)
(* selected.  The deselected driver is not stopped.                        *)
(***************************************************************************)
(* Seeded fault: a leased source can be selected.                          *)
SelectUnchecked(s, S, o, now) ==
  /\ selected' = IF s \in S THEN s ELSE now
  /\ strays' = strays \cup (({selected} \cap on) \ {selected'})

Select(s, S, o, now) ==
  /\ selected' = IF s \in S /\ o[s] = Nobody THEN s ELSE now
  /\ strays' = strays \cup (({selected} \cap on) \ {selected'})

(* sourcemenu::onSourcesChanged: select the menu's source again, or the    *)
(* first one.                                                              *)
First(S) == CHOOSE s \in S : \A r \in S : s =< r

Reselect(S, o, now) ==
  IF S = {}
  THEN menu' = None /\ Select(None, S, o, now)
  ELSE /\ menu' = IF menu \in S THEN menu ELSE First(S)
       /\ Select(menu', S, o, now)

GuiIdle == pc["gui"] = "idle"

(* registerSource and its event, when a module is loaded.                  *)
Register(s) ==
  /\ GuiIdle /\ s \notin sources
  /\ sources' = sources \cup {s}
  /\ Reselect(sources \cup {s}, owner, selected)
  /\ UNCHANGED <<owner, on, playing, pc, leaving, banks>>

(* The source menu, the channel bank's web interface, and its Discovery    *)
(* Receiver; each refuses while the SDR is playing.                        *)
SelectMenu(s) ==
  /\ GuiIdle /\ ~playing /\ s \in sources
  /\ menu' = s /\ Select(s, sources, owner, selected)
  /\ UNCHANGED <<sources, owner, on, playing, pc, leaving, banks>>

SelectApi(s) ==
  /\ GuiIdle /\ ~playing /\ s \in sources
  /\ Select(s, sources, owner, selected)
  /\ UNCHANGED <<sources, owner, on, menu, playing, pc, leaving, banks>>

(* The Discovery Receiver's list also works while the bank scans, and is   *)
(* then the list of the scan's start.                                      *)
SelectDiscovery(b, s) ==
  /\ GuiIdle /\ ~playing /\ (s \in sources \/ b \in scanning)
  /\ Select(s, sources, owner, selected)
  /\ discovery' = [discovery EXCEPT ![b] = s]
  /\ UNCHANGED <<sources, owner, on, menu, playing, pc, leaving, scanning, runtimes>>

(* The bank's menu adopts the selected source as its discovery receiver.   *)
ShowDiscovery(b) ==
  /\ GuiIdle /\ discovery[b] = None
  /\ discovery' = [discovery EXCEPT ![b] = selected]
  /\ UNCHANGED <<registry, on, menu, playing, pc, leaving, scanning, runtimes, strays>>

(***************************************************************************)
(* setPlayState, on either thread, with no lock between its steps.         *)
(***************************************************************************)
PlayPressed(t) ==
  /\ pc[t] = "idle" /\ ~playing
  /\ pc' = [pc EXCEPT ![t] = "starting"]
  /\ UNCHANGED <<registry, on, menu, playing, leaving, banks, strays>>

(* SourceManager::start; the driver may fail to open its device.           *)
StartSource(t) ==
  /\ pc[t] = "starting"
  /\ on' = on \/ (selected # None /\ on' = on \cup {selected})
  /\ pc' = [pc EXCEPT ![t] = "started"]
  /\ UNCHANGED <<registry, menu, playing, leaving, banks, strays>>

NowPlaying(t) ==
  /\ pc[t] = "started"
  /\ playing' = TRUE
  /\ pc' = [pc EXCEPT ![t] = "idle"]
  /\ UNCHANGED <<registry, on, menu, leaving, banks, strays>>

StopPressed(t) ==
  /\ pc[t] = "idle" /\ playing
  /\ playing' = FALSE
  /\ pc' = [pc EXCEPT ![t] = "stopping"]
  /\ UNCHANGED <<registry, on, menu, leaving, banks, strays>>

StopSource(t) ==
  /\ pc[t] = "stopping"
  /\ on' = on \ {selected} /\ strays' = strays \ {selected}
  /\ pc' = [pc EXCEPT ![t] = "idle"]
  /\ UNCHANGED <<registry, menu, playing, leaving, banks>>

(***************************************************************************)
(* A bank starts and stops a Multi-Receiver Scan.                          *)
(***************************************************************************)
claimable(b, chosen) ==
  {r \in Pool[b] \ {chosen, selected} : r \in sources /\ owner[r] \in {Nobody, b}}

(* The pool's receivers are claimed one after the other.  One that cannot  *)
(* be prepared is released at once, and one that fails to start is also    *)
(* stopped.                                                                *)
prepareMultiReceiverScan(b) ==
  /\ GuiIdle /\ b \notin scanning
  /\ selected # None /\ discovery[b] \in {None, selected}
  /\ discovery' = [discovery EXCEPT ![b] = selected]
  /\ \E ready, failed \in SUBSET claimable(b, selected) :
       /\ ready \cap failed = {}
       /\ on' = (on \cup ready) \ failed /\ strays' = strays \ (ready \cup failed)
       /\ owner' = [s \in Sources |-> IF s \in ready THEN b ELSE owner[s]]
       /\ runtimes' = [runtimes EXCEPT ![b] = ready]
       /\ scanning' = IF ready = {} THEN scanning ELSE scanning \cup {b}
  /\ UNCHANGED <<sources, selected, menu, playing, pc, leaving>>

(* stopIndependentSource of every runtime of the banks B, each refused     *)
(* unless the bank holds the lease.                                        *)
Stopped(B) == {s \in sources : owner[s] \in B /\ s \in runtimes[owner[s]]}

(* Seeded faults: a release that trusts the pool and not the lease, and    *)
(* one that does not stop the drivers.                                     *)
ReleaseUnowned(B) ==
  /\ on' = on \ UNION {Pool[b] : b \in B}
  /\ owner' = [s \in Sources |-> IF owner[s] \in B THEN Nobody ELSE owner[s]]
  /\ scanning' = scanning \ B
ReleaseRunning(B) ==
  /\ on' = on
  /\ owner' = [s \in Sources |-> IF owner[s] \in B THEN Nobody ELSE owner[s]]
  /\ scanning' = scanning \ B

(* releaseMultiReceiverSources of the banks B.                             *)
Release(B) ==
  /\ on' = on \ Stopped(B)
  /\ owner' = [s \in Sources |->
                 IF owner[s] \in B /\ s \in Pool[owner[s]] THEN Nobody ELSE owner[s]]
  /\ scanning' = scanning \ B

StopScan(b) ==
  /\ GuiIdle /\ b \in scanning
  /\ Release({b})
  /\ runtimes' = [runtimes EXCEPT ![b] = {}]
  /\ UNCHANGED <<sources, selected, menu, playing, pc, leaving, discovery, strays>>

(***************************************************************************)
(* The module of a source is deleted: its destructor stops the driver and  *)
(* calls unregisterSource, which drops the lock to announce the removal.   *)
(***************************************************************************)
Destroy(s) ==
  /\ GuiIdle /\ s \in sources
  /\ on' = on \ {s} /\ strays' = strays \ {s}
  /\ pc' = [pc EXCEPT !["gui"] = "deleting"] /\ leaving' = s
  /\ UNCHANGED <<registry, menu, playing, banks>>

(* onSourceUnregister: a bank that scans stops when it loses its discovery *)
(* receiver, and drops the runtime of any other; the lease is still there. *)
Announce ==
  /\ pc["gui"] = "deleting"
  /\ LET bereft == {b \in scanning : discovery[b] = leaving}
     IN  /\ Release(bereft)
         /\ runtimes' = [b \in Banks |-> IF b \in bereft THEN {} ELSE runtimes[b] \ {leaving}]
  /\ pc' = [pc EXCEPT !["gui"] = "announced"]
  /\ UNCHANGED <<sources, selected, menu, playing, leaving, discovery, strays>>

Erase ==
  /\ pc["gui"] = "announced"
  /\ LET rest == sources \ {leaving}
         o == [owner EXCEPT ![leaving] = Nobody]
     IN  /\ sources' = rest /\ owner' = o
         /\ Reselect(rest, o, IF selected = leaving THEN None ELSE selected)
  /\ pc' = [pc EXCEPT !["gui"] = "idle"] /\ leaving' = None
  /\ UNCHANGED <<on, playing, banks>>

Next ==
  \/ \E s \in Sources : Register(s) \/ SelectMenu(s) \/ SelectApi(s) \/ Destroy(s)
  \/ \E b \in Banks : \/ prepareMultiReceiverScan(b) \/ StopScan(b) \/ ShowDiscovery(b)
                      \/ \E s \in Sources : SelectDiscovery(b, s)
  \/ \E t \in Threads : \/ PlayPressed(t) \/ StartSource(t) \/ NowPlaying(t)
                        \/ StopPressed(t) \/ StopSource(t)
  \/ Announce \/ Erase

Spec == Init /\ [][Next]_vars

TypeOK ==
  /\ sources \subseteq Sources /\ selected \in Sources \cup {None}
  /\ owner \in [Sources -> Banks \cup {Nobody}]
  /\ on \subseteq Sources /\ strays \subseteq Sources
  /\ menu \in Sources \cup {None} /\ playing \in BOOLEAN
  /\ pc \in [Threads -> {"idle", "starting", "started", "stopping", "deleting", "announced"}]
  /\ leaving \in Sources \cup {None}
  /\ scanning \subseteq Banks /\ runtimes \in [Banks -> SUBSET Sources]
  /\ discovery \in [Banks -> Sources \cup {None}]

-----------------------------------------------------------------------------
(***************************************************************************)
(* The selected source is registered and leased to nobody, so the play     *)
(* button never drives a receiver of a bank.  A lease is that of a         *)
(* registered source and of a bank that scans and has a runtime for it,    *)
(* except while the source's module goes; and a bank has runtimes for its  *)
(* own leases only, so that no two banks drive one receiver.               *)
(***************************************************************************)
LeasesHeld ==
  /\ selected # None => selected \in sources /\ owner[selected] = Nobody
  /\ \A s \in Sources : owner[s] # Nobody =>
       /\ s \in sources /\ owner[s] \in scanning
       /\ s \in runtimes[owner[s]] \/ leaving = s
  /\ \A b \in Banks : \A s \in runtimes[b] : owner[s] = b

(***************************************************************************)
(* Every running driver is the selected one of a receiver that plays, is   *)
(* being started or is being stopped, or one a bank leases: a scan leaves  *)
(* none running however it ends.  The one way to lose a driver is to       *)
(* select another source, or remove the source, while it runs (strays):    *)
(* deselecting does not stop it and stop() no longer names it.             *)
(***************************************************************************)
Driven ==
  {s \in sources : owner[s] # Nobody} \cup
  {s \in {selected} : playing \/ \E t \in Threads : pc[t] \in {"started", "stopping"}}

Accounted == on \subseteq strays \cup Driven

(***************************************************************************)
(* Nobody starts or stops a leased receiver from outside: not the play     *)
(* button or rigctl, not the end of another bank's scan, and not the       *)
(* removal of another source.                                              *)
(***************************************************************************)
Independent ==
  [][\A s \in Sources : owner[s] # Nobody /\ owner'[s] = owner[s] /\ leaving' # s
        => (s \in on' <=> s \in on)]_vars
=============================================================================
