-------------------------------- MODULE Chain --------------------------------
(***************************************************************************)
(* dsp::chain (core/src/dsp/chain.h): a list of processors of which some   *)
(* are enabled, wired one after the other between the chain's input and    *)
(* the consumer of its output (the splitter of IQFrontEnd, the output      *)
(* stream of a radio).  One thread controls a chain, but the workers of    *)
(* its blocks run while it is rewired, so a rewiring call is modelled one  *)
(* setInput(), start() or stop() at a time: the streams read in between    *)
(* matter.                                                                 *)
(*                                                                         *)
(* A stream is named by the block whose output it is; Sources are the      *)
(* streams that come from outside.                                         *)
(***************************************************************************)
EXTENDS Naturals, Sequences, FiniteSets, SequencesExt

CONSTANTS Blocks, Sources

ASSUME NamesAssumption ==
  /\ Blocks \cap Sources = {} /\ "none" \notin Blocks \cup Sources
  /\ Sources # {}

VARIABLES
  source,         \* _in
  links, enabled, \* the list of blocks; states[b] for the blocks in it
  out,            \* the stream the chain says is its output
  running,
  input,          \* input[b]: the stream block b reads
  started,        \* the blocks whose worker is running
  consumer,       \* the stream the chain's consumer reads, "none" before it is set
  call, arg       \* the rewiring call in progress and its block

chainVars == <<source, links, enabled, out, running, input, started, consumer, call, arg>>

ChainInit ==
  /\ source \in Sources /\ out = source
  /\ links = <<>> /\ enabled = {} /\ running = FALSE
  /\ input = [b \in Blocks |-> source] /\ started = {}
  /\ consumer = "none" /\ call = "none" /\ arg = "none"

Position(b) == CHOOSE k \in DOMAIN links : links[k] = b

(* blockBefore() and blockAfter(): the enabled neighbours of b, as a set   *)
(* that is empty where the code returns NULL.                              *)
Before(b) == {a \in enabled : Position(a) < Position(b)}
After(b)  == {a \in enabled : Position(a) > Position(b)}
LastOf(S)  == CHOOSE a \in S : \A x \in S : Position(x) <= Position(a)
FirstOf(S) == CHOOSE a \in S : \A x \in S : Position(a) <= Position(x)

Upstream(b) == IF Before(b) = {} THEN source ELSE LastOf(Before(b))

(* Whoever reads the output of b is given the stream s instead: the next   *)
(* enabled block, or the consumer through onOutputChange.                  *)
Redirect(b, s) ==
  IF After(b) # {}
  THEN input' = [input EXCEPT ![FirstOf(After(b))] = s] /\ UNCHANGED <<out, consumer>>
  ELSE out' = s /\ consumer' = s /\ UNCHANGED input

Idle == call = "none"
Done == call' = "none" /\ arg' = "none"

(***************************************************************************)
(* Building the chain.  A block can be added enabled only before there is  *)
(* a consumer (addBlock tells nobody that the output changed), which is    *)
(* how IQFrontEnd and the radio use it.                                    *)
(***************************************************************************)
AddBlock(b, enable) ==
  /\ Idle /\ b \notin Range(links)
  /\ enable => consumer = "none"
  /\ links' = Append(links, b)
  /\ IF enable
     THEN /\ enabled' = enabled \cup {b} /\ out' = b
          /\ input' = [input EXCEPT ![b] = out]
          /\ started' = IF running THEN started \cup {b} ELSE started
     ELSE UNCHANGED <<enabled, out, input, started>>
  /\ UNCHANGED <<source, running, consumer, call, arg>>

Attach ==
  /\ Idle /\ consumer = "none"
  /\ consumer' = out
  /\ UNCHANGED <<source, links, enabled, out, running, input, started, call, arg>>

SetInput(s) ==
  /\ Idle /\ consumer # "none" /\ s # source
  /\ source' = s
  /\ IF enabled # {}
     THEN input' = [input EXCEPT ![FirstOf(enabled)] = s] /\ UNCHANGED <<out, consumer>>
     ELSE out' = s /\ consumer' = s /\ UNCHANGED input
  /\ UNCHANGED <<links, enabled, running, started, call, arg>>

(***************************************************************************)
(* enableBlock(): give b's reader the output of b, connect b, start it.    *)
(***************************************************************************)
Enable(b) ==
  /\ Idle /\ consumer # "none" /\ b \in Range(links) \ enabled
  /\ Redirect(b, b)
  /\ call' = "connect" /\ arg' = b
  /\ UNCHANGED <<source, links, enabled, running, started>>

(* Seeded fault: the block is connected to the chain's input.              *)
ConnectToSource ==
  /\ call = "connect"
  /\ input' = [input EXCEPT ![arg] = source]
  /\ call' = "start" /\ UNCHANGED arg
  /\ UNCHANGED <<source, links, enabled, out, running, started, consumer>>

(* Seeded fault: the last block is connected to what is now its own output. *)
ConnectToOut ==
  /\ call = "connect"
  /\ input' = [input EXCEPT ![arg] = IF After(arg) = {} THEN out ELSE Upstream(arg)]
  /\ call' = "start" /\ UNCHANGED arg
  /\ UNCHANGED <<source, links, enabled, out, running, started, consumer>>

Connect ==
  /\ call = "connect"
  /\ input' = [input EXCEPT ![arg] = Upstream(arg)]
  /\ call' = "start" /\ UNCHANGED arg
  /\ UNCHANGED <<source, links, enabled, out, running, started, consumer>>

(* Seeded fault: the block is started whether or not the chain runs.       *)
StartBlockAlways ==
  /\ call = "start"
  /\ started' = started \cup {arg} /\ enabled' = enabled \cup {arg}
  /\ Done
  /\ UNCHANGED <<source, links, out, running, input, consumer>>

StartBlock ==
  /\ call = "start"
  /\ started' = IF running THEN started \cup {arg} ELSE started
  /\ enabled' = enabled \cup {arg}
  /\ Done
  /\ UNCHANGED <<source, links, out, running, input, consumer>>

(***************************************************************************)
(* disableBlock(): stop b, then connect its reader to what b was reading.  *)
(* removeBlock() does this and then takes b off the list.                  *)
(***************************************************************************)
(* Seeded fault: the block is not stopped.                                 *)
DisableRunning(b, remove) ==
  /\ Idle /\ consumer # "none" /\ b \in enabled
  /\ enabled' = enabled \ {b}
  /\ call' = (IF remove THEN "bypassRemove" ELSE "bypass") /\ arg' = b
  /\ UNCHANGED <<source, links, out, running, input, started, consumer>>

Disable(b, remove) ==
  /\ Idle /\ consumer # "none" /\ b \in enabled
  /\ started' = started \ {b} /\ enabled' = enabled \ {b}
  /\ call' = (IF remove THEN "bypassRemove" ELSE "bypass") /\ arg' = b
  /\ UNCHANGED <<source, links, out, running, input, consumer>>

Bypass ==
  /\ call \in {"bypass", "bypassRemove"}
  /\ Redirect(arg, Upstream(arg))
  /\ links' = IF call = "bypassRemove" THEN RemoveFirst(links, arg) ELSE links
  /\ Done
  /\ UNCHANGED <<source, enabled, running, started>>

RemoveDisabled(b) ==
  /\ Idle /\ b \in Range(links) \ enabled
  /\ links' = RemoveFirst(links, b)
  /\ UNCHANGED <<source, enabled, out, running, input, started, consumer, call, arg>>

Start ==
  /\ Idle /\ ~running
  /\ running' = TRUE /\ started' = enabled
  /\ UNCHANGED <<source, links, enabled, out, input, consumer, call, arg>>

Stop ==
  /\ Idle /\ running
  /\ running' = FALSE /\ started' = {}
  /\ UNCHANGED <<source, links, enabled, out, input, consumer, call, arg>>

ChainNext ==
  \/ Attach \/ Connect \/ StartBlock \/ Bypass \/ Start \/ Stop
  \/ \E s \in Sources : SetInput(s)
  \/ \E b \in Blocks :
       \/ Enable(b) \/ RemoveDisabled(b)
       \/ \E flag \in BOOLEAN : AddBlock(b, flag) \/ Disable(b, flag)

ChainSpec == ChainInit /\ [][ChainNext]_chainVars

-----------------------------------------------------------------------------
Streams == Blocks \cup Sources

(* Between calls the enabled blocks, in the order of the list, form one    *)
(* pipeline from the chain's input to its output, and the consumer reads   *)
(* that output.                                                            *)
Wired ==
  Idle => /\ \A b \in enabled : input[b] = Upstream(b)
          /\ out = IF enabled = {} THEN source ELSE LastOf(enabled)
          /\ consumer \in {out, "none"}

(* Also in the middle of a rewiring no stream has two running readers,     *)
(* which dsp::stream does not support: a block is stopped before its       *)
(* stream is handed on, and handed its stream before it is started.        *)
Readers(s) == {b \in started : input[b] = s} \cup {c \in {"consumer"} : consumer = s}
OneReader == \A s \in Streams : Cardinality(Readers(s)) <= 1

(* The blocks that run are the enabled ones of a running chain: a disabled *)
(* or removed block keeps no worker.                                       *)
RunsEnabled == Idle => started = (IF running THEN enabled ELSE {})

(* A running block never reads, through the blocks before it, its own      *)
(* output, not even while the chain is being rewired: of any running       *)
(* blocks one reads a stream that is not among their outputs (each reads   *)
(* one stream, so that those on a cycle would read each other's only).     *)
NoFeedback ==
  \A C \in SUBSET started : C # {} => \E b \in C : input[b] \notin C
=============================================================================
