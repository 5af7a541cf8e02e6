---------------------------- MODULE EmulatedDevice ----------------------------
(***************************************************************************)
(* The calls of the emulated device (src/src/emulated_device.cpp), on the  *)
(* registers and the engine of SocModel: single accesses, blocks, Reset    *)
(* and set_transfer_latency.                                               *)
(*                                                                         *)
(* The device has one caller at a time: it takes no lock.                  *)
(***************************************************************************)
EXTENDS SocModel, FiniteSetsExt

CONSTANTS
  Inputs,     \* Inputs[r]: the words software writes to register r
  Latencies,  \* the arguments of set_transfer_latency
  MaxTicks,   \* bound: no access when the engine is idle and ticks_ is here
  MaxBlock    \* bound: the words of a block access

ASSUME InputsAssumption == Inputs \in [Registers -> SUBSET (SUBSET Bits)]
ASSUME TimeAssumption ==
  /\ MaxTicks \in Nat /\ MaxBlock \in Nat
  /\ Latencies \subseteq 0..(TickMod - 1)

VARIABLES
  dev,     \* the EmulatedDevice: storage, ticks, latency, doneAt, running
  burst,   \* the ReadBlock or WriteBlock under way: its next address and its length
  thrown,  \* the last call threw TransportError
  trip     \* history: what the transfers asked for and took

vars == <<dev, burst, thrown, trip>>

------------------------------------------------------------------------------
(* The calls.  PolicyFor throws before anything happens. *)

NoBurst == [op |-> "none", at |-> Undecoded, left |-> 0]
NoEnd == [asked |-> 0, took |-> 0]
NoTrip == [asked |-> 0, age |-> 0, ended |-> NoEnd]

\* MaxTicks bounds idling and the start of transfers; what is begun may end.
Room == dev.running \/ burst # NoBurst \/ dev.ticks < MaxTicks

\* A transfer is over in this step, a transfer begins in this step.
Ends == dev.running /\ Tick(dev).running = FALSE
Begins == dev'.running /\ (~ dev.running \/ Ends)

\* One access gone: it counts for the transfer that was running before it.
CountTrip ==
  trip' = [asked |-> IF Begins THEN dev.latency ELSE IF Ends THEN 0 ELSE trip.asked,
           age |-> IF Begins \/ ~ dev'.running THEN 0 ELSE trip.age + 1,
           ended |-> IF Ends THEN [asked |-> trip.asked, took |-> trip.age + 1] ELSE NoEnd]

Init ==
  /\ dev = PowerOn
  /\ burst = NoBurst /\ thrown = FALSE /\ trip = NoTrip

Access(next) ==
  /\ Room
  /\ dev' = next
  /\ Begins => dev.ticks < MaxTicks
  /\ CountTrip

\* One call of one word, while no block is under way.
Read32(r) ==
  /\ burst = NoBurst /\ Access(Read(dev))
  /\ thrown' = FALSE /\ UNCHANGED burst

Write32(r, word) ==
  /\ burst = NoBurst /\ Access(Write(dev, r, word))
  /\ thrown' = FALSE /\ UNCHANGED burst

\* An address no register decodes, or a null buffer: nothing is done.
DecodeError ==
  /\ burst = NoBurst
  /\ thrown' = TRUE /\ UNCHANGED <<dev, burst, trip>>

StartBlock(op, r, count) ==
  /\ burst = NoBurst /\ Room
  /\ burst' = [op |-> op, at |-> r, left |-> count]
  /\ thrown' = FALSE /\ UNCHANGED <<dev, trip>>

NextInBlock ==
  burst' = IF burst.left = 1 THEN NoBurst
           ELSE [burst EXCEPT !.at = NextWord[@], !.left = @ - 1]

BlockRead ==
  /\ burst.op = "read" /\ burst.at # Undecoded
  /\ Access(Read(dev)) /\ NextInBlock
  /\ UNCHANGED thrown

BlockWrite(word) ==
  /\ burst.op = "write" /\ burst.at # Undecoded
  /\ Access(Write(dev, burst.at, word)) /\ NextInBlock
  /\ UNCHANGED thrown

\* A slip: time passes before the address is decoded.
BlockErrorTicks ==
  /\ burst # NoBurst /\ burst.at = Undecoded /\ Access(Tick(dev))
  /\ burst' = NoBurst /\ thrown' = TRUE

\* The block runs off the map: it throws, and the words before stay done.
BlockError ==
  /\ burst # NoBurst /\ burst.at = Undecoded
  /\ burst' = NoBurst /\ thrown' = TRUE /\ UNCHANGED <<dev, trip>>

BlockStep ==
  \/ BlockRead
  \/ burst.at # Undecoded /\ \E word \in Inputs[burst.at] : BlockWrite(word)
  \/ BlockError

Reset ==
  /\ burst = NoBurst
  /\ dev' = ResetDevice(dev)
  /\ trip' = NoTrip /\ thrown' = FALSE /\ UNCHANGED burst

SetTransferLatency(l) ==
  /\ burst = NoBurst
  /\ dev' = [dev EXCEPT !.latency = l]
  /\ thrown' = FALSE /\ UNCHANGED <<burst, trip>>

Next ==
  \/ \E r \in Registers : Read32(r)
  \/ \E r \in Registers : \E word \in Inputs[r] : Write32(r, word)
  \/ \E op \in {"read", "write"}, r \in Registers, n \in 1..MaxBlock : StartBlock(op, r, n)
  \/ BlockStep
  \/ DecodeError
  \/ Reset
  \/ \E l \in Latencies : SetTransferLatency(l)

Spec == Init /\ [][Next]_vars

------------------------------------------------------------------------------
(* Properties *)

ReservedClear(d) ==
  /\ d.storage["STATUS"] \subseteq {IDLE, BUSY, DONE} \cup 8..23
  /\ d.storage["LINK_STATUS"] \subseteq 0..15

Burst == [op : {"read", "write"}, at : Registers \cup {Undecoded}, left : Nat \ {0}]
End == [asked : Nat, took : Nat]

\* Everything stays in its type: registers hold 32-bit words, and the bits
\* regmaps/soc.yaml reserves in the two read-only registers are never set.
DeviceTypeOK ==
  /\ dev \in Device /\ ReservedClear(dev)
  /\ burst \in Burst \cup {NoBurst}
  /\ thrown \in BOOLEAN
  /\ trip \in [asked : Nat, age : Nat, ended : End]

Coherent(d) ==
  /\ BUSY \in d.storage["STATUS"] <=> d.running
  /\ IDLE \in d.storage["STATUS"] <=> ~ d.running
  /\ DONE \in d.storage["STATUS"] => ~ d.running

\* STATUS always tells what the engine does: BUSY while a transfer runs, IDLE
\* otherwise, and never DONE together with BUSY, whatever software writes.
StatusCoherent == Coherent(dev)

AtLeastOne(n) == IF n = 0 THEN 1 ELSE n

\* A transfer takes as many accesses as the latency in force when it was
\* started, at least one: neither later calls of set_transfer_latency nor GO
\* written again move its end.
LatencyHonoured ==
  /\ dev.running => trip.age < AtLeastOne(trip.asked)
  /\ trip.ended.took > 0 => trip.ended.took = AtLeastOne(trip.ended.asked)

\* "How many ticks a DMA transfer takes before DONE appears": never fewer.
NeverEarly == trip.ended.took > 0 => trip.ended.took >= trip.ended.asked

\* The interrupt is up, or this access completes a transfer, and yet it is down.
LosesInterrupt ==
  /\ DONE_IRQ \in dev.storage["IRQ_STATUS"] \/ (dev'.ticks # dev.ticks /\ Ends)
  /\ DONE_IRQ \notin dev'.storage["IRQ_STATUS"]
ClearsInterrupt ==
  \E word \in Inputs["IRQ_STATUS"] : DONE_IRQ \in word /\ dev' = Write(dev, "IRQ_STATUS", word)

\* A completion always raises its interrupt, and the interrupt goes away only
\* when software writes a 1 to it, or resets the device: no other access, to
\* whatever register, loses it.
InterruptsSurvive ==
  [][LosesInterrupt => ClearsInterrupt \/ dev' = ResetDevice(dev)]_vars

EngineOf(d) ==
  IF d.running THEN "busy" ELSE IF DONE \in d.storage["STATUS"] THEN "done" ELSE "idle"
IrqOf(d) == DONE_IRQ \in d.storage["IRQ_STATUS"]

Engine == INSTANCE DmaEngine WITH engine <- EngineOf(dev), irq <- IrqOf(dev)

\* The registers behave as one DmaEngine: DONE and the interrupt are never seen
\* without a transfer that was started, whatever is written where.
ImplementsDma == Engine!Spec

\* A caller that polls sees every transfer end ("a test that polls a status
\* bit makes progress").
PollingCompletes ==
  (dev.running /\ trip.age > 0) ~> (~ dev.running \/ trip.age = 0)
==============================================================================
