------------------------- MODULE EmulatedDevice_proof -------------------------
(***************************************************************************)
(* DeviceTypeOK, StatusCoherent and the refinement of DmaEngine hold of    *)
(* EmulatedDevice for every set of words software may write, every         *)
(* latency and every bound; LatencyHonoured as long as the clock does not  *)
(* wrap in a transfer; BlockIsItsWords of BlockAccess for blocks of any    *)
(* length.                                                                 *)
(*                                                                         *)
(* The lemmas go along the calls: each function a call is composed of      *)
(* keeps a device in its type and coherent, and moves the abstract engine  *)
(* by one part of DmaEngine's Access.  A call then does so by composition. *)
(***************************************************************************)
EXTENDS BlockAccess, TLAPS

Sound(d) == d \in Device /\ ReservedClear(d) /\ Coherent(d)

LEMMA BeatsInField ==
  ASSUME NEW len
  PROVE  BeatsField(len) \subseteq 8..23
BY DEF BeatsField

LEMMA CompleteSound ==
  ASSUME NEW d, Sound(d)
  PROVE  /\ Sound(Complete(d))
         /\ EngineOf(Complete(d)) = "done" /\ IrqOf(Complete(d)) = TRUE
  <1> DEFINE c == Complete(d)
             status == {IDLE, DONE} \cup BeatsField(d.storage["XFER_LEN"])
             irq == d.storage["IRQ_STATUS"] \cup {DONE_IRQ}
  <1>1. d \in Device /\ ReservedClear(d)
    BY DEF Sound
  <1>2. status \subseteq {IDLE, BUSY, DONE} \cup 8..23 /\ status \subseteq Bits
    BY BeatsInField DEF IDLE, BUSY, DONE, Bits
  <1>3. irq \subseteq Bits
    BY <1>1 DEF Device, Registers, DmaRegisters, DONE_IRQ, Bits
  <1>4. /\ c.storage = [[d.storage EXCEPT !["STATUS"] = status] EXCEPT !["IRQ_STATUS"] = irq]
        /\ c.running = FALSE /\ c.ticks = d.ticks /\ c.doneAt = d.doneAt
        /\ c.latency = d.latency
        /\ c \in Device
    BY <1>1, <1>2, <1>3 DEF Complete, Device, Registers, DmaRegisters
  <1>5. /\ c.storage["STATUS"] = status /\ c.storage["IRQ_STATUS"] = irq
        /\ c.storage["LINK_STATUS"] = d.storage["LINK_STATUS"]
    BY <1>1, <1>4 DEF Device, Registers, DmaRegisters, PcieRegisters
  <1>6. ReservedClear(c)
    BY <1>1, <1>2, <1>5 DEF ReservedClear
  <1>7. BUSY \notin status /\ IDLE \in status /\ DONE \in status
    BY BeatsInField DEF IDLE, BUSY, DONE
  <1>8. Coherent(c)
    BY <1>4, <1>5, <1>7 DEF Coherent
  <1> QED
    BY <1>4, <1>5, <1>6, <1>7, <1>8 DEF Sound, EngineOf, IrqOf

\* What the passing of time may do to the abstract engine.
Elapsed(d, e) ==
  \/ EngineOf(e) = EngineOf(d) /\ IrqOf(e) = IrqOf(d)
  \/ EngineOf(d) = "busy" /\ EngineOf(e) = "done" /\ IrqOf(e) = TRUE

LEMMA TickSound ==
  ASSUME NEW d, Sound(d)
  PROVE  Sound(Tick(d)) /\ Elapsed(d, Tick(d))
  <1> DEFINE later == [d EXCEPT !.ticks = (@ + 1) % TickMod]
  <1>1. d \in Device
    BY DEF Sound
  <1>2. (d.ticks + 1) % TickMod \in 0..(TickMod - 1)
    BY <1>1, TimeAssumption, TickAssumption DEF Device
  <1>3. /\ later \in Device /\ later.storage = d.storage /\ later.running = d.running
    BY <1>1, <1>2 DEF Device
  <1>4. Sound(later) /\ EngineOf(later) = EngineOf(d) /\ IrqOf(later) = IrqOf(d)
    BY <1>3 DEF Sound, ReservedClear, Coherent, EngineOf, IrqOf
  <1>5. CASE d.running /\ later.ticks >= d.doneAt
    <2>1. Tick(d) = Complete(later)
      BY <1>5 DEF Tick
    <2>2. EngineOf(d) = "busy"
      BY <1>5 DEF EngineOf
    <2> HIDE DEF later
    <2> QED
      BY <1>4, <2>1, <2>2, CompleteSound DEF Elapsed
  <1>6. CASE ~ (d.running /\ later.ticks >= d.doneAt)
    <2>1. Tick(d) = later
      BY <1>6 DEF Tick
    <2> HIDE DEF later
    <2> QED
      BY <1>4, <2>1 DEF Elapsed
  <1> QED
    BY <1>5, <1>6

\* The read-only registers, and which bits of IRQ_STATUS a write can clear.
LEMMA StoreSound ==
  ASSUME NEW d, Sound(d), NEW r \in Registers, NEW word \in SUBSET Bits
  PROVE  /\ Sound(Store(d, r, word))
         /\ EngineOf(Store(d, r, word)) = EngineOf(d)
         /\ IrqOf(Store(d, r, word)) => IrqOf(d)
         /\ IrqOf(d) /\ ~ IrqOf(Store(d, r, word)) => r = "IRQ_STATUS" /\ DONE_IRQ \in word
  <1> DEFINE kept == d.storage[r] \ (word \cap W1cMask[r])
             writable == Bits \ (RoMask[r] \cup W1cMask[r])
             stored == (kept \ writable) \cup (word \cap writable)
             s == Store(d, r, word)
  <1>1. d \in Device
    BY DEF Sound
  <1>2. stored \in SUBSET Bits
    BY <1>1 DEF Device
  <1>3. /\ s \in Device /\ s.running = d.running
        /\ s.storage = [d.storage EXCEPT ![r] = stored]
    BY <1>1, <1>2 DEF Device, Store
  <1>4. s.storage[r] = stored /\ \A q \in Registers \ {r} : s.storage[q] = d.storage[q]
    BY <1>1, <1>3 DEF Device
  <1>5. r \in {"STATUS", "LINK_STATUS"} => stored = d.storage[r]
    <2>1. d.storage[r] \subseteq Bits
      BY <1>1 DEF Device
    <2>2. r \in {"STATUS", "LINK_STATUS"} => RoMask[r] = Bits /\ W1cMask[r] = {}
      BY DEF RoMask, W1cMask
    <2> QED
      BY <2>1, <2>2
  <1>6. r = "IRQ_STATUS" =>
          (DONE_IRQ \in stored <=> DONE_IRQ \in d.storage[r] /\ DONE_IRQ \notin word)
    <2>1. r = "IRQ_STATUS" => DONE_IRQ \in W1cMask[r]
      BY DEF W1cMask, DONE_IRQ
    <2> QED
      BY <2>1
  <1>7. {"STATUS", "LINK_STATUS", "IRQ_STATUS"} \subseteq Registers
    BY DEF Registers, DmaRegisters, PcieRegisters
  <1> HIDE DEF stored, s
  <1>8. /\ s.storage["STATUS"] = d.storage["STATUS"]
        /\ s.storage["LINK_STATUS"] = d.storage["LINK_STATUS"]
    BY <1>4, <1>5, <1>7
  <1>9. Sound(s) /\ EngineOf(s) = EngineOf(d)
    BY <1>3, <1>8 DEF Sound, ReservedClear, Coherent, EngineOf
  <1>10. /\ IrqOf(s) => IrqOf(d)
         /\ IrqOf(d) /\ ~ IrqOf(s) => r = "IRQ_STATUS" /\ DONE_IRQ \in word
    BY <1>4, <1>6, <1>7 DEF IrqOf
  <1> QED
    BY <1>9, <1>10 DEF s

LEMMA StartSound ==
  ASSUME NEW d, Sound(d), NEW r, NEW word
  PROVE  /\ Sound(StartTransfer(d, r, word))
         /\ IrqOf(StartTransfer(d, r, word)) = IrqOf(d)
         /\ \/ EngineOf(StartTransfer(d, r, word)) = EngineOf(d)
            \/ EngineOf(d) # "busy" /\ r = "CTRL"
               /\ EngineOf(StartTransfer(d, r, word)) = "busy"
  <1>1. d \in Device /\ ReservedClear(d)
    BY DEF Sound
  <1>2. CASE r = "CTRL" /\ GO \in word /\ ~ d.running
    <2> DEFINE s == [d EXCEPT !.running = TRUE, !.doneAt = (d.ticks + d.latency) % TickMod,
                              !.storage["STATUS"] = {BUSY}]
    <2>1. StartTransfer(d, r, word) = s
      BY <1>2 DEF StartTransfer
    <2>2. (d.ticks + d.latency) % TickMod \in 0..(TickMod - 1)
      BY <1>1, TimeAssumption, TickAssumption DEF Device
    <2>3. {BUSY} \subseteq Bits /\ {BUSY} \subseteq {IDLE, BUSY, DONE} \cup 8..23
      BY DEF Bits, BUSY
    <2>4. /\ s \in Device /\ s.running = TRUE
          /\ s.storage = [d.storage EXCEPT !["STATUS"] = {BUSY}]
      BY <1>1, <2>2, <2>3 DEF Device
    <2>5. /\ s.storage["STATUS"] = {BUSY}
          /\ s.storage["LINK_STATUS"] = d.storage["LINK_STATUS"]
          /\ s.storage["IRQ_STATUS"] = d.storage["IRQ_STATUS"]
      BY <1>1, <2>4 DEF Device, Registers, DmaRegisters, PcieRegisters
    <2> HIDE DEF s
    <2>6. ReservedClear(s)
      BY <1>1, <2>3, <2>5 DEF ReservedClear
    <2>7. Coherent(s)
      BY <2>4, <2>5 DEF Coherent, IDLE, BUSY, DONE
    <2>8. Sound(s) /\ EngineOf(s) = "busy" /\ IrqOf(s) = IrqOf(d) /\ EngineOf(d) # "busy"
      BY <1>2, <2>4, <2>5, <2>6, <2>7 DEF Sound, EngineOf, IrqOf
    <2> QED
      BY <1>2, <2>1, <2>8
  <1>3. CASE ~ (r = "CTRL" /\ GO \in word /\ ~ d.running)
    BY <1>3 DEF StartTransfer
  <1> QED
    BY <1>2, <1>3

LEMMA TrainSound ==
  ASSUME NEW d, Sound(d), NEW r, NEW word
  PROVE  /\ Sound(TrainLink(d, r, word))
         /\ EngineOf(TrainLink(d, r, word)) = EngineOf(d)
         /\ IrqOf(TrainLink(d, r, word)) = IrqOf(d)
  <1> DEFINE trained == {0} \cup (word \cap 1..3) \cup {8, 14}
             s == [d EXCEPT !.storage["LINK_STATUS"] = trained]
  <1>1. d \in Device /\ ReservedClear(d)
    BY DEF Sound
  <1>2. trained \subseteq 0..15 /\ trained \subseteq Bits
    BY DEF Bits
  <1>3. /\ s \in Device /\ s.running = d.running
        /\ s.storage = [d.storage EXCEPT !["LINK_STATUS"] = trained]
    BY <1>1, <1>2 DEF Device
  <1>4. /\ s.storage["STATUS"] = d.storage["STATUS"]
        /\ s.storage["LINK_STATUS"] = trained
        /\ s.storage["IRQ_STATUS"] = d.storage["IRQ_STATUS"]
    BY <1>1, <1>3 DEF Device, Registers, DmaRegisters, PcieRegisters
  <1>5. TrainLink(d, r, word) \in {d, s}
    BY DEF TrainLink
  <1> HIDE DEF s, trained
  <1>6. Sound(s) /\ EngineOf(s) = EngineOf(d) /\ IrqOf(s) = IrqOf(d)
    BY <1>1, <1>2, <1>3, <1>4 DEF Sound, ReservedClear, Coherent, EngineOf, IrqOf
  <1> QED
    BY <1>5, <1>6

LEMMA ReadSound ==
  ASSUME NEW d, Sound(d)
  PROVE  Sound(Read(d)) /\ Elapsed(d, Read(d))
BY TickSound DEF Read

\* What a write makes of the abstract engine after time has passed in it.
LEMMA WriteSound ==
  ASSUME NEW d, Sound(d), NEW r \in Registers, NEW word \in SUBSET Bits
  PROVE  /\ Sound(Write(d, r, word))
         /\ \E e : /\ Elapsed(d, e)
                   /\ \/ EngineOf(Write(d, r, word)) = EngineOf(e)
                         /\ (IrqOf(Write(d, r, word)) => IrqOf(e))
                      \/ EngineOf(e) # "busy" /\ EngineOf(Write(d, r, word)) = "busy"
                         /\ IrqOf(Write(d, r, word)) = IrqOf(e)
         /\ IrqOf(Tick(d)) /\ ~ IrqOf(Write(d, r, word)) => r = "IRQ_STATUS" /\ DONE_IRQ \in word
  <1> DEFINE ticked == Tick(d)
             stored == Store(ticked, r, word)
             started == StartTransfer(stored, r, word)
             written == TrainLink(started, r, word)
  <1>1. Sound(ticked) /\ Elapsed(d, ticked)
    BY TickSound
  <1> HIDE DEF ticked
  <1>2. /\ Sound(stored) /\ EngineOf(stored) = EngineOf(ticked)
        /\ IrqOf(stored) => IrqOf(ticked)
        /\ IrqOf(ticked) /\ ~ IrqOf(stored) => r = "IRQ_STATUS" /\ DONE_IRQ \in word
    BY <1>1, StoreSound
  <1> HIDE DEF stored
  <1>3. /\ Sound(started) /\ IrqOf(started) = IrqOf(stored)
        /\ \/ EngineOf(started) = EngineOf(stored)
           \/ EngineOf(stored) # "busy" /\ r = "CTRL" /\ EngineOf(started) = "busy"
    BY <1>2, StartSound
  <1> HIDE DEF started
  <1>4. /\ Sound(written) /\ EngineOf(written) = EngineOf(started)
        /\ IrqOf(written) = IrqOf(started)
    BY <1>3, TrainSound
  <1>5. written = Write(d, r, word)
    BY DEF Write, started, stored, ticked
  <1> HIDE DEF written
  <1>6. ticked = Tick(d)
    BY DEF ticked
  <1>7. \A s : IrqOf(s) \in BOOLEAN
    BY DEF IrqOf
  <1>8. \/ EngineOf(written) = EngineOf(ticked) /\ (IrqOf(written) => IrqOf(ticked))
        \/ EngineOf(ticked) # "busy" /\ EngineOf(written) = "busy"
           /\ IrqOf(written) = IrqOf(ticked)
    BY <1>2, <1>3, <1>4, <1>7
  <1>9. IrqOf(ticked) /\ ~ IrqOf(written) => r = "IRQ_STATUS" /\ DONE_IRQ \in word
    BY <1>2, <1>3, <1>4
  <1> QED
    BY <1>1, <1>4, <1>5, <1>6, <1>8, <1>9

LEMMA ResetSound ==
  ASSUME NEW d, Sound(d)
  PROVE  /\ Sound(ResetDevice(d))
         /\ EngineOf(ResetDevice(d)) = "idle" /\ IrqOf(ResetDevice(d)) = FALSE
  <1>1. ResetWord \in [Registers -> SUBSET Bits]
    BY DEF ResetWord, Bits
  <1>2. /\ ResetWord["STATUS"] = {0} /\ ResetWord["LINK_STATUS"] = {}
        /\ ResetWord["IRQ_STATUS"] = {}
    BY DEF ResetWord, Registers, DmaRegisters, PcieRegisters
  <1>3. /\ ResetDevice(d) \in Device /\ ResetDevice(d).storage = ResetWord
        /\ ResetDevice(d).running = FALSE
    <2>1. d \in Device /\ 0 \in 0..(TickMod - 1)
      BY TimeAssumption, TickAssumption DEF Sound
    <2> QED
      BY <1>1, <2>1 DEF Device, ResetDevice
  <1> QED
    BY <1>2, <1>3 DEF Sound, ReservedClear, Coherent, EngineOf, IrqOf, IDLE, BUSY, DONE, DONE_IRQ

------------------------------------------------------------------------------
(* The calls *)

\* The inductive invariant; on the device it is Sound(dev).
IInv == DeviceTypeOK /\ StatusCoherent

LEMMA SoundDevice == IInv <=> Sound(dev) /\ DeviceTypeOK
BY DEF IInv, DeviceTypeOK, StatusCoherent, Sound

\* Every step leaves the device alone, resets it, gives it a latency, or is
\* one access to it.
DeviceStep ==
  \/ dev' = dev
  \/ dev' = ResetDevice(dev)
  \/ \E l \in Latencies : dev' = [dev EXCEPT !.latency = l]
  \/ dev' = Read(dev)
  \/ \E r \in Registers : \E word \in Inputs[r] : dev' = Write(dev, r, word)

LEMMA StepsOfDevice ==
  ASSUME DeviceTypeOK, [Next]_vars
  PROVE  DeviceStep
  <1>1. burst.at # Undecoded /\ burst # NoBurst => burst.at \in Registers
    BY DEF DeviceTypeOK, Burst
  <1>2. BlockStep => DeviceStep
    <2>1. ASSUME NEW word \in Inputs[burst.at], BlockWrite(word)
          PROVE  DeviceStep
      <3>1. burst # NoBurst /\ burst.at # Undecoded /\ dev' = Write(dev, burst.at, word)
        BY <2>1 DEF BlockWrite, NoBurst, Access
      <3> QED
        BY <1>1, <3>1 DEF DeviceStep
    <2> QED
      BY <2>1 DEF BlockStep, BlockRead, BlockError, Access, DeviceStep
  <1> QED
    BY <1>2 DEF Next, vars, Read32, Write32, Access, StartBlock, DecodeError, Reset,
                SetTransferLatency, DeviceStep

LEMMA DeviceStaysSound ==
  ASSUME Sound(dev), DeviceStep
  PROVE  Sound(dev')
  <1>1. ASSUME NEW l \in Latencies, dev' = [dev EXCEPT !.latency = l]
        PROVE  Sound(dev')
    <2>1. l \in Nat
      BY TimeAssumption, TickAssumption
    <2> QED
      BY <1>1, <2>1 DEF Sound, Device, ReservedClear, Coherent
  <1>2. ASSUME NEW r \in Registers, NEW word \in Inputs[r], dev' = Write(dev, r, word)
        PROVE  Sound(dev')
    <2>1. word \in SUBSET Bits
      BY InputsAssumption
    <2> QED
      BY <1>2, <2>1, WriteSound
  <1> QED
    BY <1>1, <1>2, ReadSound, ResetSound DEF DeviceStep

LEMMA InitSound == Init => IInv
  <1> SUFFICES ASSUME Init PROVE IInv
    OBVIOUS
  <1>1. ResetWord \in [Registers -> SUBSET Bits]
    BY DEF ResetWord, Bits
  <1>2. ResetWord["STATUS"] = {0} /\ ResetWord["LINK_STATUS"] = {}
    BY DEF ResetWord, Registers, DmaRegisters, PcieRegisters
  <1>3. 0 \in 0..(TickMod - 1) /\ 8 \in Nat
    BY TimeAssumption, TickAssumption
  <1>4. dev \in Device /\ dev.storage = ResetWord /\ dev.running = FALSE
    BY <1>1, <1>3 DEF Init, PowerOn, Device
  <1>5. Sound(dev)
    BY <1>2, <1>4 DEF Sound, ReservedClear, Coherent, IDLE, BUSY, DONE
  <1>6. burst \in Burst \cup {NoBurst} /\ thrown \in BOOLEAN
    BY DEF Init, PowerOn
  <1>7. trip \in [asked : Nat, age : Nat, ended : End]
    BY DEF Init, NoTrip, NoEnd, End
  <1> QED
    BY <1>5, <1>6, <1>7 DEF IInv, DeviceTypeOK, StatusCoherent, Sound

LEMMA CountTripTyped ==
  ASSUME DeviceTypeOK, CountTrip
  PROVE  trip' \in [asked : Nat, age : Nat, ended : End]
  <1>1. trip.asked \in Nat /\ trip.age + 1 \in Nat /\ dev.latency \in Nat
    BY DEF DeviceTypeOK, Device
  <1>2. NoEnd \in End /\ [asked |-> trip.asked, took |-> trip.age + 1] \in End
    BY <1>1 DEF NoEnd, End
  <1> QED
    BY <1>1, <1>2 DEF CountTrip

LEMMA TripTyped ==
  ASSUME DeviceTypeOK, [Next]_vars
  PROVE  trip' \in [asked : Nat, age : Nat, ended : End]
  <1>1. trip \in [asked : Nat, age : Nat, ended : End]
    BY DEF DeviceTypeOK
  <1>2. NoTrip \in [asked : Nat, age : Nat, ended : End]
    BY DEF NoTrip, NoEnd, End
  <1> QED
    BY <1>1, <1>2, CountTripTyped DEF Next, vars, Read32, Write32, Access, StartBlock,
        DecodeError, BlockStep, BlockRead, BlockWrite, BlockError, Reset, SetTransferLatency

LEMMA BurstTyped ==
  ASSUME DeviceTypeOK, [Next]_vars
  PROVE  burst' \in Burst \cup {NoBurst} /\ thrown' \in BOOLEAN
  <1>1. burst \in Burst \cup {NoBurst} /\ thrown \in BOOLEAN
    BY DEF DeviceTypeOK
  <1>2. ASSUME burst # NoBurst, burst.at # Undecoded, NextInBlock
        PROVE  burst' \in Burst \cup {NoBurst}
    <2>1. burst \in Burst /\ burst.at \in Registers /\ burst.left \in Nat \ {0}
      BY <1>1, <1>2 DEF Burst
    <2>2. NextWord[burst.at] \in Registers \cup {Undecoded}
      BY <2>1 DEF NextWord, Registers, DmaRegisters, PcieRegisters
    <2>3. burst.left # 1 => burst.left - 1 \in Nat \ {0}
      BY <2>1
    <2> QED
      BY <1>2, <2>1, <2>2, <2>3 DEF NextInBlock, Burst
  <1>3. ASSUME BlockStep
        PROVE  burst' \in Burst \cup {NoBurst} /\ thrown' \in BOOLEAN
    <2>1. burst.op \in {"read", "write"} => burst # NoBurst
      BY DEF NoBurst
    <2> QED
      BY <1>1, <1>2, <1>3, <2>1 DEF BlockStep, BlockRead, BlockWrite, BlockError
  <1>4. ASSUME NEW op \in {"read", "write"}, NEW r \in Registers, NEW n \in 1..MaxBlock,
               StartBlock(op, r, n)
        PROVE  burst' \in Burst
    BY <1>4 DEF StartBlock, Burst
  <1> QED
    BY <1>1, <1>3, <1>4 DEF Next, vars, Read32, Write32, StartBlock, DecodeError, Reset,
                            SetTransferLatency

LEMMA StepSound == IInv /\ [Next]_vars => IInv'
  <1> SUFFICES ASSUME IInv, [Next]_vars PROVE IInv'
    OBVIOUS
  <1>1. Sound(dev')
    BY SoundDevice, StepsOfDevice, DeviceStaysSound
  <1> QED
    BY <1>1, SoundDevice, TripTyped, BurstTyped DEF IInv, DeviceTypeOK, StatusCoherent, Sound

LEMMA Invariance == Spec => []IInv
BY InitSound, StepSound, PTL DEF Spec

\* Registers hold 32-bit words and reserved read-only bits are never set
\* (Read32, Write32 and Reset of emulated_device.cpp).
THEOREM DeviceTypeCorrect == Spec => []DeviceTypeOK
  <1>1. IInv => DeviceTypeOK
    BY DEF IInv
  <1> QED
    BY Invariance, <1>1, PTL

\* No sequence of calls makes STATUS disagree with dma_running_.
THEOREM StatusAlwaysCoherent == Spec => []StatusCoherent
  <1>1. IInv => StatusCoherent
    BY DEF IInv
  <1> QED
    BY Invariance, <1>1, PTL

\* A completion raises its interrupt, and no access but a written 1 loses it.
THEOREM InterruptsAreKept == Spec => InterruptsSurvive
  <1>1. IInv /\ [Next]_vars =>
          [LosesInterrupt => ClearsInterrupt \/ dev' = ResetDevice(dev)]_vars
    <2> SUFFICES ASSUME IInv, [Next]_vars, LosesInterrupt, dev' # ResetDevice(dev)
                 PROVE  ClearsInterrupt
      OBVIOUS
    <2>1. /\ Sound(dev) /\ ~ IrqOf(dev')
          /\ IrqOf(dev) \/ (dev'.ticks # dev.ticks /\ Ends)
      BY SoundDevice DEF LosesInterrupt, IrqOf
    <2>2. ~ \E l \in Latencies : dev' = [dev EXCEPT !.latency = l]
      BY <2>1 DEF IrqOf, Sound, Device
    <2>3. IrqOf(Tick(dev))
      <3>1. Elapsed(dev, Tick(dev))
        BY <2>1, TickSound
      <3>2. CASE IrqOf(dev)
        BY <3>1, <3>2 DEF Elapsed
      <3>3. CASE Ends
        <4>1. EngineOf(dev) = "busy" /\ EngineOf(Tick(dev)) # "busy"
          BY <3>3 DEF Ends, EngineOf
        <4> QED
          BY <3>1, <4>1 DEF Elapsed
      <3> QED
        BY <2>1, <3>2, <3>3
    <2>4. dev' # Read(dev) /\ dev' # dev
      BY <2>1, <2>3 DEF Read, IrqOf
    <2>5. \E r \in Registers : \E word \in Inputs[r] : dev' = Write(dev, r, word)
      BY <2>2, <2>4, SoundDevice, StepsOfDevice DEF DeviceStep
    <2>6. PICK r \in Registers : \E word \in Inputs[r] : dev' = Write(dev, r, word)
      BY <2>5
    <2>7. PICK word \in Inputs[r] : dev' = Write(dev, r, word)
      BY <2>6
    <2>8. word \in SUBSET Bits
      BY InputsAssumption
    <2>9. r = "IRQ_STATUS" /\ DONE_IRQ \in word
      BY <2>1, <2>3, <2>7, <2>8, WriteSound
    <2> QED
      BY <2>7, <2>9 DEF ClearsInterrupt
  <1> QED
    BY Invariance, <1>1, PTL DEF Spec, InterruptsSurvive

------------------------------------------------------------------------------
(* The device implements DmaEngine *)

LEMMA AccessRefines ==
  ASSUME Sound(dev), NEW e, Elapsed(dev, e), Sound(dev'),
         \/ EngineOf(dev') = EngineOf(e) /\ (IrqOf(dev') => IrqOf(e))
         \/ EngineOf(e) # "busy" /\ EngineOf(dev') = "busy" /\ IrqOf(dev') = IrqOf(e)
  PROVE  Engine!Access
  <1>1. EngineOf(e) \in {"idle", "busy", "done"} /\ IrqOf(e) \in BOOLEAN
    BY DEF EngineOf, IrqOf
  <1>2. IrqOf(dev') \in BOOLEAN
    BY DEF IrqOf
  <1>3. Engine!Elapse(EngineOf(e), IrqOf(e))
    BY DEF Elapsed, Engine!Elapse
  <1> QED
    BY <1>1, <1>2, <1>3 DEF Engine!Access

\* The calls of the device amount to DmaEngine: DONE and its interrupt come
\* only from a transfer that was started.
THEOREM DeviceImplementsDma == Spec => ImplementsDma
  <1>1. Init => Engine!Init
    BY DEF Init, PowerOn, Engine!Init, EngineOf, IrqOf, ResetWord, Registers, DmaRegisters,
           PcieRegisters, DONE, DONE_IRQ
  <1>2. IInv /\ [Next]_vars => [Engine!Next]_(Engine!engineVars)
    <2> SUFFICES ASSUME IInv, [Next]_vars PROVE [Engine!Next]_(Engine!engineVars)
      OBVIOUS
    <2>1. Sound(dev) /\ Sound(dev') /\ DeviceStep
      BY SoundDevice, StepsOfDevice, DeviceStaysSound
    <2>2. CASE dev' = dev
      BY <2>2 DEF Engine!engineVars
    <2>3. CASE dev' = ResetDevice(dev)
      BY <2>1, <2>3, ResetSound DEF Engine!Next, Engine!Reset
    <2>4. CASE \E l \in Latencies : dev' = [dev EXCEPT !.latency = l]
      <3>1. EngineOf(dev') = EngineOf(dev) /\ IrqOf(dev') = IrqOf(dev)
        BY <2>1, <2>4 DEF Sound, Device, EngineOf, IrqOf
      <3> QED
        BY <3>1 DEF Engine!engineVars
    <2>5. CASE dev' = Read(dev)
      BY <2>1, <2>5, ReadSound, AccessRefines DEF Engine!Next
    <2>6. ASSUME NEW r \in Registers, NEW word \in Inputs[r], dev' = Write(dev, r, word)
          PROVE  Engine!Access
      <3>1. word \in SUBSET Bits
        BY InputsAssumption
      <3> DEFINE w == Write(dev, r, word)
      <3>2. PICK e : /\ Elapsed(dev, e)
                     /\ \/ EngineOf(w) = EngineOf(e) /\ (IrqOf(w) => IrqOf(e))
                        \/ EngineOf(e) # "busy" /\ EngineOf(w) = "busy" /\ IrqOf(w) = IrqOf(e)
        BY <2>1, <3>1, WriteSound
      <3>3. EngineOf(dev') = EngineOf(w) /\ IrqOf(dev') = IrqOf(w)
        BY <2>6 DEF EngineOf, IrqOf
      <3> QED
        BY <2>1, <3>2, <3>3, AccessRefines
    <2> QED
      BY <2>1, <2>2, <2>3, <2>4, <2>5, <2>6 DEF DeviceStep, Engine!Next
  <1> QED
    BY Invariance, <1>1, <1>2, PTL DEF Spec, ImplementsDma, Engine!Spec

------------------------------------------------------------------------------
(* How long a transfer takes *)

\* What time passing does to the clock and the engine.
LEMMA TickClock ==
  ASSUME NEW d \in Device
  PROVE  /\ Tick(d).ticks = (d.ticks + 1) % TickMod
         /\ Tick(d).latency = d.latency /\ Tick(d).doneAt = d.doneAt
         /\ Tick(d).running = (d.running /\ ~ ((d.ticks + 1) % TickMod >= d.doneAt))
  <1> DEFINE later == [d EXCEPT !.ticks = (@ + 1) % TickMod]
  <1>1. /\ later.ticks = (d.ticks + 1) % TickMod /\ later.latency = d.latency
        /\ later.doneAt = d.doneAt /\ later.running = d.running /\ d.running \in BOOLEAN
        /\ DOMAIN later = {"storage", "ticks", "latency", "doneAt", "running"}
    BY DEF Device
  <1>2. Tick(d) = IF later.running /\ later.ticks >= d.doneAt THEN Complete(later) ELSE later
    BY <1>1 DEF Tick
  <1> HIDE DEF later
  <1>3. /\ Complete(later).ticks = later.ticks /\ Complete(later).latency = later.latency
        /\ Complete(later).doneAt = later.doneAt /\ Complete(later).running = FALSE
    BY <1>1 DEF Complete
  <1> QED BY <1>1, <1>2, <1>3

\* A write is one tick, and may start a transfer after it, and only when none runs.
LEMMA WriteClock ==
  ASSUME NEW d, Sound(d), NEW r \in Registers, NEW word \in SUBSET Bits
  PROVE  LET t == Tick(d)  w == Write(d, r, word) IN
         /\ w.ticks = t.ticks /\ w.latency = t.latency
         /\ \/ w.running = t.running /\ w.doneAt = t.doneAt
            \/ ~ t.running /\ w.running /\ w.doneAt = (t.ticks + t.latency) % TickMod
  <1> DEFINE ticked == Tick(d)
             stored == Store(ticked, r, word)
             started == StartTransfer(stored, r, word)
             written == TrainLink(started, r, word)
  <1>1. Sound(ticked) /\ ticked \in Device
    BY TickSound DEF Sound
  <1> HIDE DEF ticked
  <1>2. /\ stored.ticks = ticked.ticks /\ stored.latency = ticked.latency
        /\ stored.doneAt = ticked.doneAt /\ stored.running = ticked.running
    BY <1>1 DEF Store, Device
  <1>3. Sound(stored) /\ stored \in Device
    BY <1>1, StoreSound DEF Sound
  <1> HIDE DEF stored
  <1>4. /\ started.ticks = stored.ticks /\ started.latency = stored.latency
        /\ \/ started.running = stored.running /\ started.doneAt = stored.doneAt
           \/ /\ ~ stored.running /\ started.running
              /\ started.doneAt = (stored.ticks + stored.latency) % TickMod
    BY <1>3 DEF StartTransfer, Device
  <1>5. Sound(started) /\ started \in Device
    BY <1>3, StartSound DEF Sound
  <1> HIDE DEF started
  <1>6. /\ written.ticks = started.ticks /\ written.latency = started.latency
        /\ written.running = started.running /\ written.doneAt = started.doneAt
    BY <1>5 DEF TrainLink, Device
  <1>7. written = Write(d, r, word)
    BY DEF Write, started, stored, ticked
  <1> HIDE DEF written
  <1> QED BY <1>2, <1>4, <1>6, <1>7 DEF ticked

\* The latencies that can be in force: the constructor's 8, or one that was set.
LatenciesInForce == Latencies \cup {8}

\* The running transfer: it was started trip.age accesses ago, no later than
\* the clock may be for a start, and it ends as many ticks after that as the
\* latency then in force.
OnTime ==
  dev.running =>
    /\ trip.asked \in LatenciesInForce /\ trip.age < AtLeastOne(trip.asked)
    /\ trip.age <= dev.ticks /\ dev.ticks - trip.age <= MaxTicks
    /\ dev.doneAt = dev.ticks - trip.age + trip.asked

Timed == dev.latency \in LatenciesInForce /\ OnTime /\ LatencyHonoured

\* No transfer may be started so late that its end wraps the clock.
NoWrap == \A l \in LatenciesInForce : MaxTicks + l < TickMod

LEMMA AccessOnTime ==
  ASSUME IInv, Timed, NoWrap, NEW next, Access(next),
         next.ticks = Tick(dev).ticks, next.latency = Tick(dev).latency,
         \/ next.running = Tick(dev).running /\ next.doneAt = Tick(dev).doneAt
         \/ /\ ~ Tick(dev).running /\ next.running
            /\ next.doneAt = (Tick(dev).ticks + Tick(dev).latency) % TickMod
  PROVE  Timed'
  <1> DEFINE t == Tick(dev)
  <1>1. /\ dev \in Device /\ dev.running \in BOOLEAN /\ dev.ticks \in 0..(TickMod - 1)
        /\ dev.latency \in Nat /\ dev.doneAt \in 0..(TickMod - 1)
        /\ trip.asked \in Nat /\ trip.age \in Nat
    BY DEF IInv, DeviceTypeOK, Device
  <1>2. /\ dev' = next /\ (Begins => dev.ticks < MaxTicks) /\ CountTrip
    BY DEF Access
  <1>3. /\ LatenciesInForce \subseteq Nat /\ MaxTicks \in Nat /\ TickMod \in Nat \ {0}
        /\ MaxTicks + 8 < TickMod
    BY TimeAssumption, TickAssumption DEF LatenciesInForce, NoWrap
  <1>4. /\ t.ticks = (dev.ticks + 1) % TickMod /\ t.latency = dev.latency
        /\ t.doneAt = dev.doneAt
        /\ t.running = (dev.running /\ ~ ((dev.ticks + 1) % TickMod >= dev.doneAt))
    BY <1>1, TickClock
  <1>5. \A n \in 0..(TickMod - 1) : n % TickMod = n
    BY <1>3
  <1>6. /\ Ends <=> dev.running /\ ~ t.running
        /\ Begins <=> dev'.running /\ (~ dev.running \/ Ends)
    BY <1>1, <1>4 DEF Ends, Begins
  <1> HIDE DEF t
  <1>7. dev'.latency \in LatenciesInForce
    BY <1>2, <1>4 DEF Timed, t
  \* The clock does not wrap while a transfer runs or begins.
  <1>8. ASSUME dev.running
        PROVE  t.ticks = dev.ticks + 1 /\ dev.ticks + 1 <= dev.doneAt + 1
    <2>1. /\ trip.asked \in LatenciesInForce /\ trip.age < AtLeastOne(trip.asked)
          /\ trip.age <= dev.ticks /\ dev.ticks - trip.age <= MaxTicks
          /\ dev.doneAt = dev.ticks - trip.age + trip.asked
      BY <1>8 DEF Timed, OnTime
    <2>2. MaxTicks + trip.asked < TickMod
      BY <2>1 DEF NoWrap
    <2>3. dev.ticks + 1 \in 0..(TickMod - 1) /\ dev.ticks + 1 <= dev.doneAt + 1
      BY <1>1, <1>3, <2>1, <2>2 DEF AtLeastOne
    <2> QED BY <1>4, <1>5, <2>3
  <1>9. CASE Ends
    <2>1. trip'.ended = [asked |-> trip.asked, took |-> trip.age + 1]
      BY <1>2, <1>9 DEF CountTrip
    <2>2. dev.running /\ dev.ticks + 1 >= dev.doneAt
      BY <1>1, <1>4, <1>6, <1>8, <1>9
    <2>3. trip.age + 1 = AtLeastOne(trip.asked)
      BY <1>1, <1>3, <2>2 DEF Timed, OnTime, AtLeastOne
    <2> QED
      <3>1. trip'.ended.took = AtLeastOne(trip'.ended.asked)
        BY <2>1, <2>3
      <3>2. CASE ~ dev'.running
        BY <1>7, <3>1, <3>2 DEF Timed, OnTime, LatencyHonoured
      <3>3. CASE dev'.running
        <4>1. Begins /\ dev.ticks < MaxTicks /\ ~ t.running
          BY <1>2, <1>6, <1>9, <3>3
        <4>2. trip'.asked = dev.latency /\ trip'.age = 0
          BY <1>2, <4>1 DEF CountTrip
        <4>3. /\ dev'.ticks = dev.ticks + 1
              /\ dev'.doneAt = (dev.ticks + 1 + dev.latency) % TickMod
          <5>1. /\ next.ticks = t.ticks /\ next.latency = t.latency
                /\ next.doneAt = (t.ticks + t.latency) % TickMod
            BY <1>2, <3>3, <4>1 DEF t
          <5> QED BY <1>2, <1>4, <1>8, <2>2, <5>1
        <4>4. MaxTicks + dev.latency < TickMod
          BY DEF NoWrap, Timed
        <4>5. dev'.doneAt = dev.ticks + 1 + dev.latency
          BY <1>1, <1>3, <1>5, <4>1, <4>3, <4>4
        <4> QED BY <1>1, <1>3, <1>7, <3>1, <4>1, <4>2, <4>3, <4>5
                DEF Timed, OnTime, LatencyHonoured, AtLeastOne
      <3> QED BY <3>2, <3>3
  <1>10. CASE ~ Ends
    <2>1. trip'.ended = NoEnd
      BY <1>2, <1>10 DEF CountTrip
    <2>2. ~ (trip'.ended.took > 0)
      BY <2>1 DEF NoEnd
    <2>3. CASE ~ dev'.running
      BY <1>7, <2>2, <2>3 DEF Timed, OnTime, LatencyHonoured
    <2>4. CASE dev'.running /\ dev.running
      <3>1. t.running /\ ~ Begins
        BY <1>1, <1>6, <1>10, <2>4
      <3>2. trip'.asked = trip.asked /\ trip'.age = trip.age + 1
        BY <1>2, <1>10, <2>4, <3>1 DEF CountTrip
      <3>3. dev'.ticks = dev.ticks + 1 /\ dev'.doneAt = dev.doneAt /\ dev.ticks + 1 < dev.doneAt
        <4>1. next.ticks = t.ticks /\ next.doneAt = t.doneAt
          BY <3>1 DEF t
        <4>2. ~ (t.ticks >= dev.doneAt)
          BY <1>4, <3>1
        <4>3. t.ticks = dev.ticks + 1 /\ t.doneAt = dev.doneAt
          BY <1>4, <1>8, <2>4
        <4> QED BY <1>1, <1>2, <4>1, <4>2, <4>3
      <3> QED BY <1>1, <1>3, <1>7, <2>2, <2>4, <3>2, <3>3
              DEF Timed, OnTime, LatencyHonoured, AtLeastOne
    <2>5. CASE dev'.running /\ ~ dev.running
      <3>1. Begins /\ dev.ticks < MaxTicks /\ ~ t.running
        BY <1>1, <1>2, <1>4, <1>6, <2>5
      <3>2. trip'.asked = dev.latency /\ trip'.age = 0
        BY <1>2, <3>1 DEF CountTrip
      <3>3. dev.ticks + 1 \in 0..(TickMod - 1)
        BY <1>1, <1>3, <3>1
      <3>4. /\ dev'.ticks = dev.ticks + 1
            /\ dev'.doneAt = (dev.ticks + 1 + dev.latency) % TickMod
        BY <1>2, <1>4, <1>5, <2>5, <3>1, <3>3 DEF t
      <3>5. MaxTicks + dev.latency < TickMod
        BY DEF NoWrap, Timed
      <3>6. dev'.doneAt = dev.ticks + 1 + dev.latency
        BY <1>1, <1>3, <1>5, <3>1, <3>4, <3>5
      <3> QED BY <1>1, <1>3, <1>7, <2>2, <3>1, <3>2, <3>4, <3>6
              DEF Timed, OnTime, LatencyHonoured, AtLeastOne
    <2> QED BY <2>3, <2>4, <2>5
  <1> QED BY <1>9, <1>10

LEMMA StepOnTime ==
  ASSUME IInv, Timed, NoWrap, [Next]_vars
  PROVE  Timed'
  <1>0. Sound(dev) /\ dev \in Device
    BY SoundDevice DEF Sound
  <1>1. ASSUME Access(Read(dev)) PROVE Timed'
    BY <1>1, AccessOnTime DEF Read
  <1>2. ASSUME NEW r \in Registers, NEW word \in Inputs[r], Access(Write(dev, r, word))
        PROVE  Timed'
    <2>1. word \in SUBSET Bits
      BY InputsAssumption
    <2> QED BY <1>0, <1>2, <2>1, WriteClock, AccessOnTime
  <1>3. CASE UNCHANGED <<dev, trip>>
    BY <1>3 DEF Timed, OnTime, LatencyHonoured
  <1>4. CASE Reset
    BY <1>0, <1>4 DEF Reset, ResetDevice, NoTrip, NoEnd, Timed, OnTime, LatencyHonoured, Device
  <1>5. ASSUME NEW l \in Latencies, SetTransferLatency(l) PROVE Timed'
    BY <1>0, <1>5 DEF SetTransferLatency, Timed, OnTime, LatencyHonoured, LatenciesInForce, Device
  <1>6. CASE BlockStep
    <2>1. burst.op = "write" /\ burst.at # Undecoded => burst.at \in Registers
      BY DEF IInv, DeviceTypeOK, Burst, NoBurst
    <2> QED BY <1>1, <1>2, <1>3, <1>6, <2>1 DEF BlockStep, BlockRead, BlockWrite, BlockError
  <1> QED
    BY <1>1, <1>2, <1>3, <1>4, <1>5, <1>6
    DEF Next, vars, Read32, Write32, StartBlock, DecodeError

\* A transfer takes as many accesses as the latency in force when it began,
\* whatever is called meanwhile, as long as its end does not wrap the clock.
THEOREM LatencyIsHonoured ==
  ASSUME NoWrap
  PROVE  Spec => []LatencyHonoured
  <1>1. Init => Timed
    BY DEF Init, PowerOn, NoTrip, NoEnd, Timed, OnTime, LatencyHonoured, LatenciesInForce
  <1>2. IInv /\ Timed /\ [Next]_vars => Timed'
    BY StepOnTime
  <1>3. Timed => LatencyHonoured
    BY DEF Timed
  <1> QED BY Invariance, <1>1, <1>2, <1>3, PTL DEF Spec

\* "How many ticks a DMA transfer takes before DONE appears" is what it takes,
\* or more, unless the end of the transfer wraps the clock.
THEOREM NeverEarlyWithoutWrap ==
  ASSUME NoWrap
  PROVE  Spec => []NeverEarly
  <1>1. IInv /\ LatencyHonoured => NeverEarly
    <2> SUFFICES ASSUME IInv, LatencyHonoured PROVE NeverEarly
      OBVIOUS
    <2>1. trip.ended.asked \in Nat
      BY DEF IInv, DeviceTypeOK, End
    <2> QED BY <2>1 DEF LatencyHonoured, NeverEarly, AtLeastOne
  <1> QED BY Invariance, LatencyIsHonoured, <1>1, PTL

------------------------------------------------------------------------------
(* Blocks (module BlockAccess) *)

\* The register at the address 4 further on, if there is one.
LEMMA NextWordIsAt4 ==
  ASSUME NEW r \in Registers
  PROVE  /\ NextWord[r] # Undecoded =>
              NextWord[r] \in Registers /\ Address[NextWord[r]] = Address[r] + 4
         /\ NextWord[r] = Undecoded => ~ Decoded(Address[r] + 4)
         /\ Address[r] \in Nat
  <1> USE DEF NextWord, Address, Decoded, Registers, DmaRegisters, PcieRegisters, Undecoded
  <1>1. CASE r = "CTRL"
    BY <1>1
  <1>2. CASE r = "STATUS"
    BY <1>2
  <1>3. CASE r = "IRQ_STATUS"
    BY <1>3
  <1>4. CASE r = "SRC_ADDR"
    BY <1>4
  <1>5. CASE r = "DST_ADDR"
    BY <1>5
  <1>6. CASE r = "XFER_LEN"
    BY <1>6
  <1>7. CASE r = "LINK_STATUS"
    BY <1>7
  <1>8. CASE r = "LINK_CTRL"
    BY <1>8
  <1>9. CASE r = "ERR_STATUS"
    BY <1>9
  <1> QED
    BY <1>1, <1>2, <1>3, <1>4, <1>5, <1>6, <1>7, <1>8, <1>9

BlockCall ==
  [op : {"read", "write"}, first : Registers, count : Nat \ {0}, devices : Seq(Device)]

\* The words done are accesses at ascending addresses, and the last device is
\* that of the model.
WordByWord ==
  /\ block \in BlockCall /\ Len(block.devices) > 0
  /\ block.devices[WordsDone + 1] = dev
  /\ \A i \in 1..WordsDone :
       \E r \in Registers : /\ Address[r] = WordAddress(i - 1)
                            /\ OneWord(block.op, block.devices[i], r, block.devices[i + 1])

\* A block under way is the one recorded, as far as it has come.
UnderWay ==
  burst # NoBurst =>
    /\ block # NoBlock /\ burst.op = block.op /\ ~ thrown
    /\ burst.left = block.count - WordsDone
    /\ IF burst.at = Undecoded THEN ~ Decoded(WordAddress(WordsDone))
                               ELSE Address[burst.at] = WordAddress(WordsDone)

Blocks == (block # NoBlock => WordByWord) /\ UnderWay /\ BlockIsItsWords

LEMMA BlockStepInNext == BlockNext => Next
  <1>1. ASSUME NEW op \in {"read", "write"}, NEW r \in Registers, NEW n \in 1..MaxBlock,
               CallBlock(op, r, n)
        PROVE  Next
    BY <1>1 DEF CallBlock, Next
  <1>2. BlockWord \/ BlockThrows => BlockStep
    BY DEF BlockWord, BlockThrows, BlockStep
  <1>3. BlockStep \/ OtherCall => Next
    BY DEF Next, OtherCall
  <1> QED
    BY <1>1, <1>2, <1>3 DEF BlockNext

LEMMA BlockNextSound ==
  ASSUME IInv, [BlockNext]_blockVars
  PROVE  IInv' /\ dev' \in Device
  <1>1. [Next]_vars
    BY BlockStepInNext DEF blockVars
  <1>2. IInv'
    BY <1>1, StepSound
  <1> QED
    BY <1>2 DEF IInv, DeviceTypeOK

LEMMA CallBlockInv ==
  ASSUME IInv, NEW op \in {"read", "write"}, NEW r \in Registers, NEW n \in 1..MaxBlock,
         CallBlock(op, r, n)
  PROVE  Blocks'
  <1>1. /\ block' = [op |-> op, first |-> r, count |-> n, devices |-> <<dev>>]
        /\ burst' = [op |-> op, at |-> r, left |-> n] /\ dev' = dev
    BY DEF CallBlock, StartBlock
  <1>2. dev \in Device /\ n \in Nat \ {0} /\ Address[r] \in Nat /\ MaxBlock \in Nat
    BY TimeAssumption, NextWordIsAt4 DEF IInv, DeviceTypeOK
  <1>3. Len(block'.devices) = 1 /\ block'.devices[1] = dev /\ WordsDone' = 0
    BY <1>1 DEF WordsDone
  <1>4. WordByWord'
    <2>1. <<dev>> \in Seq(Device)
      BY <1>2
    <2>2. block' \in BlockCall
      BY <1>1, <1>2, <2>1 DEF BlockCall
    <2> QED
      BY <1>1, <1>3, <2>2 DEF WordByWord
  <1>5. burst'.at # Undecoded /\ burst' # NoBurst /\ block' # NoBlock
    <2>1. burst'.at \in Registers /\ burst'.op # "none" /\ block'.op # "none"
      BY <1>1
    <2>2. NoBurst.op = "none" /\ NoBlock.op = "none"
      BY DEF NoBurst, NoBlock
    <2> QED
      BY <2>1, <2>2 DEF Registers, DmaRegisters, PcieRegisters, Undecoded
  <1>6. UnderWay'
    BY <1>1, <1>2, <1>3, <1>5 DEF UnderWay, WordAddress, CallBlock, StartBlock
  <1>7. BlockIsItsWords'
    BY <1>4, <1>5 DEF BlockIsItsWords, WordByWord
  <1> QED
    BY <1>4, <1>6, <1>7 DEF Blocks

LEMMA BlockWordInv ==
  ASSUME IInv, Blocks, BlockWord, dev' \in Device
  PROVE  Blocks'
  <1> DEFINE n == WordsDone
             q == burst.at
  <1>1. burst # NoBurst /\ q \in Registers /\ burst.left \in Nat \ {0}
    <2>1. burst # NoBurst
      BY DEF BlockWord, BlockStep, BlockRead, BlockWrite, BlockError, NoBurst
    <2> QED
      BY <2>1 DEF IInv, DeviceTypeOK, Burst, BlockWord
  <1>2. /\ block # NoBlock /\ WordByWord /\ burst.op = block.op /\ ~ thrown
        /\ burst.left = block.count - n /\ Address[q] = WordAddress(n)
    BY <1>1 DEF Blocks, UnderWay, BlockWord
  <1>3. /\ NextInBlock /\ OneWord(block.op, dev, q, dev') /\ thrown' = thrown
    <2>1. CASE BlockRead
      BY <1>2, <2>1 DEF BlockRead, Access, OneWord
    <2>2. ASSUME NEW word \in Inputs[q], BlockWrite(word)
          PROVE  NextInBlock /\ OneWord(block.op, dev, q, dev') /\ thrown' = thrown
      BY <1>2, <2>2 DEF BlockWrite, Access, OneWord
    <2> QED
      BY <2>1, <2>2 DEF BlockWord, BlockStep, BlockError
  <1>4. /\ block \in BlockCall /\ Len(block.devices) = n + 1 /\ n \in Nat
        /\ block.devices[n + 1] = dev
    BY <1>2 DEF WordByWord, WordsDone, BlockCall
  <1>5. /\ block' \in BlockCall /\ block'.devices = Append(block.devices, dev')
        /\ block'.op = block.op /\ block'.first = block.first /\ block'.count = block.count
    <2>1. Append(block.devices, dev') \in Seq(Device)
      BY <1>4 DEF BlockCall
    <2> QED
      BY <1>4, <2>1 DEF BlockWord, BlockCall
  <1>6. /\ Len(block'.devices) = n + 2 /\ WordsDone' = n + 1
        /\ block'.devices[n + 2] = dev'
        /\ \A i \in 1..(n + 1) : block'.devices[i] = block.devices[i]
    BY <1>4, <1>5 DEF WordsDone, BlockCall
  <1> HIDE DEF n
  <1>7. ASSUME NEW i \in 1..(n + 1)
        PROVE  \E r \in Registers : /\ Address[r] = WordAddress(i - 1)
                                    /\ OneWord(block.op, block.devices[i], r, block'.devices[i + 1])
    <2>1. CASE i = n + 1
      <3>1. block.devices[i] = dev /\ block'.devices[i + 1] = dev' /\ i - 1 = n
        BY <1>4, <1>6, <2>1
      <3> QED
        BY <1>1, <1>2, <1>3, <3>1
    <2>2. CASE i \in 1..n
      <3>1. i + 1 \in 1..(n + 1)
        BY <1>4, <2>2
      <3> QED
        BY <1>2, <1>6, <2>2, <3>1 DEF WordByWord, n
    <2> QED
      BY <1>4, <2>1, <2>2
  <1>8. WordByWord'
    <2>1. \A i \in 1..WordsDone' :
            \E r \in Registers :
              /\ Address[r] = Address[block'.first] + 4 * (i - 1)
              /\ OneWord(block'.op, block'.devices[i], r, block'.devices[i + 1])
      <3> SUFFICES ASSUME NEW i \in 1..(n + 1)
                   PROVE  \E r \in Registers :
                            /\ Address[r] = Address[block'.first] + 4 * (i - 1)
                            /\ OneWord(block'.op, block'.devices[i], r, block'.devices[i + 1])
        BY <1>6
      <3>1. PICK r \in Registers :
              /\ Address[r] = WordAddress(i - 1)
              /\ OneWord(block.op, block.devices[i], r, block'.devices[i + 1])
        BY <1>7
      <3>2. i - 1 \in Int /\ block'.devices[i] = block.devices[i]
        BY <1>4, <1>6
      <3> QED
        BY <1>5, <3>1, <3>2 DEF WordAddress
    <2>2. block' \in BlockCall /\ Len(block'.devices) > 0 /\ block'.devices[WordsDone' + 1] = dev'
      BY <1>4, <1>5, <1>6
    <2> QED
      BY <2>1, <2>2 DEF WordByWord, WordAddress
  <1>9. /\ burst.left # 1 => burst' = [burst EXCEPT !.at = NextWord[q], !.left = burst.left - 1]
        /\ burst.left = 1 => burst' = NoBurst
    BY <1>3 DEF NextInBlock
  <1>10. burst \in Burst
    BY <1>1 DEF IInv, DeviceTypeOK
  <1>11. UnderWay'
    <2> SUFFICES ASSUME burst' # NoBurst PROVE UnderWay'
      BY DEF UnderWay
    <2>1. /\ burst.left # 1
          /\ burst'.op = burst.op /\ burst'.at = NextWord[q] /\ burst'.left = burst.left - 1
      BY <1>9, <1>10 DEF Burst
    <2>2. WordAddress(n + 1) = Address[q] + 4
      BY <1>2, <1>4, NextWordIsAt4 DEF WordAddress, BlockCall
    <2>3. burst'.left = block'.count - WordsDone'
      BY <1>2, <1>4, <1>5, <1>6, <2>1 DEF BlockCall
    <2>4. WordAddress(WordsDone)' = Address[q] + 4
      BY <1>4, <1>5, <1>6, <2>2 DEF WordAddress
    <2>5. IF burst'.at = Undecoded THEN ~ Decoded(Address[q] + 4)
                                   ELSE Address[burst'.at] = Address[q] + 4
      BY <1>1, <2>1, NextWordIsAt4
    <2>6. block' # NoBlock
      <3>1. block'.op # "none" /\ NoBlock.op = "none"
        BY <1>5 DEF BlockCall, NoBlock
      <3> QED
        BY <3>1
    <2> QED
      BY <1>2, <1>3, <1>5, <2>1, <2>3, <2>4, <2>5, <2>6 DEF UnderWay
  <1>12. BlockIsItsWords'
    <2>1. burst' = NoBurst => burst.left = 1
      <3> SUFFICES ASSUME burst.left # 1, burst' = NoBurst PROVE FALSE
        OBVIOUS
      <3>1. burst'.left = burst.left - 1 /\ burst'.left = 0
        BY <1>9, <1>10 DEF Burst, NoBurst
      <3> QED
        BY <1>1, <3>1
    <2>2. burst' = NoBurst => ~ thrown' /\ WordsDone' = block'.count
      BY <1>2, <1>3, <1>4, <1>5, <1>6, <2>1 DEF BlockCall
    <2> QED
      BY <1>8, <2>2 DEF BlockIsItsWords, WordByWord
  <1> QED
    BY <1>8, <1>11, <1>12 DEF Blocks

LEMMA BlockThrowsInv ==
  ASSUME IInv, Blocks, BlockThrows
  PROVE  Blocks'
  <1>1. /\ burst # NoBurst /\ burst.at = Undecoded /\ burst' = NoBurst /\ thrown' = TRUE
        /\ dev' = dev /\ block' = block
    BY DEF BlockThrows, BlockError
  <1>2. /\ WordByWord /\ ~ Decoded(WordAddress(WordsDone))
        /\ burst.left = block.count - WordsDone /\ burst.left \in Nat \ {0}
    BY <1>1 DEF Blocks, UnderWay, IInv, DeviceTypeOK, Burst
  <1>3. WordsDone < block.count
    BY <1>2 DEF WordByWord, WordsDone, BlockCall
  <1>4. WordByWord'
    BY <1>1, <1>2 DEF WordByWord, WordsDone, WordAddress
  <1>5. (WordsDone < block.count /\ ~ Decoded(WordAddress(WordsDone)))'
    BY <1>1, <1>2, <1>3 DEF WordsDone, WordAddress, Decoded
  <1> QED
    BY <1>1, <1>4, <1>5 DEF Blocks, UnderWay, BlockIsItsWords, WordByWord

LEMMA BlockStepInv ==
  ASSUME IInv, Blocks, [BlockNext]_blockVars
  PROVE  Blocks'
  <1>1. dev' \in Device
    BY BlockNextSound
  <1>2. ASSUME OtherCall PROVE Blocks'
    BY <1>2 DEF OtherCall, Blocks, UnderWay, BlockIsItsWords
  <1>3. ASSUME UNCHANGED blockVars PROVE Blocks'
    BY <1>3 DEF blockVars, vars, Blocks, UnderWay, BlockIsItsWords, WordByWord, WordsDone,
                WordAddress
  <1> QED
    BY <1>1, <1>2, <1>3, CallBlockInv, BlockWordInv, BlockThrowsInv DEF BlockNext

\* ReadBlock and WriteBlock are their words, one access each, up to the end of
\* the map, whether they return or throw.
THEOREM BlocksAreTheirWords == BlockSpec => []BlockIsItsWords
  <1>1. BlockInit => IInv /\ Blocks
    BY InitSound DEF BlockInit, Init, Blocks, UnderWay, BlockIsItsWords
  <1>2. IInv /\ Blocks /\ [BlockNext]_blockVars => (IInv /\ Blocks)'
    BY BlockNextSound, BlockStepInv
  <1>3. Blocks => BlockIsItsWords
    BY DEF Blocks
  <1> QED
    BY <1>1, <1>2, <1>3, PTL DEF BlockSpec
==============================================================================
