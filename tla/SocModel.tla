------------------------------ MODULE SocModel ------------------------------
(***************************************************************************)
(* What an access does to the behavioural model of the SoC                 *)
(* (src/src/emulated_device.cpp): the registers of regmaps/soc.yaml with   *)
(* their read-only and write-1-to-clear bits, a DMA engine that needs some *)
(* ticks for a transfer, and PCIe link training.  Time is one tick per     *)
(* access.                                                                 *)
(*                                                                         *)
(* A 32-bit word is the set of its 1 bits, so | is \cup, & is \cap and     *)
(* & ~ is \; a shift renames bits.                                         *)
(***************************************************************************)
EXTENDS Naturals

CONSTANT TickMod  \* ticks_ and dma_done_at_ are uint64_t: they count modulo TickMod

ASSUME TickAssumption == TickMod \in Nat /\ TickMod > 0

Bits == 0..31

DmaRegisters == {"CTRL", "STATUS", "IRQ_STATUS", "SRC_ADDR", "DST_ADDR", "XFER_LEN"}
PcieRegisters == {"LINK_STATUS", "LINK_CTRL", "ERR_STATUS"}
Registers == DmaRegisters \cup PcieRegisters
Undecoded == "no register"

\* The register at address + 4.
NextWord ==
  [CTRL |-> "STATUS", STATUS |-> "IRQ_STATUS", IRQ_STATUS |-> "SRC_ADDR",
   SRC_ADDR |-> "DST_ADDR", DST_ADDR |-> "XFER_LEN", XFER_LEN |-> Undecoded,
   LINK_STATUS |-> "LINK_CTRL", LINK_CTRL |-> "ERR_STATUS", ERR_STATUS |-> Undecoded]

\* policy_: the reset word, the read-only bits and the write-1-to-clear bits.
ResetWord == [r \in Registers |-> IF r = "STATUS" THEN {0} ELSE {}]
RoMask == [r \in Registers |-> IF r \in {"STATUS", "LINK_STATUS"} THEN Bits ELSE {}]
W1cMask == [r \in Registers |-> IF r \in {"IRQ_STATUS", "ERR_STATUS"} THEN 0..2 ELSE {}]

GO == 0
IDLE == 0
BUSY == 1
DONE == 2
DONE_IRQ == 0
RETRAIN == 0

\* What a device remembers between two calls.
Device ==
  [storage : [Registers -> SUBSET Bits], ticks : 0..(TickMod - 1),
   latency : Nat, doneAt : 0..(TickMod - 1), running : BOOLEAN]

------------------------------------------------------------------------------
(* What a call does to the device d *)

\* The constructor.
PowerOn ==
  [storage |-> ResetWord, ticks |-> 0, latency |-> 8, doneAt |-> 0, running |-> FALSE]

ResetDevice(d) ==
  [d EXCEPT !.storage = ResetWord, !.ticks = 0, !.running = FALSE, !.doneAt = 0]

\* A slip: the beats are not cut to the width of their field.
BeatsUncut(len) == {b + 6 : b \in len \cap 2..23}

\* (XFER_LEN & 0xFFFFFF) / 4, cut to 16 bits and moved to the BEATS field 23:8.
BeatsField(len) == {b + 6 : b \in len \cap 2..17}

Complete(d) ==
  [d EXCEPT !.running = FALSE,
            !.storage["STATUS"] = {IDLE, DONE} \cup BeatsField(d.storage["XFER_LEN"]),
            !.storage["IRQ_STATUS"] = d.storage["IRQ_STATUS"] \cup {DONE_IRQ}]

\* A slip: the interrupt is forgotten.
TickSilently(d) ==
  LET later == [d EXCEPT !.ticks = (@ + 1) % TickMod]
  IN  IF d.running /\ later.ticks >= d.doneAt
      THEN [Complete(later) EXCEPT !.storage["IRQ_STATUS"] = d.storage["IRQ_STATUS"]]
      ELSE later

Tick(d) ==
  LET later == [d EXCEPT !.ticks = (@ + 1) % TickMod]
  IN  IF d.running /\ later.ticks >= d.doneAt THEN Complete(later) ELSE later

\* Slips: the read-only bits are forgotten; a write-1-to-clear register is
\* stored as if it were read/write.
StoreIgnoringRo(d, r, word) ==
  [d EXCEPT !.storage[r] = ((@ \cap W1cMask[r]) \ word) \cup (word \ W1cMask[r])]
StoreW1cAsRw(d, r, word) ==
  [d EXCEPT !.storage[r] = (@ \cap RoMask[r]) \cup (word \ RoMask[r])]

\* W1C bits written as 1 clear, read-only bits stay, the others take the word.
Store(d, r, word) ==
  LET kept == d.storage[r] \ (word \cap W1cMask[r])
      writable == Bits \ (RoMask[r] \cup W1cMask[r])
  IN  [d EXCEPT !.storage[r] = (kept \ writable) \cup (word \cap writable)]

\* Slips: BUSY is or-ed into STATUS; GO starts a transfer even when one runs.
StartOrsBusy(d, r, word) ==
  IF r = "CTRL" /\ GO \in word /\ ~ d.running
  THEN [d EXCEPT !.running = TRUE, !.doneAt = (d.ticks + d.latency) % TickMod,
                 !.storage["STATUS"] = @ \cup {BUSY}]
  ELSE d
StartAnyTime(d, r, word) ==
  IF r = "CTRL" /\ GO \in word
  THEN [d EXCEPT !.running = TRUE, !.doneAt = (d.ticks + d.latency) % TickMod,
                 !.storage["STATUS"] = {BUSY}]
  ELSE d

StartTransfer(d, r, word) ==
  IF r = "CTRL" /\ GO \in word /\ ~ d.running
  THEN [d EXCEPT !.running = TRUE, !.doneAt = (d.ticks + d.latency) % TickMod,
                 !.storage["STATUS"] = {BUSY}]
  ELSE d

\* LINK_UP, SPEED from TARGET_SPEED (the same bits), WIDTH x16, LTSSM L0.
TrainLink(d, r, word) ==
  IF r = "LINK_CTRL" /\ RETRAIN \in word
  THEN [d EXCEPT !.storage["LINK_STATUS"] = {0} \cup (word \cap 1..3) \cup {8, 14}]
  ELSE d

\* A slip: reading does not let time pass.
ReadTimeless(d) == d

Read(d) == Tick(d)

Write(d, r, word) ==
  TrainLink(StartTransfer(Store(Tick(d), r, word), r, word), r, word)
==============================================================================
