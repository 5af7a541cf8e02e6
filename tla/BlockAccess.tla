------------------------------ MODULE BlockAccess ------------------------------
(***************************************************************************)
(* What ReadBlock and WriteBlock of the emulated device                    *)
(* (src/src/emulated_device.cpp) leave behind, also when they throw part   *)
(* way.  The calls are those of EmulatedDevice; a history variable keeps   *)
(* the devices the last block went through.                                *)
(***************************************************************************)
EXTENDS EmulatedDevice, Sequences

VARIABLE
  block  \* the last block call and the devices before it and after each word (history)

blockVars == <<vars, block>>

NoBlock == [op |-> "none"]

\* The addresses of policy_: kDmaBase is 0 here and kPcieBase 64, two ranges
\* that do not touch, like 0x40000000 and 0x50000000.
Address ==
  [CTRL |-> 0, STATUS |-> 4, IRQ_STATUS |-> 8, SRC_ADDR |-> 12, DST_ADDR |-> 16,
   XFER_LEN |-> 20, LINK_STATUS |-> 64, LINK_CTRL |-> 68, ERR_STATUS |-> 72]

BlockInit == Init /\ block = NoBlock

\* A block is called.
CallBlock(op, r, n) ==
  /\ StartBlock(op, r, n)
  /\ block' = [op |-> op, first |-> r, count |-> n, devices |-> <<dev>>]

\* One more of its words.
BlockWord ==
  /\ BlockStep /\ burst.at # Undecoded
  /\ block' = [block EXCEPT !.devices = Append(@, dev')]

\* It throws.
BlockThrows == BlockError /\ UNCHANGED block

\* Any other call.
OtherCall ==
  /\ burst = NoBurst /\ burst' = NoBurst /\ Next
  /\ block' = NoBlock

BlockNext ==
  \/ \E op \in {"read", "write"}, r \in Registers, n \in 1..MaxBlock : CallBlock(op, r, n)
  \/ BlockWord
  \/ BlockThrows
  \/ OtherCall

BlockSpec == BlockInit /\ [][BlockNext]_blockVars

(* The caller goes on polling, and a block that was begun runs to its end. *)
FairBlockSpec == BlockSpec /\ WF_vars(Read32("STATUS") \/ BlockStep)

------------------------------------------------------------------------------
(* Properties *)

\* The words the block has done, and the address of the i-th word from 0 on.
WordsDone == Len(block.devices) - 1
WordAddress(i) == Address[block.first] + 4 * i
Decoded(a) == \E r \in Registers : Address[r] = a

\* Device e is d after the access of r that such a block makes.
OneWord(op, d, r, e) ==
  IF op = "read" THEN e = Read(d) ELSE \E word \in Inputs[r] : e = Write(d, r, word)

\* A block is its words: single accesses, one tick each, at ascending addresses,
\* and nothing else.  If it returns, all of them were done.  If it throws, those
\* up to the end of the register map were: none is undone, none is left out
\* because a later one has no register, and the one that has none counts nothing.
BlockIsItsWords ==
  block # NoBlock =>
    /\ block.devices[WordsDone + 1] = dev
    /\ \A i \in 1..WordsDone :
         \E r \in Registers : /\ Address[r] = WordAddress(i - 1)
                              /\ OneWord(block.op, block.devices[i], r, block.devices[i + 1])
    /\ burst = NoBurst =>
         IF thrown THEN WordsDone < block.count /\ ~ Decoded(WordAddress(WordsDone))
                   ELSE WordsDone = block.count
==============================================================================
