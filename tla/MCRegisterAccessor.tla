-------------------------- MODULE MCRegisterAccessor --------------------------
(***************************************************************************)
(* One caller of accessors and anybody else: the others start transfers,   *)
(* clear the interrupt, and write the fields the accessor does not name.   *)
(***************************************************************************)
EXTENDS RegisterAccessor

MCInputs ==
  [r \in Registers |->
     CASE r = "CTRL"       -> {{}, {GO, 12}}
       [] r = "IRQ_STATUS" -> {{3, DONE_IRQ}}
       [] OTHER            -> {{}}]

\* set_GO(1); set_BURST_LEN(0x14), and set_BURST_LEN(0x103), which is wider than
\* its field; set_ADDR(0x80000001); clear_DONE_IRQ and clear_ERR_IRQ.
MCEdits ==
  [r \in WritableRegisters |->
     CASE r = "CTRL"       -> {[field |-> "GO", value |-> {0}],
                               [field |-> "BURST_LEN", value |-> {2, 4}],
                               [field |-> "BURST_LEN", value |-> {0, 1, 8}]}
       [] r = "SRC_ADDR"   -> {[field |-> "ADDR", value |-> {0, 31}]}
       [] r = "IRQ_STATUS" -> {[field |-> "DONE_IRQ", value |-> {}],
                               [field |-> "ERR_IRQ", value |-> {}]}
       [] OTHER            -> {}]
==============================================================================
