------------------------------ MODULE RegFields ------------------------------
(***************************************************************************)
(* The generated register types (src/tools/generate_registers.py): the     *)
(* fields of regmaps/soc.yaml with the getter, setter and clear_X that     *)
(* emit_field gives them.  As in SocModel a word is the set of its 1 bits. *)
(***************************************************************************)
EXTENDS Integers, SocModel

\* parse_bits: the bits `hi:lo` of a field.
Field(hi, lo, access) == [hi |-> hi, lo |-> lo, access |-> access]

Fields ==
  [CTRL |-> [GO |-> Field(0, 0, "RW"), ABORT |-> Field(1, 1, "RW"),
             IRQ_EN |-> Field(2, 2, "RW"), BURST_LEN |-> Field(11, 4, "RW"),
             CHANNEL |-> Field(15, 12, "RW"), MODE |-> Field(17, 16, "RW")],
   STATUS |-> [IDLE |-> Field(0, 0, "RO"), BUSY |-> Field(1, 1, "RO"),
               DONE |-> Field(2, 2, "RO"), BEATS |-> Field(23, 8, "RO")],
   IRQ_STATUS |-> [DONE_IRQ |-> Field(0, 0, "W1C"), ERR_IRQ |-> Field(1, 1, "W1C"),
                   OVERFLOW |-> Field(2, 2, "W1C")],
   SRC_ADDR |-> [ADDR |-> Field(31, 0, "RW")],
   DST_ADDR |-> [ADDR |-> Field(31, 0, "RW")],
   XFER_LEN |-> [BYTES |-> Field(23, 0, "RW")],
   LINK_STATUS |-> [LINK_UP |-> Field(0, 0, "RO"), SPEED |-> Field(3, 1, "RO"),
                    WIDTH |-> Field(9, 4, "RO"), LTSSM |-> Field(15, 10, "RO")],
   LINK_CTRL |-> [RETRAIN |-> Field(0, 0, "RW"), TARGET_SPEED |-> Field(3, 1, "RW")],
   ERR_STATUS |-> [CORRECTABLE |-> Field(0, 0, "W1C"), FATAL |-> Field(1, 1, "W1C"),
                   REPLAY_TIMEOUT |-> Field(2, 2, "W1C")]]

FieldsOf(r) == {Fields[r][n] : n \in DOMAIN Fields[r]}

\* mask(hi, lo)
Mask(f) == f.lo..f.hi

\* v << n in 32 bits
ShiftUp(v, n) == {b + n : b \in v} \cap Bits

\* (raw & mask) >> lo
Getter(word, f) == {b - f.lo : b \in word \cap Mask(f)}

\* A slip: the value is not cut to the field.
SetterUncut(word, f, v) == (word \ Mask(f)) \cup ShiftUp(v, f.lo)

\* A slip: the old value of the field stays.
SetterOr(word, f, v) == word \cup (ShiftUp(v, f.lo) \cap Mask(f))

\* (raw & ~mask) | ((v << lo) & mask)
Setter(word, f, v) == (word \ Mask(f)) \cup (ShiftUp(v, f.lo) \cap Mask(f))

\* raw |= mask
ClearField(word, f) == word \cup Mask(f)
==============================================================================
