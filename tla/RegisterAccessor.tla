--------------------------- MODULE RegisterAccessor ---------------------------
(***************************************************************************)
(* RegisterAccessor<Reg> (src/include/soc/register.hpp) on the emulated    *)
(* device: Modify, a read and a write with everybody else free to access   *)
(* the device in between, and WriteOnly, a single write.  The calls of the *)
(* others are those of EmulatedDevice; the accessor's own Read and Write   *)
(* are Read32 and Write32 of the register's address.                       *)
(*                                                                         *)
(* What the caller's `mutate` does is one call of a generated set_X or     *)
(* clear_X; the value given to a set_X may be wider than its field.        *)
(***************************************************************************)
EXTENDS EmulatedDevice, RegFields

CONSTANT
  Edits  \* Edits[r]: the edits of register r, [field: its name, value: a word]

\* The static_assert in Write: no accessor writes a read-only register.
WritableRegisters == {r \in Registers : RoMask[r] = {}}

ASSUME EditsAssumption ==
  /\ DOMAIN Edits = WritableRegisters
  /\ \A r \in WritableRegisters : \A e \in Edits[r] :
       e.field \in DOMAIN Fields[r] /\ e.value \subseteq Bits

VARIABLES
  modify,  \* the Modify between its read and its write: its register, edit and word read
  alone,   \* nobody else called the device since that read (history)
  report   \* what the last step, if it ended an accessor call, did (history)

accessorVars == <<vars, modify, alone, report>>

NoModify == [reg |-> Undecoded]
NoReport == [call |-> "none"]

\* The write-1-to-clear bits of r that are up in device d.
Latches(d, r) == d.storage[r] \cap W1cMask[r]

Mutate(r, word, e) ==
  LET f == Fields[r][e.field]
  IN  IF f.access = "W1C" THEN ClearField(word, f) ELSE Setter(word, f, e.value)

AccessorInit == Init /\ modify = NoModify /\ alone = FALSE /\ report = NoReport

\* A call that saw the word `seen` writes `word` to r for edit e.
WriteBack(call, r, e, seen, word, exclusive) ==
  /\ burst = NoBurst
  /\ Access(Write(dev, r, word))
  /\ report' = [call |-> call, reg |-> r, edit |-> e, seen |-> seen,
                alone |-> exclusive, before |-> dev.storage[r],
                up |-> Latches(Tick(dev), r), left |-> Latches(dev', r)]
  /\ modify' = NoModify /\ alone' = FALSE
  /\ thrown' = FALSE /\ UNCHANGED burst

ModifyReads(r, e) ==
  /\ modify = NoModify /\ burst = NoBurst
  /\ Access(Read(dev))
  /\ modify' = [reg |-> r, edit |-> e, seen |-> dev'.storage[r]]
  /\ alone' = TRUE /\ report' = NoReport
  /\ thrown' = FALSE /\ UNCHANGED burst

ModifyWrites ==
  /\ modify # NoModify
  /\ WriteBack("Modify", modify.reg, modify.edit, modify.seen,
               Mutate(modify.reg, modify.seen, modify.edit), alone)

\* A slip: WriteOnly starts from the word the device holds.
WriteOnlyFromDevice(r, e) ==
  /\ modify = NoModify
  /\ WriteBack("WriteOnly", r, e, {}, Mutate(r, dev.storage[r], e), TRUE)

\* Starts from kReset: nothing of the device's word is written back.
WriteOnly(r, e) ==
  /\ modify = NoModify
  /\ WriteBack("WriteOnly", r, e, {}, Mutate(r, ResetWord[r], e), TRUE)

\* Anybody else, between the two accesses of a Modify or outside of it.
Others ==
  /\ Next
  /\ alone' = FALSE /\ report' = NoReport /\ UNCHANGED modify

AccessorNext ==
  \/ \E r \in WritableRegisters : \E e \in Edits[r] : ModifyReads(r, e)
  \/ \E r \in WritableRegisters : \E e \in Edits[r] : WriteOnly(r, e)
  \/ ModifyWrites
  \/ Others

AccessorSpec == AccessorInit /\ [][AccessorNext]_accessorVars

------------------------------------------------------------------------------
(* Properties *)

Ended == report # NoReport

\* The bits an edit of r means to change, and those of them it makes 1.
Meant(r, e) == Mask(Fields[r][e.field])
Asked(r, e) == Mutate(r, {}, e)

\* An accessor call takes no latch down but those its edit names and, for a
\* Modify, those it had read as up: a bit that latches between the read and
\* the write of a Modify, or in the very access of a WriteOnly, survives.
ClearsOnlyKnown ==
  Ended => report.up \ report.left \subseteq report.seen \cup Asked(report.reg, report.edit)

\* A Modify nobody interfered with is an atomic update of its field: the field
\* reads as the value that was set, cut to its width, every other field reads
\* as before, and so do bits of no field.  (Of the latches ClearsOnlyKnown tells.)
FieldUpdateWhenAlone ==
  Ended /\ report.call = "Modify" /\ report.alone =>
    LET now == dev.storage[report.reg]
        f == Fields[report.reg][report.edit.field]
    IN  /\ f.access = "RW" => Getter(now, f) = report.edit.value \cap 0..(f.hi - f.lo)
        /\ \A g \in FieldsOf(report.reg) \ {f} :
             g.access = "RW" => Getter(now, g) = Getter(report.before, g)
        /\ LET rest == Bits \ (W1cMask[report.reg] \cup Mask(f))
           IN  now \cap rest = report.before \cap rest

\* "a status bit set by the device between the read and the write of a
\* read-modify-write is written straight back and lost"
LateBitsAreLost ==
  Ended /\ report.call = "Modify" => (report.up \ report.seen) \cap report.left = {}
==============================================================================
