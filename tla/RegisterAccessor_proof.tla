------------------------ MODULE RegisterAccessor_proof ------------------------
(***************************************************************************)
(* The accessor on the device, for all words, edits and other callers: no  *)
(* call takes down a latch it does not know of, and a Modify nobody        *)
(* interferes with is an atomic update of its field.                       *)
(***************************************************************************)
EXTENDS RegisterAccessor, EmulatedDevice_proof

(***************************************************************************)
(* The fields of the map                                                   *)
(***************************************************************************)

WellFormed(f) == f.lo \in 0..31 /\ f.hi \in f.lo..31 /\ f.access \in {"RW", "RO", "W1C"}

Apart(f, g) == f = g \/ Mask(f) \cap Mask(g) = {}

FieldsOfKind(r, access) == {f \in FieldsOf(r) : f.access = access}
BitsOfKind(r, access) == UNION {Mask(f) : f \in FieldsOfKind(r, access)}

\* The policy table of the device ("mirrors regmaps/soc.yaml") is that of the
\* map.  The fields of a register are well formed and do not overlap.  The
\* write-1-to-clear mask is exactly the bits of the W1C fields.  A register
\* either has read-only fields and no others, and is then wholly read-only,
\* reserved bits included, or it has none and no bit of it is read-only.
THEOREM PolicyMirrorsMap ==
  ASSUME NEW r \in Registers
  PROVE  /\ \A f \in FieldsOf(r) : WellFormed(f)
         /\ \A f, g \in FieldsOf(r) : Apart(f, g)
         /\ W1cMask[r] = BitsOfKind(r, "W1C")
         /\ \/ FieldsOfKind(r, "RO") = FieldsOf(r) /\ RoMask[r] = Bits
            \/ FieldsOfKind(r, "RO") = {} /\ RoMask[r] = {}
  <1> USE DEF FieldsOf, Fields, Field, FieldsOfKind, BitsOfKind, WellFormed, Apart, Mask,
              W1cMask, RoMask, Bits, Registers, DmaRegisters, PcieRegisters
  <1>1. CASE r = "CTRL"
    BY <1>1
  <1>2. CASE r = "STATUS"
    BY <1>2
  <1>3. CASE r = "IRQ_STATUS"
    BY <1>3
  <1>4. CASE r \in {"SRC_ADDR", "DST_ADDR", "XFER_LEN"}
    BY <1>4
  <1>5. CASE r = "LINK_STATUS"
    BY <1>5
  <1>6. CASE r = "LINK_CTRL"
    BY <1>6
  <1>7. CASE r = "ERR_STATUS"
    BY <1>7
  <1> QED
    BY <1>1, <1>2, <1>3, <1>4, <1>5, <1>6, <1>7

LEMMA PlainField ==
  ASSUME NEW r \in Registers, NEW f \in FieldsOf(r), f.access = "RW"
  PROVE  /\ f.lo \in 0..31 /\ f.hi \in f.lo..31
         /\ Mask(f) \subseteq Bits \ (RoMask[r] \cup W1cMask[r])
  <1>1. WellFormed(f) /\ \A g \in FieldsOf(r) : Apart(f, g)
    BY PolicyMirrorsMap
  <1>2. Mask(f) \subseteq Bits
    BY <1>1 DEF WellFormed, Mask, Bits
  <1>3. Mask(f) \cap W1cMask[r] = {}
    <2>1. \A g \in FieldsOfKind(r, "W1C") : Mask(f) \cap Mask(g) = {}
      BY <1>1 DEF FieldsOfKind, Apart
    <2>2. W1cMask[r] = BitsOfKind(r, "W1C")
      BY PolicyMirrorsMap
    <2> QED
      BY <2>1, <2>2 DEF BitsOfKind
  <1>4. RoMask[r] = {}
    <2>1. f \notin FieldsOfKind(r, "RO")
      BY DEF FieldsOfKind
    <2> QED
      BY <2>1, PolicyMirrorsMap
  <1> QED
    BY <1>1, <1>2, <1>3, <1>4 DEF WellFormed

\* A getter sees nothing but its field.
LEMMA GetterLocal ==
  ASSUME NEW f, NEW v, NEW w, v \cap Mask(f) = w \cap Mask(f)
  PROVE  Getter(v, f) = Getter(w, f)
BY DEF Getter

\* What is set is what is got, cut to the width of the field.
LEMMA SetThenGet ==
  ASSUME NEW f, f.lo \in 0..31, f.hi \in f.lo..31, NEW word, NEW v \in SUBSET Bits
  PROVE  Getter(Setter(word, f, v), f) = v \cap 0..(f.hi - f.lo)
  <1> DEFINE placed == ShiftUp(v, f.lo) \cap Mask(f)
  <1>1. Setter(word, f, v) \cap Mask(f) = placed
    BY DEF Setter
  <1>2. Getter(Setter(word, f, v), f) = {b - f.lo : b \in placed}
    BY <1>1 DEF Getter
  <1>3. ASSUME NEW b \in placed PROVE b - f.lo \in v \cap 0..(f.hi - f.lo)
    <2>1. PICK c \in v : b = c + f.lo
      BY DEF ShiftUp
    <2>2. b \in f.lo..f.hi /\ c \in 0..31
      BY <2>1 DEF Mask, Bits
    <2>3. b - f.lo = c /\ c \in 0..(f.hi - f.lo)
      BY <2>1, <2>2
    <2> QED
      BY <2>1, <2>3
  <1>4. ASSUME NEW c \in v \cap 0..(f.hi - f.lo) PROVE \E b \in placed : c = b - f.lo
    <2>1. c + f.lo \in f.lo..f.hi /\ c + f.lo \in 0..31 /\ (c + f.lo) - f.lo = c
      OBVIOUS
    <2>2. c + f.lo \in placed
      BY <2>1 DEF ShiftUp, Mask, Bits
    <2> QED
      BY <2>1, <2>2
  <1> QED
    BY <1>2, <1>3, <1>4

(***************************************************************************)
(* What a write does to a register                                         *)
(***************************************************************************)

LEMMA TrainElsewhere ==
  ASSUME NEW d, d \in Device, NEW r \in Registers \ {"LINK_STATUS"}, NEW q, NEW word
  PROVE  TrainLink(d, q, word).storage[r] = d.storage[r]
BY DEF TrainLink, Device

LEMMA StartElsewhere ==
  ASSUME NEW d, d \in Device, NEW r \in Registers \ {"STATUS"}, NEW q, NEW word
  PROVE  StartTransfer(d, q, word).storage[r] = d.storage[r]
BY DEF StartTransfer, Device

\* What a write leaves in the register it writes is what Store puts there once
\* time has passed: the side effects are on other registers.
LEMMA WriteStores ==
  ASSUME NEW d, Sound(d), NEW r \in Registers, NEW word \in SUBSET Bits
  PROVE  LET before == Tick(d).storage[r]
             kept == before \ (word \cap W1cMask[r])
             writable == Bits \ (RoMask[r] \cup W1cMask[r])
         IN  /\ before \subseteq Bits
             /\ Write(d, r, word).storage[r] = (kept \ writable) \cup (word \cap writable)
  <1> DEFINE ticked == Tick(d)
             stored == Store(ticked, r, word)
             started == StartTransfer(stored, r, word)
             kept == ticked.storage[r] \ (word \cap W1cMask[r])
             writable == Bits \ (RoMask[r] \cup W1cMask[r])
  <1>1. Sound(ticked)
    BY TickSound
  <1>2. ticked \in Device /\ ticked.storage[r] \subseteq Bits
    BY <1>1 DEF Sound, Device
  <1> HIDE DEF ticked
  <1>3. stored.storage[r] = (kept \ writable) \cup (word \cap writable)
    BY <1>2 DEF Store, Device
  <1>4. Sound(stored)
    BY <1>1, StoreSound
  <1> HIDE DEF stored
  <1>5. started.storage[r] = stored.storage[r] /\ Sound(started)
    <2>1. r = "STATUS" => started = stored
      BY DEF StartTransfer
    <2>2. r # "STATUS" => started.storage[r] = stored.storage[r]
      BY <1>4, StartElsewhere DEF Sound
    <2> QED
      BY <1>4, <2>1, <2>2, StartSound
  <1> HIDE DEF started
  <1>6. TrainLink(started, r, word).storage[r] = started.storage[r]
    <2>1. r = "LINK_STATUS" => TrainLink(started, r, word) = started
      BY DEF TrainLink
    <2>2. r # "LINK_STATUS" => TrainLink(started, r, word).storage[r] = started.storage[r]
      BY <1>5, TrainElsewhere DEF Sound
    <2> QED
      BY <2>1, <2>2
  <1>7. Write(d, r, word) = TrainLink(started, r, word)
    BY DEF Write, ticked, stored, started
  <1> QED
    BY <1>2, <1>3, <1>5, <1>6, <1>7 DEF ticked

\* A write does to every field what the map says of it: a read/write field
\* takes its bits of the word, a read-only field keeps what it had when the
\* access took effect, and of a write-1-to-clear field the bits written as 1 go
\* down and the others stay.
THEOREM FieldsObeyTheirKind ==
  ASSUME NEW d, Sound(d), NEW r \in Registers, NEW f \in FieldsOf(r),
         NEW word \in SUBSET Bits
  PROVE  LET before == Tick(d).storage[r] \cap Mask(f)
             after == Write(d, r, word).storage[r] \cap Mask(f)
         IN  /\ f.access = "RW" => after = word \cap Mask(f)
             /\ f.access = "RO" => after = before
             /\ f.access = "W1C" => after = before \ word
  <1> DEFINE old == Tick(d).storage[r]
             kept == old \ (word \cap W1cMask[r])
             writable == Bits \ (RoMask[r] \cup W1cMask[r])
             new == Write(d, r, word).storage[r]
  <1>1. old \subseteq Bits /\ new = (kept \ writable) \cup (word \cap writable)
    BY WriteStores
  <1>2. Mask(f) \subseteq Bits
    BY PolicyMirrorsMap DEF WellFormed, Mask, Bits
  <1> HIDE DEF old, new
  <1>3. ASSUME f.access = "RW" PROVE new \cap Mask(f) = word \cap Mask(f)
    <2>1. Mask(f) \subseteq writable
      BY <1>3, PlainField
    <2> QED
      BY <1>1, <2>1
  <1>4. ASSUME f.access = "RO" PROVE new \cap Mask(f) = old \cap Mask(f)
    <2>1. f \in FieldsOfKind(r, "RO")
      BY <1>4 DEF FieldsOfKind
    <2>2. RoMask[r] = Bits /\ FieldsOfKind(r, "RO") = FieldsOf(r)
      BY <2>1, PolicyMirrorsMap
    <2>3. FieldsOfKind(r, "W1C") = {}
      BY <2>2 DEF FieldsOfKind
    <2>4. W1cMask[r] = {}
      BY <2>3, PolicyMirrorsMap DEF BitsOfKind
    <2> QED
      BY <1>1, <2>2, <2>4
  <1>5. ASSUME f.access = "W1C" PROVE new \cap Mask(f) = (old \cap Mask(f)) \ word
    <2>1. f \in FieldsOfKind(r, "W1C")
      BY <1>5 DEF FieldsOfKind
    <2>2. Mask(f) \subseteq W1cMask[r]
      BY <2>1, PolicyMirrorsMap DEF BitsOfKind
    <2> QED
      BY <1>1, <1>2, <2>2
  <1> QED
    BY <1>3, <1>4, <1>5 DEF old, new

\* What a write leaves in a writable register: of the latches those the word
\* does not name, of the other bits the word's.
LEMMA WriteEffect ==
  ASSUME NEW d, Sound(d), NEW r \in WritableRegisters, NEW word \in SUBSET Bits
  PROVE  Write(d, r, word).storage[r] = (Latches(Tick(d), r) \ word) \cup (word \ W1cMask[r])
  <1>1. r \in Registers /\ RoMask[r] = {}
    BY DEF WritableRegisters
  <1> DEFINE before == Tick(d).storage[r]
             writable == Bits \ W1cMask[r]
  <1>2. /\ before \subseteq Bits
        /\ Write(d, r, word).storage[r] =
             ((before \ (word \cap W1cMask[r])) \ writable) \cup (word \cap writable)
    BY <1>1, WriteStores
  <1> HIDE DEF before
  <1>3. W1cMask[r] \subseteq Bits
    BY <1>1 DEF W1cMask, Bits
  <1> QED
    BY <1>2, <1>3 DEF Latches, before

------------------------------------------------------------------------------
(* The inductive invariant *)

\* A Modify under way: its word is that of the device while nobody else calls.
ModifyTyped ==
  modify # NoModify =>
    /\ modify.reg \in WritableRegisters /\ modify.edit \in Edits[modify.reg]
    /\ modify.seen \subseteq Bits
    /\ alone => modify.seen = dev.storage[modify.reg]

AInv == IInv /\ ModifyTyped /\ ClearsOnlyKnown /\ FieldUpdateWhenAlone

LEMMA AccessorInitInv == AccessorInit => AInv
BY InitSound DEF AccessorInit, AInv, ModifyTyped, ClearsOnlyKnown, FieldUpdateWhenAlone, Ended

LEMMA EditedField ==
  ASSUME NEW r \in WritableRegisters, NEW e \in Edits[r]
  PROVE  /\ r \in Registers /\ e.value \subseteq Bits
         /\ Fields[r][e.field] \in FieldsOf(r)
         /\ Meant(r, e) \subseteq Bits
  <1>1. r \in Registers /\ e.field \in DOMAIN Fields[r] /\ e.value \subseteq Bits
    BY EditsAssumption DEF WritableRegisters
  <1>2. Fields[r][e.field] \in FieldsOf(r)
    BY <1>1 DEF FieldsOf
  <1>3. WellFormed(Fields[r][e.field])
    BY <1>1, <1>2, PolicyMirrorsMap
  <1> QED
    BY <1>1, <1>2, <1>3 DEF WellFormed, Meant, Mask, Bits

\* An edit puts its bits in place of those of its field.
LEMMA MutateEffect ==
  ASSUME NEW r \in WritableRegisters, NEW e \in Edits[r], NEW word \in SUBSET Bits
  PROVE  /\ Asked(r, e) \subseteq Meant(r, e)
         /\ Mutate(r, word, e) = (word \ Meant(r, e)) \cup Asked(r, e)
         /\ Mutate(r, word, e) \in SUBSET Bits
BY EditedField DEF Mutate, Asked, Meant, Setter, ClearField

\* An accessor's own access keeps what EmulatedDevice promises of itself.
LEMMA AccessKeepsDevice ==
  ASSUME IInv, NEW next, Access(next), Sound(next), UNCHANGED burst, thrown' = FALSE
  PROVE  IInv'
  <1>1. dev' = next /\ trip' \in [asked : Nat, age : Nat, ended : End]
    BY CountTripTyped DEF Access, IInv
  <1> QED
    BY <1>1 DEF IInv, DeviceTypeOK, StatusCoherent, Sound

LEMMA WriteBackInv ==
  ASSUME IInv, NEW call, NEW r \in WritableRegisters, NEW e \in Edits[r],
         NEW seen, NEW start \in SUBSET Bits, NEW exclusive,
         WriteBack(call, r, e, seen, Mutate(r, start, e), exclusive),
         start \cap W1cMask[r] \subseteq seen,
         call = "Modify" /\ exclusive => start = dev.storage[r]
  PROVE  AInv'
  <1> DEFINE word == Mutate(r, start, e)
             now == dev'.storage[r]
  <1>1. Sound(dev) /\ r \in Registers
    BY SoundDevice DEF WritableRegisters
  <1>2. /\ word \in SUBSET Bits /\ word = (start \ Meant(r, e)) \cup Asked(r, e)
        /\ Asked(r, e) \subseteq Meant(r, e)
    BY MutateEffect
  <1>3. Sound(Write(dev, r, word))
    BY <1>1, <1>2, WriteSound
  <1>4. IInv'
    BY <1>3, AccessKeepsDevice DEF WriteBack
  <1>5. dev' = Write(dev, r, word)
    BY DEF WriteBack, Access
  <1> HIDE DEF word
  <1>6. now = (Latches(Tick(dev), r) \ word) \cup (word \ W1cMask[r])
    BY <1>1, <1>2, <1>5, WriteEffect
  <1>7. /\ report'.call = call /\ report'.reg = r /\ report'.edit = e /\ report'.seen = seen
        /\ report'.alone = exclusive /\ report'.before = dev.storage[r]
        /\ report'.up = Latches(Tick(dev), r) /\ report'.left = now \cap W1cMask[r]
    BY DEF WriteBack, Latches
  <1>8. ClearsOnlyKnown'
    <2>1. report'.up \subseteq W1cMask[r]
      BY <1>7 DEF Latches
    <2>2. report'.up \ report'.left \subseteq word \cap W1cMask[r]
      BY <1>6, <1>7, <2>1
    <2> QED
      BY <1>2, <1>7, <2>2 DEF ClearsOnlyKnown
  <1>9. FieldUpdateWhenAlone'
    <2> DEFINE f == Fields[r][e.field]
               plain == Bits \ W1cMask[r]
               rest == Bits \ (W1cMask[r] \cup Mask(f))
    <2> SUFFICES ASSUME call = "Modify", exclusive
                 PROVE  /\ f.access = "RW" => Getter(now, f) = e.value \cap 0..(f.hi - f.lo)
                        /\ \A g \in FieldsOf(r) \ {f} :
                             g.access = "RW" => Getter(now, g) = Getter(start, g)
                        /\ now \cap rest = start \cap rest
      BY <1>7 DEF FieldUpdateWhenAlone
    <2>1. now \cap plain = word \cap plain
      BY <1>6 DEF Latches
    <2>2. /\ f \in FieldsOf(r) /\ e.value \subseteq Bits /\ Mask(f) = Meant(r, e)
          /\ \A g \in FieldsOf(r) : WellFormed(g) /\ Apart(f, g)
      BY <1>1, EditedField, PolicyMirrorsMap DEF Meant
    <2>3. now \cap rest = start \cap rest
      BY <1>2, <2>1, <2>2
    <2>4. ASSUME f.access = "RW"
          PROVE  Getter(now, f) = e.value \cap 0..(f.hi - f.lo)
      <3>1. f.lo \in 0..31 /\ f.hi \in f.lo..31 /\ Mask(f) \subseteq plain
        BY <1>1, <2>2, <2>4, PlainField
      <3>2. word = Setter(start, f, e.value)
        BY <2>4 DEF word, Mutate
      <3>3. Getter(now, f) = Getter(word, f)
        BY <2>1, <3>1, GetterLocal
      <3> QED
        BY <2>2, <3>1, <3>2, <3>3, SetThenGet
    <2>5. ASSUME NEW g \in FieldsOf(r) \ {f}, g.access = "RW"
          PROVE  Getter(now, g) = Getter(start, g)
      <3>1. Mask(g) \subseteq Bits \ W1cMask[r] /\ Mask(f) \cap Mask(g) = {}
        BY <1>1, <2>2, <2>5, PlainField DEF Apart
      <3>2. now \cap Mask(g) = start \cap Mask(g)
        BY <2>3, <3>1
      <3> QED
        BY <3>2, GetterLocal
    <2> QED
      BY <2>3, <2>4, <2>5
  <1>10. modify' = NoModify
    BY DEF WriteBack
  <1> QED
    BY <1>4, <1>8, <1>9, <1>10 DEF AInv, ModifyTyped

LEMMA AccessorStepInv == AInv /\ [AccessorNext]_accessorVars => AInv'
  <1> SUFFICES ASSUME AInv, [AccessorNext]_accessorVars PROVE AInv'
    OBVIOUS
  <1>1. IInv /\ ModifyTyped /\ Sound(dev)
    BY SoundDevice DEF AInv
  <1>2. ASSUME NEW r \in WritableRegisters, NEW e \in Edits[r], ModifyReads(r, e)
        PROVE  AInv'
    <2>1. Sound(Read(dev)) /\ dev' = Read(dev)
      BY <1>1, <1>2, ReadSound DEF ModifyReads, Access
    <2>2. IInv'
      BY <1>1, <1>2, <2>1, AccessKeepsDevice DEF ModifyReads
    <2>3. r \in Registers /\ dev'.storage[r] \subseteq Bits
      BY <2>1 DEF WritableRegisters, Sound, Device
    <2>4. ModifyTyped'
      BY <1>2, <2>3 DEF ModifyReads, ModifyTyped
    <2>5. ~ Ended'
      BY <1>2 DEF ModifyReads, Ended
    <2> QED
      BY <2>2, <2>4, <2>5 DEF AInv, ClearsOnlyKnown, FieldUpdateWhenAlone
  <1>3. ASSUME NEW r \in WritableRegisters, NEW e \in Edits[r], WriteOnly(r, e)
        PROVE  AInv'
    <2>1. ResetWord[r] \in SUBSET Bits /\ ResetWord[r] \cap W1cMask[r] = {}
      BY DEF ResetWord, W1cMask, Bits, WritableRegisters
    <2> QED
      BY <1>1, <1>3, <2>1, WriteBackInv DEF WriteOnly
  <1>4. ASSUME ModifyWrites
        PROVE  AInv'
    BY <1>1, <1>4, WriteBackInv DEF ModifyWrites, ModifyTyped
  <1>5. ASSUME Others
        PROVE  AInv'
    <2>1. IInv' /\ ~ Ended' /\ ~ alone' /\ modify' = modify
      BY <1>1, <1>5, StepSound DEF Others, Ended
    <2> QED
      BY <1>1, <2>1 DEF AInv, ModifyTyped, ClearsOnlyKnown, FieldUpdateWhenAlone
  <1>6. ASSUME UNCHANGED accessorVars
        PROVE  AInv'
    <2>1. IInv'
      BY <1>1, <1>6, StepSound DEF accessorVars
    <2> QED
      BY <1>6, <2>1 DEF accessorVars, vars, AInv, ModifyTyped, ClearsOnlyKnown,
                        FieldUpdateWhenAlone, Ended
  <1> QED
    BY <1>2, <1>3, <1>4, <1>5, <1>6 DEF AccessorNext

LEMMA AccessorInvariance == AccessorSpec => []AInv
BY AccessorInitInv, AccessorStepInv, PTL DEF AccessorSpec

\* No accessor call takes down a latch that it neither names nor has read.
THEOREM NoUnknownLatchCleared == AccessorSpec => []ClearsOnlyKnown
  <1>1. AInv => ClearsOnlyKnown
    BY DEF AInv
  <1> QED
    BY AccessorInvariance, <1>1, PTL

\* A Modify nobody interfered with changes its field and nothing else.
THEOREM LoneModifyIsAtomic == AccessorSpec => []FieldUpdateWhenAlone
  <1>1. AInv => FieldUpdateWhenAlone
    BY DEF AInv
  <1> QED
    BY AccessorInvariance, <1>1, PTL
==============================================================================
