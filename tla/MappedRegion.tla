----------------------------- MODULE MappedRegion -----------------------------
(***************************************************************************)
(* MappedRegion (src/include/soc/transport.hpp): objects that own a buffer *)
(* of new[], through construction that may fail half way, moves,           *)
(* assignment to themselves, and destruction, in every order.              *)
(*                                                                         *)
(* A slot is a place where an object may live.  The heap hands out the     *)
(* address of a freed buffer again.  base_ moves along with data_ and is   *)
(* left out; a `new` that throws leaves nothing behind and is no step.     *)
(***************************************************************************)
EXTENDS Naturals

CONSTANTS
  Slots,    \* where objects live
  Buffers,  \* the addresses of the heap
  Sizes     \* the lengths a region is made with

Null == "nullptr"

ASSUME SizesAssumption == Sizes \subseteq Nat /\ Null \notin Buffers

VARIABLES
  heap,     \* the addresses that are allocated
  length,   \* length[b]: the words of the buffer at b when it was last allocated
  region,   \* region[s]: the object in slot s: its life, data_ and words_
  corrupt   \* delete[] was given an address that is not allocated

regionVars == <<heap, length, region, corrupt>>

NoObject == [life |-> "none", data |-> Null, words |-> 0]
Empty == [life |-> "live", data |-> Null, words |-> 0]

Live(s) == region[s].life = "live"

RegionInit ==
  /\ heap = {} /\ length = [b \in Buffers |-> 0]
  /\ region = [s \in Slots |-> NoObject]
  /\ corrupt = FALSE

\* delete[] of a null pointer does nothing.
Delete(data) ==
  /\ heap' = heap \ {data}
  /\ corrupt' = (corrupt \/ data \notin heap \cup {Null})
  /\ UNCHANGED length

DefaultConstruct(s) ==
  /\ region[s] = NoObject
  /\ region' = [region EXCEPT ![s] = Empty]
  /\ UNCHANGED <<heap, length, corrupt>>

\* The constructor up to its try block.
Allocate(s, words) ==
  /\ region[s] = NoObject
  /\ \E b \in Buffers \ heap :
       /\ heap' = heap \cup {b} /\ length' = [length EXCEPT ![b] = words]
       /\ region' = [region EXCEPT ![s] = [life |-> "building", data |-> b, words |-> words]]
  /\ UNCHANGED corrupt

FillReturns(s) ==
  /\ region[s].life = "building"
  /\ region' = [region EXCEPT ![s].life = "live"]
  /\ UNCHANGED <<heap, length, corrupt>>

\* No object comes to be, and the buffer is given back, whatever was thrown.
FillThrows(s) ==
  /\ region[s].life = "building"
  /\ Delete(region[s].data)
  /\ region' = [region EXCEPT ![s] = NoObject]

Destroy(s) ==
  /\ Live(s)
  /\ Delete(region[s].data)
  /\ region' = [region EXCEPT ![s] = NoObject]

\* A slip: the source keeps its length.
MoveConstructKeepsWords(s, from) ==
  /\ region[s] = NoObject /\ Live(from)
  /\ region' = [region EXCEPT ![s] = region[from], ![from].data = Null]
  /\ UNCHANGED <<heap, length, corrupt>>

MoveConstruct(s, from) ==
  /\ region[s] = NoObject /\ Live(from)
  /\ region' = [region EXCEPT ![s] = region[from], ![from] = Empty]
  /\ UNCHANGED <<heap, length, corrupt>>

\* A slip: no test for an assignment to itself.
MoveAssignBlindly(s, from) ==
  /\ Live(s) /\ Live(from)
  /\ Delete(region[s].data)
  /\ region' = [[region EXCEPT ![from] = Empty] EXCEPT ![s] = region[from]]

MoveAssign(s, from) ==
  /\ Live(s) /\ Live(from)
  /\ IF s = from THEN UNCHANGED regionVars
     ELSE /\ Delete(region[s].data)
          /\ region' = [region EXCEPT ![s] = region[from], ![from] = Empty]

\* What a program does with its regions once they are made, or without a bus.
RegionUse ==
  \/ \E s \in Slots : DefaultConstruct(s) \/ Destroy(s)
  \/ \E s, from \in Slots : MoveConstruct(s, from) \/ MoveAssign(s, from)

RegionNext ==
  \/ RegionUse
  \/ \E s \in Slots : FillReturns(s) \/ FillThrows(s) \/ \E n \in Sizes : Allocate(s, n)

RegionSpec == RegionInit /\ [][RegionNext]_regionVars

------------------------------------------------------------------------------
(* Properties *)

Region ==
  [life : {"none", "building", "live"}, data : Buffers \cup {Null}, words : Nat]

\* Everything stays in its type.
RegionTypeOK ==
  /\ heap \subseteq Buffers /\ length \in [Buffers -> Nat]
  /\ region \in [Slots -> Region]
  /\ corrupt \in BOOLEAN

\* Every buffer on the heap has exactly one owner, in every order of throws,
\* moves and destructions: nothing leaks, nothing is freed twice or shared.
OneOwner ==
  /\ ~ corrupt
  /\ \A b \in heap : \E s \in Slots : region[s].data = b
  /\ \A s, u \in Slots :
       region[s].data # Null =>
         region[s].data \in heap /\ (region[u].data = region[s].data => u = s)

\* at(i) with i < words_ reads inside the buffer of its own object, also after
\* the object was moved from.
ReadsInBounds ==
  \A s \in Slots : region[s].words > 0 =>
    region[s].data \in heap /\ region[s].words <= length[region[s].data]
==============================================================================
