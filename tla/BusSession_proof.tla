--------------------------- MODULE BusSession_proof ---------------------------
(***************************************************************************)
(* What is proved of the log and of the regions holds when regions are     *)
(* mapped over logged links, for any links, buffers, lengths and failures. *)
(***************************************************************************)
EXTENDS BusSession, BusLog_proof

------------------------------------------------------------------------------
(* The regions by themselves: for every heap, every number of objects and  *)
(* every length, each buffer has one owner, and no object reaches beyond   *)
(* its buffer.                                                             *)

\* A slot with no object has none of a former object's pointers, and an object
\* under construction has its buffer.
SlotsClean ==
  \A s \in Slots :
    /\ region[s].life = "none" => region[s] = NoObject
    /\ region[s].life = "building" => region[s].data # Null

RegionInv == RegionTypeOK /\ SlotsClean /\ OneOwner /\ ReadsInBounds

LEMMA RegionInitInv == RegionInit => RegionInv
  <1> SUFFICES ASSUME RegionInit PROVE RegionInv
    OBVIOUS
  <1>1. \A s \in Slots : region[s] = NoObject /\ NoObject.data = Null /\ NoObject.words = 0
    BY DEF RegionInit, NoObject
  <1>2. RegionTypeOK
    BY DEF RegionInit, RegionTypeOK, Region, NoObject
  <1>3. SlotsClean /\ OneOwner /\ ReadsInBounds
    BY <1>1 DEF RegionInit, SlotsClean, OneOwner, ReadsInBounds, NoObject
  <1> QED
    BY <1>2, <1>3 DEF RegionInv

\* What the other slots point to is never what slot s owns.
LEMMA Unshared ==
  ASSUME RegionInv, NEW s \in Slots, NEW u \in Slots, u # s, region[u].data # Null
  PROVE  region[u].data # region[s].data /\ region[u].data \in heap
BY DEF RegionInv, OneOwner

LEMMA DefaultConstructInv ==
  ASSUME RegionInv, NEW s \in Slots, DefaultConstruct(s) PROVE RegionInv'
  <1>1. RegionTypeOK'
    BY DEF RegionInv, RegionTypeOK, Region, DefaultConstruct, Empty
  <1>2. \A u \in Slots : region'[u] = IF u = s THEN Empty ELSE region[u]
    BY DEF RegionInv, RegionTypeOK, DefaultConstruct
  <1>3. region[s].data = Null /\ Empty.data = Null /\ Empty.words = 0
    BY DEF DefaultConstruct, NoObject, Empty
  <1> QED
    BY <1>1, <1>2, <1>3
    DEF RegionInv, SlotsClean, OneOwner, ReadsInBounds, DefaultConstruct, Empty

LEMMA AllocateInv ==
  ASSUME RegionInv, NEW s \in Slots, NEW n \in Nat, Allocate(s, n) PROVE RegionInv'
  <1>1. PICK b \in Buffers \ heap :
          /\ heap' = heap \cup {b} /\ length' = [length EXCEPT ![b] = n]
          /\ region' = [region EXCEPT ![s] = [life |-> "building", data |-> b, words |-> n]]
    BY DEF Allocate
  <1>2. RegionTypeOK'
    BY <1>1 DEF RegionInv, RegionTypeOK, Region, Allocate
  <1>3. /\ \A u \in Slots :
             region'[u] = IF u = s THEN [life |-> "building", data |-> b, words |-> n]
                          ELSE region[u]
        /\ \A c \in Buffers : length'[c] = IF c = b THEN n ELSE length[c]
    BY <1>1 DEF RegionInv, RegionTypeOK
  <1>4. b # Null /\ heap \subseteq Buffers /\ region[s].data = Null
    BY SizesAssumption DEF RegionInv, RegionTypeOK, Allocate, NoObject
  <1>5. \A u \in Slots : region[u].data # Null => region[u].data \in heap /\ region[u].data # b
    BY DEF RegionInv, OneOwner
  <1>6. OneOwner'
    <2>1. ~ corrupt' /\ \A u \in Slots : u # s => region'[u] = region[u]
      BY <1>3 DEF RegionInv, OneOwner, Allocate
    <2>2. region'[s].data = b /\ heap' = heap \cup {b}
      BY <1>1, <1>3
    <2>3. \A c \in heap' : \E u \in Slots : region'[u].data = c
      BY <1>4, <2>1, <2>2, SizesAssumption DEF RegionInv, OneOwner, RegionTypeOK
    <2>4. \A u, w \in Slots : region'[u].data # Null =>
            region'[u].data \in heap' /\ (region'[w].data = region'[u].data => w = u)
      BY <1>5, <2>1, <2>2 DEF RegionInv, OneOwner
    <2> QED
      BY <2>1, <2>3, <2>4 DEF OneOwner
  <1>7. ReadsInBounds'
    BY <1>1, <1>3, <1>4, <1>5, SizesAssumption DEF RegionInv, RegionTypeOK, ReadsInBounds
  <1>8. SlotsClean'
    BY <1>3, <1>4 DEF RegionInv, SlotsClean
  <1> QED
    BY <1>2, <1>6, <1>7, <1>8 DEF RegionInv

LEMMA FillReturnsInv ==
  ASSUME RegionInv, NEW s \in Slots, FillReturns(s) PROVE RegionInv'
  <1>1. \A u \in Slots : /\ region'[u].data = region[u].data
                         /\ region'[u].words = region[u].words
                         /\ region'[u].life = IF u = s THEN "live" ELSE region[u].life
                         /\ u # s => region'[u] = region[u]
    BY DEF RegionInv, RegionTypeOK, Region, FillReturns
  <1>2. RegionTypeOK'
    BY DEF RegionInv, RegionTypeOK, Region, FillReturns
  <1> QED
    BY <1>1, <1>2 DEF RegionInv, SlotsClean, OneOwner, ReadsInBounds, FillReturns

\* The object in s goes, and its buffer with it.
LEMMA GoneInv ==
  ASSUME RegionInv, NEW s \in Slots, Delete(region[s].data),
         region' = [region EXCEPT ![s] = NoObject]
  PROVE  RegionInv'
  <1>1. \A u \in Slots : region'[u] = IF u = s THEN NoObject ELSE region[u]
    BY DEF RegionInv, RegionTypeOK
  <1>2. RegionTypeOK'
    BY DEF RegionInv, RegionTypeOK, Region, NoObject, Delete
  <1>3. NoObject.data = Null /\ NoObject.words = 0 /\ NoObject.life = "none"
    BY DEF NoObject
  <1>4. heap' = heap \ {region[s].data} /\ length' = length /\ corrupt' = corrupt
    BY DEF RegionInv, RegionTypeOK, OneOwner, Delete
  <1>5. OneOwner'
    BY <1>1, <1>3, <1>4, Unshared DEF RegionInv, OneOwner
  <1>6. ReadsInBounds'
    BY <1>1, <1>3, <1>4, Unshared, SizesAssumption DEF RegionInv, RegionTypeOK, ReadsInBounds
  <1>7. SlotsClean'
    BY <1>1, <1>3 DEF RegionInv, SlotsClean
  <1> QED
    BY <1>2, <1>5, <1>6, <1>7 DEF RegionInv

LEMMA MoveConstructInv ==
  ASSUME RegionInv, NEW s \in Slots, NEW from \in Slots, MoveConstruct(s, from)
  PROVE  RegionInv'
  <1>1. s # from /\ region[s].data = Null /\ Empty.data = Null /\ Empty.words = 0
    BY DEF MoveConstruct, Live, NoObject, Empty
  <1>2. \A u \in Slots : region'[u] = IF u = from THEN Empty
                                      ELSE IF u = s THEN region[from] ELSE region[u]
    BY DEF RegionInv, RegionTypeOK, MoveConstruct
  <1>3. RegionTypeOK'
    BY DEF RegionInv, RegionTypeOK, Region, MoveConstruct, Empty
  <1>4. /\ region'[from] = Empty /\ region'[s] = region[from] /\ region[from].life = "live"
        /\ \A u \in Slots : u # s /\ u # from => region'[u] = region[u]
        /\ heap' = heap /\ length' = length /\ corrupt' = corrupt
    BY <1>1, <1>2 DEF MoveConstruct, Live
  <1>5. SlotsClean'
    <2> SUFFICES ASSUME NEW u \in Slots
                 PROVE  /\ region'[u].life = "none" => region'[u] = NoObject
                        /\ region'[u].life = "building" => region'[u].data # Null
      BY DEF SlotsClean
    <2> QED
      BY <1>4 DEF RegionInv, SlotsClean, Empty
  <1>6. \A c \in heap' : \E u \in Slots : region'[u].data = c
    <2> SUFFICES ASSUME NEW c \in heap PROVE \E u \in Slots : region'[u].data = c
      BY <1>4
    <2>1. PICK u \in Slots : region[u].data = c
      BY DEF RegionInv, OneOwner
    <2>2. c # Null
      BY SizesAssumption DEF RegionInv, RegionTypeOK
    <2> QED
      BY <1>1, <1>4, <2>1, <2>2
  <1>7. OneOwner'
    BY <1>1, <1>4, <1>6 DEF RegionInv, OneOwner
  <1>8. ReadsInBounds'
    BY <1>1, <1>4 DEF RegionInv, ReadsInBounds
  <1> QED
    BY <1>3, <1>5, <1>7, <1>8 DEF RegionInv

LEMMA MoveAssignInv ==
  ASSUME RegionInv, NEW s \in Slots, NEW from \in Slots, MoveAssign(s, from)
  PROVE  RegionInv'
  <1>1. CASE s = from
    BY <1>1 DEF MoveAssign, regionVars, RegionInv, RegionTypeOK, SlotsClean, OneOwner, ReadsInBounds
  <1>2. CASE s # from
    <2>1. /\ Delete(region[s].data)
          /\ region' = [region EXCEPT ![s] = region[from], ![from] = Empty]
      BY <1>2 DEF MoveAssign
    <2>2. \A u \in Slots : region'[u] = IF u = from THEN Empty
                                        ELSE IF u = s THEN region[from] ELSE region[u]
      BY <2>1 DEF RegionInv, RegionTypeOK
    <2>3. Empty.data = Null /\ Empty.words = 0 /\ Empty.life = "live"
      BY DEF Empty
    <2>4. heap' = heap \ {region[s].data} /\ length' = length /\ corrupt' = corrupt
      BY <2>1 DEF RegionInv, RegionTypeOK, OneOwner, Delete
    <2>5. RegionTypeOK'
      BY <2>1 DEF RegionInv, RegionTypeOK, Region, Empty, Delete
    <2>6. SlotsClean'
      BY <2>2, <2>3 DEF RegionInv, SlotsClean, MoveAssign, Live
    <2>7. OneOwner'
      BY <1>2, <2>2, <2>3, <2>4, Unshared DEF RegionInv, OneOwner
    <2>8. ReadsInBounds'
      BY <1>2, <2>2, <2>3, <2>4, Unshared, SizesAssumption
      DEF RegionInv, RegionTypeOK, ReadsInBounds
    <2> QED
      BY <2>5, <2>6, <2>7, <2>8 DEF RegionInv
  <1> QED
    BY <1>1, <1>2

LEMMA RegionStepInv == RegionInv /\ [RegionNext]_regionVars => RegionInv'
  <1> SUFFICES ASSUME RegionInv, [RegionNext]_regionVars PROVE RegionInv'
    OBVIOUS
  <1>1. ASSUME NEW s \in Slots, DefaultConstruct(s) PROVE RegionInv'
    BY <1>1, DefaultConstructInv
  <1>2. ASSUME NEW s \in Slots, Destroy(s) PROVE RegionInv'
    BY <1>2, GoneInv DEF Destroy
  <1>3. ASSUME NEW s \in Slots, NEW from \in Slots, MoveConstruct(s, from) \/ MoveAssign(s, from)
        PROVE RegionInv'
    BY <1>3, MoveConstructInv, MoveAssignInv
  <1>4. ASSUME NEW s \in Slots, FillReturns(s) PROVE RegionInv'
    BY <1>4, FillReturnsInv
  <1>5. ASSUME NEW s \in Slots, FillThrows(s) PROVE RegionInv'
    BY <1>5, GoneInv DEF FillThrows
  <1>6. ASSUME NEW s \in Slots, NEW n \in Sizes, Allocate(s, n) PROVE RegionInv'
    BY <1>6, AllocateInv, SizesAssumption
  <1>7. ASSUME UNCHANGED regionVars PROVE RegionInv'
    BY <1>7 DEF regionVars, RegionInv, RegionTypeOK, SlotsClean, OneOwner, ReadsInBounds
  <1> QED
    BY <1>1, <1>2, <1>3, <1>4, <1>5, <1>6, <1>7 DEF RegionNext, RegionUse

\* The heap, the objects and their lengths stay in their types, no slot keeps
\* a pointer of a former object, and the two properties of the regions hold.
THEOREM RegionsSound == RegionSpec => []RegionInv
BY RegionInitInv, RegionStepInv, PTL DEF RegionSpec

------------------------------------------------------------------------------
(* Regions over logged links *)

\* A mapping under way builds the object of its slot.
MapsTyped ==
  /\ maps \in [Mappers -> [slot : Slots \cup {Null}, asked : BOOLEAN]]
  /\ \A l \in Mappers : maps[l] # NoMap => maps[l].slot \in Slots

SessionInv == BusInv /\ RegionInv /\ MapsTyped

LEMMA SessionInitInv == SessionInit => SessionInv
  <1> SUFFICES ASSUME SessionInit PROVE SessionInv
    OBVIOUS
  <1>1. BusInv /\ RegionInv
    BY BusInitInv, RegionInitInv DEF SessionInit
  <1>2. MapsTyped
    BY DEF SessionInit, MapsTyped, NoMap
  <1> QED
    BY <1>1, <1>2 DEF SessionInv

\* A mapping does to its link what any call may do, and to its slot what the
\* constructor does.
LEMMA MappingSteps ==
  ASSUME SessionInv, NEW l \in Mappers, Mapping(l)
  PROVE  /\ BusStep \/ UNCHANGED busVars
         /\ [RegionNext]_regionVars
         /\ MapsTyped'
  <1>1. /\ l \in Links /\ maps[l] \in [slot : Slots \cup {Null}, asked : BOOLEAN]
        /\ maps \in [Mappers -> [slot : Slots \cup {Null}, asked : BOOLEAN]]
        /\ maps[l] # NoMap => maps[l].slot \in Slots
    BY MappersAssumption DEF SessionInv, MapsTyped
  <1>2. CASE MapFills(l)
    <2>1. maps[l].slot \in Slots
      BY <1>1, <1>2 DEF MapFills
    <2>2. region[maps[l].slot].words \in Nat
      BY <2>1 DEF SessionInv, RegionInv, RegionTypeOK, Region
    <2>3. AnyAccess(l)
      BY <1>2, <2>2 DEF MapFills, AnyAccess, Ops
    <2>4. MapsTyped'
      <3> DEFINE m == [maps[l] EXCEPT !.asked = TRUE]
      <3>1. m \in [slot : Slots \cup {Null}, asked : BOOLEAN] /\ m.slot = maps[l].slot
        BY <1>1
      <3>2. maps' = [maps EXCEPT ![l] = m]
        BY <1>2 DEF MapFills
      <3> HIDE DEF m
      <3> QED
        BY <1>1, <2>1, <3>1, <3>2 DEF SessionInv, MapsTyped
    <2> QED
      BY <1>1, <1>2, <2>3, <2>4 DEF MapFills, BusStep, LinkStep
  <1>3. CASE MapEnds(l)
    <2>1. maps[l].slot \in Slots
      BY <1>1, <1>3 DEF MapEnds, NoMap
    <2>2. FillReturns(maps[l].slot) \/ FillThrows(maps[l].slot)
      BY <1>3 DEF MapEnds
    <2>3. MapsTyped'
      BY <1>3 DEF MapEnds, SessionInv, MapsTyped, NoMap
    <2> QED
      BY <1>3, <2>1, <2>2, <2>3 DEF MapEnds, RegionNext
  <1>4. ASSUME NEW s \in Slots, NEW n \in Sizes, MapBegins(l, s, n)
        PROVE  UNCHANGED busVars /\ RegionNext /\ MapsTyped'
    <2>1. MapsTyped'
      BY <1>1, <1>4 DEF MapBegins, SessionInv, MapsTyped
    <2> QED
      BY <1>4, <2>1 DEF MapBegins, RegionNext
  <1> QED
    BY <1>2, <1>3, <1>4 DEF Mapping

LEMMA SessionStep ==
  ASSUME SessionInv, [SessionNext]_sessionVars
  PROVE  /\ BusStep \/ UNCHANGED busVars
         /\ [RegionNext]_regionVars
         /\ MapsTyped'
  <1>1. MapsTyped
    BY DEF SessionInv
  <1>2. CASE \E l \in Mappers : Mapping(l)
    BY <1>2, MappingSteps
  <1>3. CASE \E l \in Links : (FreeCall(l) \/ RecordStep(l)) /\ UNCHANGED <<regionVars, maps>>
    <2>1. BusNext
      BY <1>3 DEF FreeCall, BusNext
    <2> QED
      BY <1>1, <1>3, <2>1, BusNextIsBusStep DEF MapsTyped
  <1>4. CASE (LogCall \/ TimePasses) /\ UNCHANGED <<regionVars, maps>>
    BY <1>1, <1>4 DEF BusStep, MapsTyped
  <1>5. CASE Worthwhile /\ RegionUse /\ UNCHANGED <<busVars, maps>>
    BY <1>1, <1>5 DEF RegionNext, MapsTyped
  <1>6. CASE UNCHANGED sessionVars
    BY <1>1, <1>6 DEF sessionVars, MapsTyped
  <1> QED
    BY <1>2, <1>3, <1>4, <1>5, <1>6 DEF SessionNext

LEMMA SessionStepInv == SessionInv /\ [SessionNext]_sessionVars => SessionInv'
  <1> SUFFICES ASSUME SessionInv, [SessionNext]_sessionVars PROVE SessionInv'
    OBVIOUS
  <1>1. BusInv'
    BY SessionStep, BusStepInv, BusStays DEF SessionInv
  <1>2. RegionInv'
    BY SessionStep, RegionStepInv DEF SessionInv
  <1> QED
    BY <1>1, <1>2, SessionStep DEF SessionInv

\* The log is the bus in order also for regions mapped over it, whose fills fail
\* on the bus or for want of memory for the record.
THEOREM SessionLogSound ==
  SessionSpec => [](BusTypeOK /\ LogMatchesBus /\ StampsOrdered)
  <1>1. SessionInv => BusTypeOK /\ LogMatchesBus /\ StampsOrdered
    BY DEF SessionInv, BusInv
  <1> QED
    BY <1>1, SessionInitInv, SessionStepInv, PTL DEF SessionSpec

\* No buffer leaks, is freed twice or shared, however the fill of a region ends.
THEOREM SessionOneOwner == SessionSpec => []OneOwner
  <1>1. SessionInv => OneOwner
    BY DEF SessionInv, RegionInv
  <1> QED
    BY <1>1, SessionInitInv, SessionStepInv, PTL DEF SessionSpec

\* at(i) below words_ stays inside the buffer of its object, moved from or not.
THEOREM SessionReadsInBounds == SessionSpec => []ReadsInBounds
  <1>1. SessionInv => ReadsInBounds
    BY DEF SessionInv, RegionInv
  <1> QED
    BY <1>1, SessionInitInv, SessionStepInv, PTL DEF SessionSpec

\* A file has no holes, also when regions are filled over the links it is of.
THEOREM SessionFilesHaveNoHoles == SessionSpec => []NoHolesInFile
  <1>1. SessionInit => FileInv
    BY FileInitInv DEF SessionInit
  <1>2. SessionInv /\ FileInv /\ [SessionNext]_sessionVars => FileInv'
    BY SessionStep, FileStep, FileStays
  <1>3. FileInv => NoHolesInFile
    BY DEF FileInv
  <1> QED
    BY <1>1, <1>2, <1>3, SessionInitInv, SessionStepInv, PTL DEF SessionSpec

\* One record, one step: also with regions mapped over the links.
THEOREM SessionImplementsLog == SessionSpec => ImplementsLog
  <1>1. SessionInit => Abstract!Init
    <2> SUFFICES ASSUME SessionInit PROVE Abstract!Init
      OBVIOUS
    <2>1. Unlogged = [l \in Links |-> NoAccess] /\ log = <<>> /\ copy = <<>> /\ now \in Nat
      BY DEF SessionInit, BusInit, Unlogged
    <2> QED
      BY <2>1 DEF Abstract!Init
  <1>2. SessionInv /\ SessionInv' /\ [SessionNext]_sessionVars
        => [Abstract!Next]_(Abstract!logVars)
    <2>1. ASSUME UNCHANGED busVars PROVE UNCHANGED Abstract!logVars
      BY <2>1 DEF busVars, costVars, linkVars, fileVars, Abstract!logVars, Unlogged, Recorded
    <2> QED
      BY <2>1, SessionStep, BusStepImplements DEF SessionInv
  <1> QED
    BY <1>1, <1>2, SessionInitInv, SessionStepInv, PTL DEF SessionSpec, ImplementsLog, Abstract!Spec

\* The types of the links and of the regions mapped over them.
THEOREM SessionTypes == SessionSpec => [](BusTypeOK /\ RegionTypeOK)
  <1>1. SessionInv => BusTypeOK /\ RegionTypeOK
    BY DEF SessionInv, BusInv, RegionInv
  <1> QED
    BY <1>1, SessionInitInv, SessionStepInv, PTL DEF SessionSpec

\* The fill of a region is billed like any other call, also when it fails.
THEOREM SessionCallsAreBilled == SessionSpec => []EveryCallBilled
  <1>1. SessionInit => BillInv
    BY BillInitInv DEF SessionInit
  <1>2. SessionInv /\ BillInv /\ [SessionNext]_sessionVars => BillInv'
    BY SessionStep, BillStep, BillStays
  <1> QED
    BY <1>1, <1>2, BillInvBills, SessionInitInv, SessionStepInv, PTL DEF SessionSpec
==============================================================================
