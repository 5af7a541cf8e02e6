------------------------------ MODULE BusSession ------------------------------
(***************************************************************************)
(* Regions mapped over logged links: DeviceHandle::Map, or MappedRegion's  *)
(* constructor, on a transport of BusLog.  The fill is a ReadBlock like    *)
(* any other: it may fail on the bus (TransportError) or, after the bus,   *)
(* for want of memory for its record (std::bad_alloc).                     *)
(***************************************************************************)
EXTENDS BusLog, MappedRegion

CONSTANT Mappers  \* the links regions are mapped through

ASSUME MappersAssumption == Mappers \subseteq Links

VARIABLE maps  \* maps[l]: the region being built over link l: its slot, and whether the fill was asked for

sessionVars == <<busVars, regionVars, maps>>

NoMap == [slot |-> Null, asked |-> FALSE]

SessionInit == BusInit /\ RegionInit /\ maps = [l \in Mappers |-> NoMap]

MapBegins(l, s, words) ==
  /\ maps[l] = NoMap /\ call[l] = Idle /\ left[l] > 0
  /\ Allocate(s, words)
  /\ maps' = [maps EXCEPT ![l] = [slot |-> s, asked |-> FALSE]]
  /\ UNCHANGED busVars

MapFills(l) ==
  /\ maps[l] # NoMap /\ ~ maps[l].asked
  /\ \E reached \in 0..region[maps[l].slot].words :
       Access(l, "read_block", region[maps[l].slot].words, reached)
  /\ maps' = [maps EXCEPT ![l].asked = TRUE]
  /\ UNCHANGED regionVars

FillOutcome(l) == wire[l][Len(wire[l])].outcome

\* A slip: the constructor catches TransportError only.
MapEndsCatchingBusErrors(l) ==
  /\ maps[l].asked /\ call[l] = Idle
  /\ CASE FillOutcome(l) = "threw" -> FillThrows(maps[l].slot)
       [] FillOutcome(l) = "unrecorded" ->
            region' = [region EXCEPT ![maps[l].slot] = NoObject] /\ UNCHANGED <<heap, length, corrupt>>
       [] OTHER -> FillReturns(maps[l].slot)
  /\ maps' = [maps EXCEPT ![l] = NoMap]
  /\ UNCHANGED busVars

MapEnds(l) ==
  /\ maps[l].asked /\ call[l] = Idle
  /\ IF FillOutcome(l) \in {"threw", "unrecorded"}
     THEN FillThrows(maps[l].slot) ELSE FillReturns(maps[l].slot)
  /\ maps' = [maps EXCEPT ![l] = NoMap]
  /\ UNCHANGED busVars

Mapping(l) ==
  MapFills(l) \/ MapEnds(l) \/ \E s \in Slots, n \in Sizes : MapBegins(l, s, n)

\* The caller of a link makes no other call on it while it maps a region.
FreeCall(l) == (l \in Mappers => maps[l] = NoMap) /\ LinkCall(l)

\* Bound: objects come and go while there is, or may yet be, a buffer to own.
Worthwhile == heap # {} \/ \E l \in Mappers : left[l] > 0

SessionNext ==
  \/ \E l \in Mappers : Mapping(l)
  \/ \E l \in Links : (FreeCall(l) \/ RecordStep(l)) /\ UNCHANGED <<regionVars, maps>>
  \/ (LogCall \/ TimePasses) /\ UNCHANGED <<regionVars, maps>>
  \/ Worthwhile /\ RegionUse /\ UNCHANGED <<busVars, maps>>

SessionSpec == SessionInit /\ [][SessionNext]_sessionVars

(* Every thread in a call is scheduled, also one that waits for the mutex (it
   gets in unless others take the mutex again and again); a constructor that
   has begun is not stopped.  Nobody has to call. *)
SessionFairness ==
  /\ \A l \in Links : WF_sessionVars(RecordStep(l) /\ UNCHANGED <<regionVars, maps>>)
  /\ \A l \in Mappers : WF_sessionVars(MapFills(l) \/ MapEnds(l))

FairSessionSpec == SessionSpec /\ SessionFairness

------------------------------------------------------------------------------
(* Properties *)

\* A region that is being mapped is at last there or given up, and its buffer
\* with it, whoever else holds up the log.
MappingsEnd == \A l \in Mappers : (maps[l] # NoMap) ~> (maps[l] = NoMap)
==============================================================================
