--------------------------- MODULE PythonSuite_proof ---------------------------
(***************************************************************************)
(* For any suite of Python bodies, any threads and any number of runs: the *)
(* interpreter lock keeps the log in bus order, nothing a body uses dies   *)
(* before it, and the sequencer below keeps what is proved of it.          *)
(***************************************************************************)
EXTENDS PythonSuite, Sequencer_proof

------------------------------------------------------------------------------
(* The sequencer below the bindings *)

LEMMA VerdictType ==
  ASSUME NEW t \in Names
  PROVE  Verdict(t) \in Exceptions \cup {"none"}
  <1>1. Script[t] \in Scripts /\ "std" \in Exceptions
    BY ScriptAssumption, AssertAssumption
  <1> QED
    BY <1>1 DEF Verdict, Scripts

\* The steps that concern the sequencer alone.
SeqStep ==
  \/ PyClient \/ PyLevelling \/ MainInRun
  \/ \E t \in Names : PyWorker(t) \/ NoHook(t)

LEMMA PyStepIsStep == [PyNext]_pyVars => [Next]_vars
  <1> SUFFICES ASSUME [PyNext]_pyVars PROVE [Next]_vars
    OBVIOUS
  <1>1. ASSUME SeqStep PROVE Next
    <2>1. CASE PyClient \/ PyLevelling \/ MainInRun
      BY <2>1 DEF PyClient, PyLevelling, MainInRun, Next
    <2>2. ASSUME NEW t \in Names, PyWorker(t) PROVE Next
      BY <2>2 DEF PyWorker, PyFinish, WorkerStep, Next
    <2>3. ASSUME NEW t \in Names, NoHook(t) PROVE Next
      BY <2>3 DEF NoHook, Setup, Teardown, HookStep, BodyStep, Next
    <2> QED
      BY <1>1, <2>1, <2>2, <2>3 DEF SeqStep
  <1>2. ASSUME NEW t \in Names, ScriptEnds(t) PROVE Next
    <2>1. HookEnds(t, "test", Verdict(t), "teardown")
      BY <1>2 DEF ScriptEnds
    <2>2. TestBody(t)
      BY <2>1, VerdictType DEF TestBody
    <2> QED
      BY <2>2 DEF HookStep, BodyStep, Next
  <1>3. CASE PyBeginRun
    BY <1>3 DEF PyBeginRun, Next
  <1>4. CASE DeviceReset \/ LogClear \/ LeaveScope \/ RunHandsBack
    BY <1>4 DEF DeviceReset, LogClear, LeaveScope, RunHandsBack
  <1>5. ASSUME NEW t \in Names, TakeGil(t) \/ SetTest(t) \/ Touch(t) \/ Record(t)
        PROVE  UNCHANGED vars
    BY <1>5 DEF TakeGil, SetTest, Touch, Touches, Record
  <1>6. CASE UNCHANGED pyVars
    BY <1>6 DEF pyVars
  <1> QED
    BY <1>1, <1>2, <1>3, <1>4, <1>5, <1>6 DEF PyNext, Machine, PyBody, SeqStep

\* A suite driven from Python is a suite of the sequencer: every order, retry
\* and reuse the bindings allow is one Sequencer.tla allows.
THEOREM PythonRunsSequencer == PySpec => Spec
BY PyStepIsStep, PTL DEF PySpec, PyInit, Spec

\* A Python body begins only after the bodies it depends on have ended.
THEOREM PyDependenciesFirst == PySpec => []DependenciesFinished
BY PythonRunsSequencer, DependenciesFirst, PTL

\* When run() is back in Python no thread of the suite is left.
THEOREM PyNoThreadLeaks == PySpec => []NoOrphanThreads
BY PythonRunsSequencer, NoThreadLeaks, PTL

\* What run() hands to Python is complete and in order, and every verdict in it
\* is of what the Python bodies did.
THEOREM PyResultsAreHonest == PySpec => [](HonestVerdict /\ CompleteOrderedResults)
BY PythonRunsSequencer, VerdictsAreHonest, ResultsAreComplete, PTL

------------------------------------------------------------------------------
(* The device stays a device *)

LEMMA PowerOnTyped == PowerOn \in Device
  <1>1. ResetWord \in [Registers -> SUBSET Bits]
    BY DEF ResetWord, Bits
  <1>2. 0 \in 0..(TickMod - 1)
    BY TickAssumption
  <1> QED
    BY <1>1, <1>2 DEF PowerOn, Device

LEMMA ResetTyped == ASSUME NEW d \in Device PROVE ResetDevice(d) \in Device
  <1>1. ResetWord \in [Registers -> SUBSET Bits]
    BY DEF ResetWord, Bits
  <1>2. 0 \in 0..(TickMod - 1)
    BY TickAssumption
  <1> QED
    BY <1>1, <1>2 DEF ResetDevice, Device

LEMMA CompleteTyped == ASSUME NEW d \in Device PROVE Complete(d) \in Device
  <1> DEFINE status == {IDLE, DONE} \cup BeatsField(d.storage["XFER_LEN"])
             irq == d.storage["IRQ_STATUS"] \cup {DONE_IRQ}
  <1>1. status \in SUBSET Bits
    BY DEF BeatsField, IDLE, DONE, Bits
  <1>2. irq \in SUBSET Bits
    BY DEF Device, Registers, DmaRegisters, DONE_IRQ, Bits
  <1> QED
    BY <1>1, <1>2 DEF Complete, Device, Registers, DmaRegisters

LEMMA TickTyped == ASSUME NEW d \in Device PROVE Tick(d) \in Device
  <1> DEFINE later == [d EXCEPT !.ticks = (@ + 1) % TickMod]
  <1>1. (d.ticks + 1) % TickMod \in 0..(TickMod - 1)
    BY TickAssumption DEF Device
  <1>2. later \in Device
    BY <1>1 DEF Device
  <1> HIDE DEF later
  <1> QED
    BY <1>2, CompleteTyped DEF Tick, later

LEMMA WriteTyped ==
  ASSUME NEW d \in Device, NEW r \in Registers, NEW word \in SUBSET Bits
  PROVE  Write(d, r, word) \in Device
  <1>1. ASSUME NEW e \in Device PROVE Store(e, r, word) \in Device
    BY DEF Store, Device
  <1>2. ASSUME NEW e \in Device PROVE StartTransfer(e, r, word) \in Device
    <2>1. (e.ticks + e.latency) % TickMod \in 0..(TickMod - 1)
      BY TickAssumption DEF Device
    <2>2. {BUSY} \in SUBSET Bits
      BY DEF BUSY, Bits
    <2> QED
      BY <2>1, <2>2 DEF StartTransfer, Device
  <1>3. ASSUME NEW e \in Device PROVE TrainLink(e, r, word) \in Device
    <2>1. {0} \cup (word \cap 1..3) \cup {8, 14} \in SUBSET Bits
      BY DEF Bits
    <2> QED
      BY <2>1 DEF TrainLink, Device
  <1> QED
    BY <1>1, <1>2, <1>3, TickTyped DEF Write

LEMMA StartWordTyped == StartWord \in SUBSET Bits
BY DEF StartWord, Setter, ShiftUp, Mask, Fields, Field, Bits

------------------------------------------------------------------------------
(* The interpreter lock *)

\* Whoever is between an access and its record holds the GIL, and the access
\* was the last on the bus.
Turns == \A t \in Calling : gil = t /\ py[t].nth = wire

GilInv == PyTypeOK /\ Turns /\ LogIsBusOrder

LEMMA NotNames == Main \notin Names /\ Free \notin Names
BY NamesAssumption DEF Main, Free, EmptyName

\* A step that leaves log and bus alone, and ends or begins nobody's call.
LEMMA OrderKept ==
  ASSUME GilInv, PyTypeOK', UNCHANGED <<log, wire>>,
         \A t \in Names : py'[t].at = "call" => /\ py[t].at = "call" /\ py'[t] = py[t]
                                                /\ gil' = gil,
         \A t \in Names : py[t].at = "call" => py'[t].at = "call"
  PROVE  GilInv'
  <1>1. Calling' = Calling
    BY DEF Calling
  <1>2. Turns'
    BY <1>1 DEF GilInv, Turns, Calling
  <1> QED
    BY <1>1, <1>2 DEF GilInv, LogIsBusOrder

LEMMA GilInit == PyInit => GilInv
  <1> SUFFICES ASSUME PyInit PROVE GilInv
    OBVIOUS
  <1>1. py = [t \in Names |-> NoPy] /\ log = <<>> /\ wire = 0
    BY DEF PyInit, Each
  <1>2. Calling = {}
    BY <1>1 DEF Calling, NoPy
  <1>3. PyTypeOK
    <2>1. MaxRuns \in Nat /\ NoPy \in PyState
      BY PollAssumption DEF NoPy, PyState
    <2>2. device \in Device
      BY PowerOnTyped, PollAssumption DEF PyInit, Device
    <2> QED
      BY <1>1, <2>1, <2>2 DEF PyInit, PyTypeOK, Unlabelled
  <1>4. Cardinality(Calling) = 0 /\ Len(log) = 0
    BY <1>1, <1>2, FS_EmptySet
  <1>5. LogIsBusOrder
    <2>1. 1..Len(log) = {}
      BY <1>4
    <2> QED
      BY <1>1, <1>4, <2>1 DEF LogIsBusOrder
  <1> QED
    BY <1>2, <1>3, <1>5 DEF GilInv, Turns

LEMMA NobodyCalls ==
  ASSUME GilInv, NEW t \in Names \cup {Main, Free}, gil = t, t \in Names => py[t].at # "call"
  PROVE  Calling = {}
BY NotNames DEF GilInv, Turns, Calling

LEMMA HostGil ==
  ASSUME GilInv,
         SeqStep \/ DeviceReset \/ LogClear \/ LeaveScope \/ PyBeginRun \/ RunHandsBack
  PROVE  GilInv'
  <1> USE DEF busVars, hostVars
  <1>1. PyTypeOK /\ py \in [Names -> PyState]
    BY DEF GilInv, PyTypeOK
  <1>2. CASE SeqStep
    <2>1. UNCHANGED <<gil, py, device, label, log, wire, runs, clean, inScope, objects>>
      BY <1>2 DEF SeqStep, PyClient, PyLevelling, MainInRun, PyWorker, NoHook
    <2>2. PyTypeOK'
      BY <1>1, <2>1 DEF PyTypeOK
    <2> QED
      BY <2>1, <2>2, OrderKept
  <1>3. CASE DeviceReset \/ RunHandsBack \/ LeaveScope
    <2>1. /\ UNCHANGED <<py, label, log, wire, runs, clean>>
          /\ gil' \in {gil, Main} /\ gil \in {Main, Free} /\ inScope' \in {inScope, FALSE}
      BY <1>3 DEF DeviceReset, RunHandsBack, LeaveScope, InPython
    <2>2. objects' \subseteq {"device", "log", "bus", "seq"}
      <3>1. CASE LeaveScope
        <4>1. /\ objects' = {"seq"} \cup Keeps["seq"] \cup UNION {Keeps[o] : o \in Keeps["seq"]}
              /\ Keeps["seq"] \subseteq {"bus"} /\ Keeps["bus"] = {"device", "log"}
          BY <3>1 DEF LeaveScope, Keeps
        <4> QED
          BY <4>1
      <3>2. CASE DeviceReset \/ RunHandsBack
        BY <1>1, <3>2 DEF DeviceReset, RunHandsBack, PyTypeOK
      <3> QED
        BY <1>3, <3>1, <3>2
    <2>3. PyTypeOK'
      <3>1. device' \in Device
        BY <1>1, <1>3, ResetTyped DEF DeviceReset, RunHandsBack, LeaveScope, PyTypeOK
      <3> QED
        BY <1>1, <2>1, <2>2, <3>1 DEF PyTypeOK
    <2>4. Calling = {}
      BY <2>1, NobodyCalls, NotNames
    <2> QED
      BY <2>1, <2>3, <2>4, OrderKept DEF Calling
  <1>4. CASE LogClear
    <2>1. /\ UNCHANGED <<py, gil, device, label, runs, clean, inScope, objects>>
          /\ log' = <<>> /\ wire' = 0 /\ gil = Main
      BY <1>4 DEF LogClear, InPython
    <2>2. PyTypeOK'
      BY <1>1, <2>1 DEF PyTypeOK
    <2>3. Calling = {} /\ Calling' = {}
      BY <2>1, NobodyCalls, NotNames DEF Calling
    <2>4. LogIsBusOrder'
      <3>1. Cardinality(Calling') = 0 /\ Len(log') = 0 /\ 1..Len(log') = {}
        BY <2>1, <2>3, FS_EmptySet
      <3> QED
        BY <2>1, <3>1 DEF LogIsBusOrder
    <2> QED
      BY <2>2, <2>3, <2>4 DEF GilInv, Turns
  <1>5. CASE PyBeginRun
    <2>1. /\ gil = Main /\ gil' = Free /\ runs < MaxRuns /\ runs' = runs + 1
          /\ py' = [t \in Names |-> NoPy] /\ clean' = ~ device.running
          /\ UNCHANGED <<device, label, log, wire, objects, inScope>>
      BY <1>5 DEF PyBeginRun, InPython, Each
    <2>2. PyTypeOK'
      <3>1. runs' \in 0..MaxRuns
        BY <1>1, <2>1, PollAssumption DEF PyTypeOK
      <3> QED
        BY <1>1, <2>1, <3>1 DEF PyTypeOK, NoPy, PyState
    <2>3. Calling = {}
      BY <2>1, NobodyCalls, NotNames
    <2> QED
      BY <2>1, <2>2, <2>3, OrderKept DEF Calling, NoPy
  <1> QED
    BY <1>2, <1>3, <1>4, <1>5

LEMMA BodyGil ==
  ASSUME GilInv, NEW t \in Names, TakeGil(t) \/ SetTest(t) \/ ScriptEnds(t)
  PROVE  GilInv'
  <1> USE DEF busVars, hostVars
  <1>1. PyTypeOK /\ py \in [Names -> PyState]
    BY DEF GilInv, PyTypeOK
  <1>2. /\ gil = Free \/ (gil = t /\ py[t].at # "call")
        /\ gil' \in {t, Free} /\ label' \in {label, t}
        /\ UNCHANGED <<device, log, wire, objects, inScope, runs, clean>>
    BY DEF TakeGil, SetTest, ScriptEnds, Runs, MayYield
  <1>3. py[t] \in PyState /\ [py[t] EXCEPT !.at = "script"] \in PyState /\ NoPy \in PyState
    BY <1>1 DEF PyState, NoPy
  <1>4. \/ py' = py \/ py' = [py EXCEPT ![t] = NoPy]
        \/ py' = [py EXCEPT ![t] = [py[t] EXCEPT !.at = "script"]]
    BY DEF TakeGil, SetTest, ScriptEnds
  <1>5. PyTypeOK'
    <2>1. py' \in [Names -> PyState]
      BY <1>1, <1>3, <1>4
    <2> QED
      BY <1>1, <1>2, <2>1 DEF PyTypeOK
  <1>6. Calling = {}
    <2>1. gil \in Names \cup {Main, Free} /\ gil \in Names => py[gil].at # "call"
      BY <1>2, NotNames
    <2> QED
      BY <1>2, <2>1, NobodyCalls, NotNames
  <1> QED
    <2>1. \A u \in Names : py'[u].at # "call"
      <3>1. \A u \in Names : py[u].at # "call"
        BY <1>6 DEF Calling
      <3>2. [py[t] EXCEPT !.at = "script"].at = "script" /\ NoPy.at = "begin"
        BY <1>3 DEF PyState, NoPy
      <3> QED
        BY <1>1, <1>4, <3>1, <3>2
    <2> QED
      BY <1>2, <1>5, <1>6, <2>1, OrderKept DEF Calling

LEMMA TouchGil ==
  ASSUME GilInv, NEW t \in Names, Touch(t)
  PROVE  GilInv'
  <1> USE DEF busVars, hostVars
  <1>1. PyTypeOK /\ py \in [Names -> PyState] /\ LogIsBusOrder
    BY DEF GilInv, PyTypeOK
  <1>2. /\ gil = t /\ py[t].at = "script" /\ wire' = wire + 1 /\ gil' = gil
        /\ UNCHANGED <<label, log, objects, inScope, runs, clean>>
    BY DEF Touch, Touches, Runs
  <1> DEFINE p == [at |-> "call", accesses |-> py[t].accesses + 1, nth |-> wire + 1,
                   status |-> IF Script[t] = "start_transfer" THEN {}
                              ELSE device'.storage["STATUS"]]
  <1>3. py' = [py EXCEPT ![t] = p] /\ p.at = "call" /\ p.nth = wire + 1
    BY DEF Touch, Touches
  <1>4. PyTypeOK'
    <2>1. device' \in Device
      <3>1. Write(device, "CTRL", StartWord) \in Device
        BY <1>1, WriteTyped, StartWordTyped DEF PyTypeOK, Registers, DmaRegisters
      <3>2. Read(device) \in Device
        BY <1>1, TickTyped DEF PyTypeOK, Read
      <3> QED
        BY <3>1, <3>2 DEF Touch, Touches
    <2>2. p \in PyState
      <3>1. device'.storage["STATUS"] \in SUBSET Bits
        BY <2>1 DEF Device, Registers, DmaRegisters
      <3>2. py[t].accesses + 1 \in Nat /\ wire + 1 \in Nat
        BY <1>1 DEF PyTypeOK, PyState
      <3> QED
        BY <3>1, <3>2 DEF PyState
    <2> HIDE DEF p
    <2>3. py' \in [Names -> PyState]
      BY <1>1, <1>3, <2>2
    <2> QED
      BY <1>1, <1>2, <2>1, <2>3 DEF PyTypeOK
  <1>5. Calling = {}
    BY <1>2, NobodyCalls
  <1> HIDE DEF p
  <1>6. Calling' = {t} /\ py'[t] = p
    BY <1>1, <1>3, <1>5 DEF Calling
  <1>7. wire = Len(log) /\ wire \in Nat
    BY <1>1, <1>5, FS_EmptySet DEF LogIsBusOrder, PyTypeOK
  <1>8. LogIsBusOrder'
    <2>1. Cardinality(Calling') = 1
      BY <1>6, FS_Singleton
    <2> QED
      BY <1>1, <1>2, <1>7, <2>1 DEF LogIsBusOrder
  <1>9. Turns'
    BY <1>2, <1>3, <1>6 DEF Turns
  <1> QED
    BY <1>4, <1>8, <1>9 DEF GilInv

LEMMA RecordGil ==
  ASSUME GilInv, NEW t \in Names, Record(t)
  PROVE  GilInv'
  <1> USE DEF busVars, hostVars
  <1> DEFINE r == [by |-> t, test |-> label, nth |-> py[t].nth]
             Rec == [by : Names, test : Names \cup {Unlabelled}, nth : Nat]
  <1>1. PyTypeOK /\ py \in [Names -> PyState] /\ LogIsBusOrder /\ Turns
    BY DEF GilInv, PyTypeOK
  <1>2. /\ gil = t /\ py[t].at = "call" /\ log' = Append(log, r) /\ gil' \in {t, Free}
        /\ UNCHANGED <<device, label, wire, objects, inScope, runs, clean>>
    BY DEF Record, Runs, MayYield
  <1>3. /\ py' \in [Names -> PyState] /\ py'[t].at = "script"
        /\ \A u \in Names : u # t => py'[u] = py[u]
    <2> DEFINE p == [py[t] EXCEPT !.at = "script"]
    <2>1. py' = [py EXCEPT ![t] = p]
      BY DEF Record
    <2>2. p \in PyState /\ p.at = "script"
      BY <1>1 DEF PyState
    <2> HIDE DEF p
    <2> QED
      BY <1>1, <2>1, <2>2
  <1>4. r \in Rec /\ log \in Seq(Rec) /\ r.nth = py[t].nth
    BY <1>1 DEF PyTypeOK, PyState
  <1> HIDE DEF r, Rec
  <1>5. /\ log' \in Seq(Rec) /\ Len(log') = Len(log) + 1 /\ Len(log) \in Nat
        /\ log'[Len(log) + 1] = r /\ \A i \in 1..Len(log) : log'[i] = log[i]
    BY <1>2, <1>4
  <1>6. PyTypeOK'
    BY <1>1, <1>2, <1>3, <1>5 DEF PyTypeOK, Rec
  <1>7. Calling = {t} /\ py[t].nth = wire
    BY <1>1, <1>2 DEF Calling, Turns
  <1>8. Calling' = {}
    BY <1>3, <1>7 DEF Calling
  <1>9. wire = Len(log) + 1
    BY <1>1, <1>7, FS_Singleton DEF LogIsBusOrder
  <1>10. LogIsBusOrder'
    <2>1. Cardinality(Calling') = 0
      BY <1>8, FS_EmptySet
    <2>2. \A i \in 1..Len(log') : log'[i].nth = i
      <3>1. r.nth = Len(log) + 1
        BY <1>4, <1>7, <1>9
      <3>2. \A i \in 1..Len(log) : log[i].nth = i
        BY <1>1 DEF LogIsBusOrder
      <3> QED
        BY <1>5, <3>1, <3>2
    <2> QED
      BY <1>2, <1>5, <1>9, <2>1, <2>2 DEF LogIsBusOrder
  <1> QED
    BY <1>6, <1>8, <1>10 DEF GilInv, Turns

LEMMA GilStep == GilInv /\ [PyNext]_pyVars => GilInv'
  <1>1. ASSUME GilInv, UNCHANGED pyVars PROVE GilInv'
    <2>1. UNCHANGED <<gil, py, device, label, log, wire, runs, clean, inScope, objects>>
      BY <1>1 DEF pyVars, busVars, hostVars
    <2>2. PyTypeOK'
      BY <1>1, <2>1 DEF GilInv, PyTypeOK
    <2> QED
      BY <1>1, <2>1, <2>2, OrderKept
  <1> QED
    BY <1>1, HostGil, BodyGil, TouchGil, RecordGil DEF PyNext, Machine, PyBody, SeqStep

\* The bindings' variables stay in their types.
THEOREM PyTypeCorrect == PySpec => []PyTypeOK
  <1>1. GilInv => PyTypeOK
    BY DEF GilInv
  <1> QED
    BY <1>1, GilInit, GilStep, PTL DEF PySpec

\* bindings.cpp holds the GIL over a whole read32 or write32: the records of
\* all tests are in the order of their accesses on the bus.
THEOREM PyLogInOrder == PySpec => []LogIsBusOrder
  <1>1. GilInv => LogIsBusOrder
    BY DEF GilInv
  <1> QED
    BY <1>1, GilInit, GilStep, PTL DEF PySpec

------------------------------------------------------------------------------
(* Labels *)

\* A body past its set_test is a body under way, and the label is of a test it
\* may run together with.
Labelled ==
  \A t \in Names : py[t].at # "begin" =>
    /\ body[t] = "test"
    /\ t \in Labelling => label \in Names /\ Together(t, label)

\* A body that has not begun has made no access.
PyFresh == \A t \in Names : py[t].at = "begin" => py[t] = NoPy

LabelInv == Labelled /\ PyFresh

LEMMA TestIsLive ==
  ASSUME IInv, NEW t \in Names, body[t] = "test"
  PROVE  Busy /\ WorkerLive(t) /\ main # "idle" /\ main # "levels"
  <1>1. WorkerLive(t)
    BY HookIsLive DEF IInv, TypeOK, Executing, Stages, WorkerLive
  <1> QED
    BY <1>1, LiveIsInBatch DEF Busy

LEMMA LiveTogether ==
  ASSUME IInv, Aligned, NEW t \in Names, NEW u \in Names, WorkerLive(t), WorkerLive(u)
  PROVE  Together(t, u)
  <1>1. levelIndex \in 1..Len(levels) /\ t \in Level /\ u \in Level
    BY LiveIsInBatch DEF Level
  <1>2. u \in Piece(t, Level)
    BY MeasuredTogether
  <1> QED
    BY <1>1, <1>2 DEF Together, Piece, Level

\* No step inside run() changes the levels or the suite.
LEMMA SuiteKept ==
  ASSUME Busy, [Next]_vars
  PROVE  UNCHANGED <<declared, dependsOn, levels>>
  <1>1. CASE ClientCall \/ BeginRun \/ Levelling
    BY <1>1 DEF Busy, ClientCall, BeginRun, Levelling, Client, Add, AddRejected, CallLevels,
                LevelsStep, Round, RejectCycle, LevelsReturn
  <1>2. CASE RunStep
    BY <1>2 DEF RunStep, NextLevel, StartBatch, LaunchFails, Unwind, Return, Launch, Collect,
                CollectThrows, sVars, suiteVars, levelVars
  <1>3. ASSUME NEW x \in Names, WorkerStep(x) \/ BodyStep(x)
        PROVE  UNCHANGED <<declared, dependsOn, levels>>
    BY <1>3 DEF WorkerStep, ReadCounter, StartBody, StartBodyFails, TimesOut, Finish, ReturnResult,
                BodyStep, HookStep, Setup, TestBody, Teardown, HookEnds, Bump, Wedge,
                sVars, suiteVars, levelVars
  <1>4. CASE UNCHANGED vars
    BY <1>4 DEF vars, sVars, suiteVars, levelVars
  <1> QED
    BY <1>1, <1>2, <1>3, <1>4 DEF Next

\* What a step of the sequencer alone does to a body: it stays, or its hooks
\* begin, or it goes on to or from the hooks that Python does not have.
LEMMA SeqBodies ==
  ASSUME IInv, SeqStep, NEW t \in Names
  PROVE  \/ body'[t] = body[t]
         \/ body[t] = "none" /\ body'[t] = "setup"
         \/ body[t] = "setup" /\ body'[t] = "test"
         \/ body[t] = "teardown" /\ body'[t] = "done"
  <1>1. WorkTypeOK /\ InStep(t)
    BY DEF IInv, TypeOK, WorkerAndBody
  <1>2. CASE PyClient \/ PyLevelling \/ MainInRun
    BY <1>2 DEF PyClient, ClientCall, PyLevelling, Levelling, MainInRun, workVars,
                RunStep, NextLevel, StartBatch, LaunchFails, Unwind, Return, Launch, Collect,
                CollectThrows
  <1>3. ASSUME NEW x \in Names, PyWorker(x)
        PROVE  body'[t] = body[t] \/ (body[t] = "none" /\ body'[t] = "setup")
    BY <1>1, <1>3 DEF PyWorker, PyFinish, ReadCounter, StartBody, StartBodyFails, TimesOut, Finish,
                      ReturnResult, MoveWorker, WorkTypeOK, InStep
  <1>4. ASSUME NEW x \in Names, NoHook(x)
        PROVE  \/ body'[t] = body[t]
               \/ body[t] = "setup" /\ body'[t] = "test"
               \/ body[t] = "teardown" /\ body'[t] = "done"
    BY <1>1, <1>4 DEF NoHook, HookEnds, WorkTypeOK
  <1> QED
    BY <1>2, <1>3, <1>4 DEF SeqStep

LEMMA SeqHosts ==
  ASSUME SeqStep
  PROVE  UNCHANGED <<gil, py, device, label, log, wire, runs, clean, inScope, objects>>
BY DEF SeqStep, PyClient, PyLevelling, MainInRun, PyWorker, NoHook, busVars, hostVars

\* A step that changes no label and no script.
LEMMA LabelKept ==
  ASSUME IInv, LabelInv, [Next]_vars, UNCHANGED <<py, label>>,
         \A t \in Names : body[t] = "test" => body'[t] = "test"
  PROVE  LabelInv'
  <1>1. ASSUME NEW t \in Names, py[t].at # "begin"
        PROVE  body'[t] = "test" /\ levels' = levels
    BY <1>1, TestIsLive, SuiteKept DEF LabelInv, Labelled
  <1>2. ASSUME levels' = levels, NEW t, NEW u PROVE Together(t, u)' = Together(t, u)
    BY <1>2 DEF Together, Rank, Width
  <1>3. Labelled'
    <2> SUFFICES ASSUME NEW t \in Names, py[t].at # "begin"
                 PROVE  /\ body'[t] = "test"
                        /\ t \in Labelling => label \in Names /\ Together(t, label)'
      BY DEF Labelled
    <2>1. body'[t] = "test" /\ levels' = levels
      BY <1>1
    <2>2. Together(t, label)' = Together(t, label')
      BY <1>2, <2>1
    <2> QED
      BY <2>1, <2>2 DEF LabelInv, Labelled
  <1> QED
    BY <1>3 DEF LabelInv, PyFresh

LEMMA SetTestLabels ==
  ASSUME IInv, Aligned, PyTypeOK, LabelInv, NEW u \in Names, SetTest(u)
  PROVE  LabelInv'
  <1>1. /\ body[u] = "test" /\ py' = [py EXCEPT ![u] = [py[u] EXCEPT !.at = "script"]]
        /\ label' = IF u \in Labelling THEN u ELSE label
        /\ UNCHANGED vars
    BY DEF SetTest, Runs
  <1>2. body' = body /\ levels' = levels
    BY <1>1 DEF vars, sVars, levelVars, workVars
  <1>3. [py[u] EXCEPT !.at = "script"].at = "script" /\ py \in [Names -> PyState]
    BY DEF PyTypeOK, PyState
  <1>4. py'[u].at = "script" /\ \A t \in Names : t # u => py'[t] = py[t]
    BY <1>1, <1>3
  <1>5. \A t, v : Together(t, v)' = Together(t, v)
    BY <1>2 DEF Together, Rank, Width
  <1>6. ASSUME NEW t \in Names, py'[t].at # "begin", t \in Labelling
        PROVE  label' \in Names /\ Together(t, label')
    <2>1. body[t] = "test"
      BY <1>1, <1>4, <1>6 DEF LabelInv, Labelled
    <2>2. Together(t, u)
      BY <1>1, <2>1, TestIsLive, LiveTogether
    <2>3. CASE u \in Labelling
      BY <1>1, <2>2, <2>3
    <2>4. CASE u \notin Labelling
      BY <1>1, <1>4, <1>6, <2>4 DEF LabelInv, Labelled
    <2> QED
      BY <2>3, <2>4
  <1>7. \A t \in Names : py'[t].at # "begin" => body'[t] = "test"
    BY <1>1, <1>2, <1>4 DEF LabelInv, Labelled
  <1>8. Labelled'
    BY <1>5, <1>6, <1>7 DEF Labelled
  <1>9. PyFresh'
    BY <1>4 DEF LabelInv, PyFresh
  <1> QED
    BY <1>8, <1>9 DEF LabelInv

LEMMA ScriptLabels ==
  ASSUME IInv, PyTypeOK, LabelInv, NEW u \in Names, Touch(u) \/ Record(u) \/ ScriptEnds(u)
  PROVE  LabelInv'
  <1>1. /\ py[u].at # "begin" /\ label' = label /\ levels' = levels
        /\ py \in [Names -> PyState] /\ body \in [Names -> Stages \cup {"none", "wedged", "done"}]
    <2>1. py[u].at \in {"script", "call"} /\ label' = label
      BY DEF Touch, Touches, Record, ScriptEnds, busVars
    <2>2. levels' = levels
      BY DEF Touch, Touches, Record, ScriptEnds, HookEnds, vars, sVars, levelVars
    <2> QED
      BY <2>1, <2>2 DEF PyTypeOK, IInv, TypeOK, WorkTypeOK
  <1>2. \A t, v : Together(t, v)' = Together(t, v)
    BY <1>1 DEF Together, Rank, Width
  <1>3. \A t \in Names : t # u => py'[t] = py[t] /\ body'[t] = body[t]
    BY <1>1 DEF Touch, Touches, Record, ScriptEnds, HookEnds, vars, workVars
  <1>4. CASE Touch(u) \/ Record(u)
    <2>1. body' = body /\ py'[u].at # "begin"
      <3>1. CASE Touch(u)
        BY <1>1, <3>1 DEF Touch, Touches, vars, workVars
      <3>2. CASE Record(u)
        <4>1. py' = [py EXCEPT ![u] = [py[u] EXCEPT !.at = "script"]]
              /\ [py[u] EXCEPT !.at = "script"].at = "script"
          BY <1>1, <3>2 DEF Record, PyState
        <4> QED
          BY <1>1, <3>2, <4>1 DEF Record, vars, workVars
      <3> QED
        BY <1>4, <3>1, <3>2
    <2> QED
      BY <1>1, <1>2, <1>3, <2>1 DEF LabelInv, Labelled, PyFresh
  <1>5. CASE ScriptEnds(u)
    <2>1. py'[u] = NoPy /\ NoPy.at = "begin"
      BY <1>1, <1>5 DEF ScriptEnds, NoPy
    <2> QED
      BY <1>1, <1>2, <1>3, <2>1 DEF LabelInv, Labelled, PyFresh
  <1> QED
    BY <1>4, <1>5

LEMMA LabelStep ==
  ASSUME IInv, Aligned, PyTypeOK, LabelInv, [PyNext]_pyVars
  PROVE  LabelInv'
  <1>1. [Next]_vars
    BY PyStepIsStep
  <1>2. CASE SeqStep
    <2>1. \A t \in Names : body[t] = "test" => body'[t] = "test"
      BY <1>2, SeqBodies
    <2> QED
      BY <1>1, <1>2, <2>1, SeqHosts, LabelKept
  <1>3. ASSUME UNCHANGED <<vars, py, label>> PROVE LabelInv'
    <2>1. body' = body
      BY <1>3 DEF vars, workVars
    <2> QED
      BY <1>1, <1>3, <2>1, LabelKept
  <1>4. CASE DeviceReset \/ LogClear \/ LeaveScope \/ RunHandsBack \/ UNCHANGED pyVars
    BY <1>3, <1>4 DEF DeviceReset, LogClear, LeaveScope, RunHandsBack, pyVars, busVars
  <1>5. CASE PyBeginRun
    <2>1. py' = [t \in Names |-> NoPy] /\ NoPy.at = "begin"
      BY <1>5 DEF PyBeginRun, Each, NoPy
    <2> QED
      BY <2>1 DEF LabelInv, Labelled, PyFresh
  <1>6. ASSUME NEW t \in Names, TakeGil(t) PROVE LabelInv'
    BY <1>3, <1>6 DEF TakeGil, busVars
  <1> QED
    BY <1>2, <1>4, <1>5, <1>6, SetTestLabels, ScriptLabels DEF PyNext, Machine, PyBody, SeqStep

LEMMA LabelInit == PyInit => LabelInv
BY DEF PyInit, Each, NoPy, LabelInv, Labelled, PyFresh

LEMMA PyLabelInv == PySpec => [](LabelInv /\ PyTypeOK)
  <1>1. GilInv => PyTypeOK
    BY DEF GilInv
  <1> QED
    BY <1>1, LabelInit, LabelStep, GilInit, GilStep, PythonRunsSequencer, SpecIInv,
       AlignedInvariant, PTL DEF PySpec

\* set_test is one label for all tests: an access made after a test named
\* itself is filed under a test of its own batch, whatever the interpreter
\* does between two calls.
THEOREM PyLabelsAreOfTheBatch == PySpec => []LabelOfBatch
  <1>1. LabelInv => LabelOfBatch
    <2>1. Unlabelled \notin Names
      BY NotNames DEF Unlabelled, Free
    <2> QED
      BY <2>1 DEF LabelInv, Labelled, LabelOfBatch, Calling
  <1> QED
    BY <1>1, PyLabelInv, PTL

------------------------------------------------------------------------------
(* Nobody waits for the lock's holder *)

LEMMA GilHolderStep ==
  ASSUME IInv, PyTypeOK, GilHolderGoesOn, [PyNext]_pyVars
  PROVE  GilHolderGoesOn'
  <1>1. Main \notin Names /\ Free \notin Names /\ Main # Free
    BY NotNames DEF Main, Free, EmptyName
  <1>2. SuiteTypeOK /\ body \in [Names -> Stages \cup {"none", "wedged", "done"}]
    BY DEF IInv, TypeOK, WorkTypeOK
  <1>3. CASE SeqStep
    <2>1. gil' = gil
      BY <1>3, SeqHosts
    <2>2. gil \in Names => body'[gil] = "test"
      BY <1>3, SeqBodies DEF GilHolderGoesOn
    <2>3. gil = Main => main' = "idle" \/ (main' = "levels" /\ after' = "idle")
      <3> SUFFICES ASSUME gil = Main, main = "idle" \/ (main = "levels" /\ after = "idle")
                   PROVE  main' = "idle" \/ (main' = "levels" /\ after' = "idle")
        BY DEF GilHolderGoesOn
      <3>1. CASE PyClient
        BY <3>1 DEF PyClient, ClientCall, Client, Add, AddRejected, CallLevels, levelVars
      <3>2. CASE PyLevelling
        BY <3>2 DEF PyLevelling, Levelling, LevelsStep, Round, RejectCycle, LevelsReturn
      <3>3. ASSUME NEW t \in Names, PyWorker(t) \/ NoHook(t)
            PROVE  main' = main /\ after' = after
        BY <3>3 DEF PyWorker, PyFinish, ReadCounter, StartBody, StartBodyFails, TimesOut, Finish,
                    ReturnResult, NoHook, HookEnds, sVars
      <3> QED
        BY <1>3, <3>1, <3>2, <3>3 DEF SeqStep, MainInRun
    <2> QED
      BY <2>1, <2>2, <2>3 DEF GilHolderGoesOn
  <1>4. ASSUME UNCHANGED <<vars, gil>> PROVE GilHolderGoesOn'
    BY <1>4 DEF GilHolderGoesOn, vars, sVars, workVars
  <1>5. CASE DeviceReset \/ LogClear \/ LeaveScope \/ UNCHANGED pyVars
    BY <1>4, <1>5 DEF DeviceReset, LogClear, LeaveScope, pyVars, busVars
  <1>6. CASE PyBeginRun
    BY <1>1, <1>6 DEF PyBeginRun, GilHolderGoesOn
  <1>7. CASE RunHandsBack
    BY <1>1, <1>7 DEF RunHandsBack, GilHolderGoesOn, vars, sVars
  <1>8. ASSUME NEW t \in Names, TakeGil(t) \/ SetTest(t) \/ Touch(t) \/ Record(t)
        PROVE  GilHolderGoesOn'
    <2>1. gil' \in {t, Free} /\ body' = body /\ body[t] = "test"
      BY <1>8 DEF TakeGil, SetTest, Touch, Touches, Record, MayYield, Runs, vars, workVars
    <2> QED
      BY <1>1, <2>1 DEF GilHolderGoesOn
  <1>9. ASSUME NEW t \in Names, ScriptEnds(t) PROVE GilHolderGoesOn'
    BY <1>1, <1>9 DEF ScriptEnds, GilHolderGoesOn
  <1> QED
    BY <1>3, <1>5, <1>6, <1>7, <1>8, <1>9 DEF PyNext, Machine, PyBody, SeqStep

\* run() gives the GIL up before it waits, and no body keeps it: the thread others
\* wait for is never one that waits for them (gil_scoped_release, bindings.cpp).
THEOREM PyGilHolderGoesOn == PySpec => []GilHolderGoesOn
  <1>1. PyInit => GilHolderGoesOn
    BY NotNames DEF PyInit, Init, SuiteInit, GilHolderGoesOn
  <1>2. GilInv => PyTypeOK
    BY DEF GilInv
  <1> QED
    BY <1>1, <1>2, GilHolderStep, GilInit, GilStep, PythonRunsSequencer, SpecIInv, PTL
      DEF PySpec

------------------------------------------------------------------------------
(* Lifetimes *)

Needed == {"bus", "device", "log"}

\* A suite with a test has all the test needs, and so does a suite that may yet
\* get one.
KeptAlive == inScope \/ Registered # {} => Needed \subseteq objects

LEMMA KeptAliveStep == KeptAlive /\ [PyNext]_pyVars => KeptAlive'
  <1> SUFFICES ASSUME KeptAlive, [PyNext]_pyVars PROVE KeptAlive'
    OBVIOUS
  <1> USE DEF hostVars, sVars
  <1>1. CASE LeaveScope
    <2>1. declared' = declared /\ inScope /\ ~ inScope'
      BY <1>1 DEF LeaveScope, vars
    <2>2. Registered # {} => Needed \subseteq objects'
      BY <1>1 DEF LeaveScope, Keeps, Needed
    <2> QED
      BY <2>1, <2>2 DEF KeptAlive, Registered
  <1>2. CASE PyClient
    BY <1>2 DEF PyClient, KeptAlive, Registered
  <1>3. CASE ~ PyClient /\ ~ LeaveScope
    <2>1. UNCHANGED <<objects, inScope>>
      BY <1>3 DEF PyNext, Machine, PyBody, DeviceReset, LogClear, PyBeginRun, PyLevelling,
                  MainInRun, RunHandsBack, PyWorker, NoHook, TakeGil, SetTest, Touch, Touches,
                  Record, ScriptEnds, pyVars
    <2>2. declared' = declared
      <3>1. CASE PyLevelling \/ MainInRun
        BY <3>1 DEF PyLevelling, MainInRun, Levelling, LevelsStep, Round, RejectCycle,
                    LevelsReturn, RunStep, NextLevel, StartBatch, LaunchFails, Unwind, Return,
                    Launch, Collect, CollectThrows, suiteVars
      <3>2. CASE PyBeginRun
        BY <3>2 DEF PyBeginRun, BeginRun, CallLevels, suiteVars
      <3>3. ASSUME NEW t \in Names, PyWorker(t) \/ NoHook(t) \/ ScriptEnds(t)
            PROVE  declared' = declared
        BY <3>3 DEF PyWorker, PyFinish, ReadCounter, StartBody, StartBodyFails, TimesOut,
                    Finish, ReturnResult, NoHook, ScriptEnds, HookEnds
      <3>4. ASSUME UNCHANGED vars PROVE declared' = declared
        BY <3>4 DEF vars
      <3> QED
        BY <1>3, <3>1, <3>2, <3>3, <3>4
        DEF PyNext, Machine, PyBody, DeviceReset, LogClear, RunHandsBack, TakeGil, SetTest,
            Touch, Touches, Record, pyVars
    <2> QED
      BY <2>1, <2>2 DEF KeptAlive, Registered
  <1> QED
    BY <1>1, <1>2, <1>3

\* keep_alive and the closures: no body outlives what it drives, in whatever
\* order the names are dropped.
THEOREM PyNothingDangles == PySpec => []NoDanglingAccess
  <1>1. PyInit => KeptAlive
    BY DEF PyInit, KeptAlive, Needed
  <1>2. KeptAlive /\ IInv => NoDanglingAccess
    <2> SUFFICES ASSUME KeptAlive, IInv, NEW t \in Names, body[t] = "test"
                 PROVE  Needed \subseteq objects
      BY DEF NoDanglingAccess, Needed
    <2>1. t \in Registered
      BY DEF IInv, WorkerAndBody, InStep
    <2> QED
      BY <2>1 DEF KeptAlive
  <1> QED
    BY <1>1, <1>2, KeptAliveStep, PythonRunsSequencer, SpecIInv, PTL DEF PySpec

------------------------------------------------------------------------------
(* A transfer takes no longer than its latency *)

\* A transfer under way on d ends within n more accesses.
Due(d, n) ==
  IF d.ticks < d.doneAt THEN d.doneAt <= d.ticks + n
  ELSE IF d.ticks + 1 < TickMod THEN 1 <= n ELSE d.doneAt + 1 <= n

\* STATUS tells whether a transfer is under way, and one that is ends in time.
Timely(d) ==
  /\ d \in Device /\ d.latency = Latency
  /\ d.running => d.storage["STATUS"] = {BUSY} /\ Due(d, Latency)
  /\ ~ d.running => IDLE \in d.storage["STATUS"] /\ BUSY \notin d.storage["STATUS"]

LEMMA ModSum ==
  ASSUME NEW m \in Nat \ {0}, NEW t \in 0..(m - 1), NEW l \in 0..(m - 1)
  PROVE  (t + l) % m = IF t + l < m THEN t + l ELSE t + l - m
OBVIOUS

\* The clock may wrap between the start of a transfer and its end: it then ends
\* early, or in time, but never late.
LEMMA DueStart ==
  ASSUME NEW t \in 0..(TickMod - 1), NEW l \in 1..(TickMod - 1), NEW d,
         d.ticks = t, d.doneAt = (t + l) % TickMod
  PROVE  Due(d, l)
  <1>1. TickMod \in Nat \ {0}
    BY TickAssumption
  <1> DEFINE a == (t + l) % TickMod
  <1>2. a = IF t + l < TickMod THEN t + l ELSE t + l - TickMod
    <2>1. t \in 0..(TickMod - 1) /\ l \in 0..(TickMod - 1)
      BY <1>1
    <2>2. (t + l) % TickMod = IF t + l < TickMod THEN t + l ELSE t + l - TickMod
      BY ONLY <1>1, <2>1, ModSum
    <2> QED
      BY <2>2
  <1>3. /\ d.ticks < d.doneAt <=> t < a
        /\ d.doneAt <= d.ticks + l <=> a <= t + l
        /\ d.ticks + 1 < TickMod <=> t + 1 < TickMod
        /\ d.doneAt + 1 <= l <=> a + 1 <= l
    OBVIOUS
  <1> HIDE DEF a
  <1>4. IF t < a THEN a <= t + l ELSE IF t + 1 < TickMod THEN 1 <= l ELSE a + 1 <= l
    BY <1>1, <1>2
  <1> QED
    BY <1>3, <1>4 DEF Due

LEMMA DueTick ==
  ASSUME NEW d \in Device, d.running, NEW n \in Nat, Due(d, n), Tick(d).running
  PROVE  1 < n /\ Due(Tick(d), n - 1)
  <1> DEFINE later == [d EXCEPT !.ticks = (@ + 1) % TickMod]
             t == d.ticks
             a == d.doneAt
             s == (t + 1) % TickMod
  <1>1. TickMod \in Nat \ {0} /\ t \in 0..(TickMod - 1) /\ a \in 0..(TickMod - 1)
    BY TickAssumption DEF Device
  <1>2. later.ticks = s /\ later.doneAt = a
    BY DEF Device
  <1>3. ~ (s >= a) /\ Tick(d) = later
    <2>1. ~ Complete(later).running
      BY DEF Complete, Device
    <2>2. Tick(d) = later
      BY <2>1 DEF Tick
    <2> QED
      BY <1>2, <2>1, <2>2 DEF Tick
  <1>4. s = IF t + 1 < TickMod THEN t + 1 ELSE 0
    BY <1>1, ModSuccessor
  <1>5. IF t < a THEN a <= t + n ELSE IF t + 1 < TickMod THEN 1 <= n ELSE a + 1 <= n
    BY DEF Due
  <1> HIDE DEF later, t, a, s
  <1>6. 1 < n /\ s < a /\ a <= s + (n - 1)
    BY <1>1, <1>3, <1>4, <1>5
  <1> QED
    BY <1>2, <1>3, <1>6 DEF Due

LEMMA TickTimely ==
  ASSUME NEW d, Timely(d)
  PROVE  /\ Timely(Tick(d))
         /\ ~ d.running => ~ Tick(d).running /\ Tick(d).storage = d.storage
         /\ d.running /\ ~ Tick(d).running => DONE \in Tick(d).storage["STATUS"]
  <1> DEFINE later == [d EXCEPT !.ticks = (@ + 1) % TickMod]
  <1>1. d \in Device /\ Tick(d) \in Device
    BY TickTyped DEF Timely
  <1>2. later.storage = d.storage /\ later.running = d.running /\ later.latency = d.latency
    BY <1>1 DEF Device
  <1>3. CASE d.running /\ later.ticks >= d.doneAt
    <2> DEFINE status == {IDLE, DONE} \cup BeatsField(d.storage["XFER_LEN"])
    <2>1. Tick(d) = Complete(later)
      BY <1>3 DEF Tick
    <2>2. /\ ~ Complete(later).running /\ Complete(later).latency = d.latency
          /\ Complete(later).storage["STATUS"] = status
      <3>1. later \in [storage : [Registers -> SUBSET Bits], ticks : {later.ticks},
                       latency : Nat, doneAt : 0..(TickMod - 1), running : BOOLEAN]
        BY <1>1 DEF Device
      <3>2. "STATUS" \in Registers /\ "IRQ_STATUS" \in Registers
        BY DEF Registers, DmaRegisters
      <3> HIDE DEF later
      <3> QED
        BY <1>2, <3>1, <3>2 DEF Complete
    <2>3. IDLE \in status /\ DONE \in status /\ BUSY \notin status
      BY DEF BeatsField, IDLE, DONE, BUSY
    <2> QED
      BY <1>1, <1>3, <2>1, <2>2, <2>3 DEF Timely
  <1>4. CASE ~ (d.running /\ later.ticks >= d.doneAt)
    <2>1. Tick(d) = later
      BY <1>4 DEF Tick
    <2>2. d.running => Due(Tick(d), Latency)
      <3> SUFFICES ASSUME d.running PROVE Due(Tick(d), Latency)
        OBVIOUS
      <3>1. Latency \in Nat /\ Tick(d).running /\ Due(d, Latency)
        BY <1>2, <2>1, PollAssumption DEF Timely
      <3>2. 1 < Latency /\ Due(Tick(d), Latency - 1)
        BY <1>1, <3>1, DueTick
      <3>3. Tick(d).ticks \in Nat /\ Tick(d).doneAt \in Nat /\ TickMod \in Nat
        BY <1>1, TickAssumption DEF Device
      <3> HIDE DEF later
      <3> QED
        BY <3>1, <3>2, <3>3 DEF Due
    <2> HIDE DEF later
    <2> QED
      BY <1>1, <1>2, <2>1, <2>2 DEF Timely
  <1> QED
    BY <1>3, <1>4

LEMMA StartWordGoes == GO \in StartWord
BY DEF StartWord, Setter, ShiftUp, Mask, Fields, Field, Bits, GO

\* Writing CTRL with GO leaves a transfer under way.
LEMMA StartTimely ==
  ASSUME 0 < Latency, NEW d, Timely(d)
  PROVE  Timely(Write(d, "CTRL", StartWord)) /\ Write(d, "CTRL", StartWord).running
  <1> DEFINE e == Tick(d)
             f == Store(e, "CTRL", StartWord)
  <1>1. Timely(e) /\ e \in Device
    BY TickTimely DEF Timely
  <1>2. /\ f \in Device /\ f.storage["STATUS"] = e.storage["STATUS"] /\ f.running = e.running
        /\ f.ticks = e.ticks /\ f.doneAt = e.doneAt /\ f.latency = e.latency
    <2>1. StartWord \in SUBSET Bits /\ "CTRL" \in Registers /\ "STATUS" \in Registers
      BY StartWordTyped DEF Registers, DmaRegisters
    <2> HIDE DEF e
    <2> QED
      BY <1>1, <2>1 DEF Store, Device
  <1>3. Timely(f)
    BY <1>1, <1>2 DEF Timely, Due
  <1>4. Write(d, "CTRL", StartWord) = StartTransfer(f, "CTRL", StartWord)
    BY DEF Write, TrainLink
  <1> HIDE DEF e, f
  <1> DEFINE g == [f EXCEPT !.running = TRUE, !.doneAt = (f.ticks + f.latency) % TickMod,
                            !.storage["STATUS"] = {BUSY}]
  <1>5. Write(d, "CTRL", StartWord) = IF f.running THEN f ELSE g
    BY <1>4, StartWordGoes DEF StartTransfer
  <1>6. ASSUME ~ f.running PROVE Timely(g) /\ g.running
    <2> DEFINE due == (f.ticks + f.latency) % TickMod
    <2>1. f.latency = Latency /\ Latency \in 1..(TickMod - 1) /\ f.ticks \in 0..(TickMod - 1)
      BY <1>3, PollAssumption, TickAssumption DEF Timely, Device
    <2>2. due \in 0..(TickMod - 1)
      BY <2>1, TickAssumption
    <2>3. {BUSY} \in SUBSET Bits /\ "STATUS" \in Registers
      BY DEF BUSY, Bits, Registers, DmaRegisters
    <2>4. due = (f.ticks + Latency) % TickMod
      BY <2>1
    <2> HIDE DEF due
    <2>5. g = [f EXCEPT !.running = TRUE, !.doneAt = due, !.storage["STATUS"] = {BUSY}]
      BY DEF due
    <2> HIDE DEF g
    <2>6. /\ g \in Device /\ g.running /\ g.storage["STATUS"] = {BUSY}
          /\ g.ticks = f.ticks /\ g.latency = f.latency /\ g.doneAt = due
      BY <1>2, <2>2, <2>3, <2>5 DEF Device
    <2>7. Due(g, Latency)
      BY <2>1, <2>4, <2>6, DueStart
    <2> QED
      BY <2>1, <2>6, <2>7 DEF Timely
  <1> QED
    BY <1>3, <1>5, <1>6

LEMMA StatusFields ==
  ASSUME NEW w
  PROVE  /\ Get(w, "IDLE") = {0} <=> IDLE \in w
         /\ Get(w, "BUSY") = {0} <=> BUSY \in w
         /\ Get(w, "DONE") = {0} <=> DONE \in w
         /\ Get(w, "DONE") = {} <=> DONE \notin w
  <1>1. \A lo \in 0..2 : \A S : S = {b - lo : b \in w \cap lo..lo} =>
          (S = {0} <=> lo \in w) /\ (S = {} <=> lo \notin w)
    <2> SUFFICES ASSUME NEW lo \in 0..2, NEW S, S = {b - lo : b \in w \cap lo..lo}
                 PROVE  (S = {0} <=> lo \in w) /\ (S = {} <=> lo \notin w)
      OBVIOUS
    <2>1. lo..lo = {lo} /\ lo - lo = 0
      OBVIOUS
    <2>2. CASE lo \in w
      <3>1. w \cap lo..lo = {lo}
        BY <2>1, <2>2
      <3>2. S = {0}
        BY <2>1, <3>1
      <3> QED
        BY <2>2, <3>2
    <2>3. CASE lo \notin w
      <3>1. w \cap lo..lo = {}
        BY <2>1, <2>3
      <3>2. S = {}
        BY <3>1
      <3> QED
        BY <2>3, <3>2
    <2> QED
      BY <2>2, <2>3
  <1>2. /\ Fields["STATUS"]["IDLE"] = Field(0, 0, "RO")
        /\ Fields["STATUS"]["BUSY"] = Field(1, 1, "RO")
        /\ Fields["STATUS"]["DONE"] = Field(2, 2, "RO")
    BY DEF Fields
  <1>3. /\ Get(w, "IDLE") = {b - 0 : b \in w \cap 0..0}
        /\ Get(w, "BUSY") = {b - 1 : b \in w \cap 1..1}
        /\ Get(w, "DONE") = {b - 2 : b \in w \cap 2..2}
    BY <1>2 DEF Get, Getter, Mask, Field
  <1> QED
    BY <1>1, <1>3 DEF IDLE, BUSY, DONE

------------------------------------------------------------------------------
(* The bring-up suite *)

\* A suite with one test of the script.
OneOf(script) == \A t, u \in Names : Script[t] = script /\ Script[u] = script => t = u

\* One look at the reset values, one transfer, which takes some time.  With no
\* latency at all a transfer started at the last tick before the clock wraps
\* would be waited for until the clock is at that tick again.
OneBringUp == 0 < Latency /\ OneOf("reset_values") /\ OneOf("start_transfer")

\* From the call of run() to its return.
InRun == main \in {"run", "unwind"} \/ (main = "levels" /\ after = "run")

\* The transfer of this run was started.
Touched(s) == py[s].accesses > 0 \/ body[s] \in {"teardown", "done"}
Started == \E s \in Names : Script[s] = "start_transfer" /\ Touched(s)

\* What reset_values saw is an engine at rest.
SawRest(t) == py[t].accesses > 0 => IDLE \in py[t].status /\ BUSY \notin py[t].status

\* A wait that goes on has polls left for the transfer to end in; one that saw
\* DONE saw it of a transfer that is over, and so did one that has ended.
Waits(t) ==
  /\ body[t] = "test" /\ device.running =>
       py[t].accesses < Latency /\ Due(device, Latency - py[t].accesses)
  /\ IF DONE \in py[t].status THEN BUSY \notin py[t].status /\ ~ device.running
     ELSE py[t].accesses < Latency
  /\ body[t] \in {"teardown", "done"} => ~ device.running

BringUp ==
  /\ \A t \in Names : exn[t] = "none"
  /\ device.running => Started
  /\ Started /\ ~ device.running => DONE \in device.storage["STATUS"]
  /\ \A t \in Names : Script[t] = "reset_values" => SawRest(t)
  /\ \A t \in Names : Script[t] = "wait_for_done" => Waits(t)

Enough == Chained /\ clean /\ Latency <= Polls

BringInv == Timely(device) /\ (InRun /\ Enough => BringUp)

LEMMA InRunKept ==
  ASSUME SuiteTypeOK, [PyNext]_pyVars, InRun', ~ PyBeginRun
  PROVE  InRun /\ (Enough' <=> Enough)
  <1>1. InRun /\ UNCHANGED <<declared, dependsOn, clean>>
    <2>1. CASE PyClient
      BY <2>1 DEF PyClient, ClientCall, Client, Add, AddRejected, CallLevels, InRun
    <2>2. CASE PyLevelling \/ MainInRun
      <3>1. clean' = clean
        BY <2>2 DEF PyLevelling, MainInRun, hostVars
      <3>2. CASE Levelling
        BY <3>1, <3>2 DEF Levelling, LevelsStep, Round, RejectCycle, LevelsReturn, InRun,
                          suiteVars, SuiteTypeOK
      <3>3. CASE RunStep
        BY <3>1, <3>3 DEF RunStep, NextLevel, StartBatch, LaunchFails, Unwind, Return, Launch,
                          Collect, CollectThrows, InRun, sVars, suiteVars
      <3> QED
        BY <2>2, <3>2, <3>3 DEF PyLevelling, MainInRun
    <2>3. ASSUME NEW t \in Names, PyWorker(t) \/ NoHook(t) \/ ScriptEnds(t)
          PROVE  InRun /\ UNCHANGED <<declared, dependsOn, clean>>
      BY <2>3 DEF PyWorker, PyFinish, ReadCounter, StartBody, StartBodyFails, TimesOut, Finish,
                  ReturnResult, NoHook, ScriptEnds, HookEnds, InRun, sVars, suiteVars, hostVars
    <2>4. ASSUME UNCHANGED <<vars, clean>> PROVE InRun /\ UNCHANGED <<declared, dependsOn, clean>>
      BY <2>4 DEF InRun, vars, sVars, suiteVars
    <2>5. CASE ~ (PyClient \/ PyLevelling \/ MainInRun \/ \E t \in Names :
                  PyWorker(t) \/ NoHook(t) \/ ScriptEnds(t))
      <3>1. UNCHANGED <<vars, clean>>
        BY <2>5 DEF PyNext, Machine, PyBody, DeviceReset, LogClear, LeaveScope, RunHandsBack,
                    TakeGil, SetTest, Touch, Touches, Record, pyVars, hostVars
      <3> QED
        BY <2>4, <3>1
    <2> QED
      BY <2>1, <2>2, <2>3, <2>5
  <1> QED
    BY <1>1 DEF Enough, Chained, Registered

\* The device is in time whatever is done to it.
LEMMA ResetTimely == ASSUME NEW d, Timely(d) PROVE Timely(ResetDevice(d))
  <1>1. d \in Device /\ ResetDevice(d) \in Device
    BY ResetTyped DEF Timely
  <1>2. /\ ~ ResetDevice(d).running /\ ResetDevice(d).latency = d.latency
        /\ ResetDevice(d).storage["STATUS"] = {0}
    BY <1>1 DEF ResetDevice, Device, ResetWord, Registers, DmaRegisters
  <1> QED
    BY <1>1, <1>2 DEF Timely, IDLE, BUSY

LEMMA TimelyStep ==
  ASSUME 0 < Latency, Timely(device), [PyNext]_pyVars
  PROVE  Timely(device)'
  <1>1. CASE DeviceReset
    BY <1>1, ResetTimely DEF DeviceReset
  <1>2. ASSUME NEW t \in Names, Touch(t) PROVE Timely(device)'
    <2>1. device' = Write(device, "CTRL", StartWord) \/ device' = Tick(device)
      BY <1>2 DEF Touch, Touches, Read
    <2> QED
      BY <2>1, StartTimely, TickTimely
  <1>3. CASE ~ DeviceReset /\ ~ \E t \in Names : Touch(t)
    <2>1. device' = device
      BY <1>3 DEF PyNext, Machine, PyBody, PyClient, LogClear, LeaveScope, PyBeginRun,
                  PyLevelling, MainInRun, RunHandsBack, PyWorker, NoHook, TakeGil, SetTest,
                  Record, ScriptEnds, pyVars, busVars
    <2> QED
      BY <2>1
  <1> QED
    BY <1>1, <1>2, <1>3

LEMMA TimelyInit == PyInit => Timely(device)
  <1> SUFFICES ASSUME PyInit PROVE Timely(device)
    OBVIOUS
  <1>1. PowerOn \in Device /\ Latency \in Nat
    BY PowerOnTyped, PollAssumption
  <1>2. device = [PowerOn EXCEPT !.latency = Latency]
    BY DEF PyInit
  <1>3. device \in Device /\ device.latency = Latency /\ device.running = PowerOn.running
        /\ device.storage = PowerOn.storage
    BY <1>1, <1>2 DEF Device
  <1>4. ~ PowerOn.running /\ PowerOn.storage["STATUS"] = {0}
    BY DEF PowerOn, ResetWord, Registers, DmaRegisters
  <1> QED
    BY <1>3, <1>4 DEF Timely, IDLE, BUSY

\* What the chain of dependencies says of a body that has begun.
LEMMA ChainOrder ==
  ASSUME IInv, Chained, NEW t \in Names, body[t] # "none"
  PROVE  /\ Script[t] = "start_transfer" =>
              \E d \in Names : Script[d] = "reset_values" /\ body[d] = "done"
         /\ Script[t] = "wait_for_done" =>
              \E d \in Names : Script[d] = "start_transfer" /\ body[d] = "done"
  <1>1. worker[t] # "none" /\ t \in Registered
    BY DEF IInv, WorkerAndBody, InStep
  <1>2. dependsOn[t] \subseteq Names /\ \A d \in dependsOn[t] : body[d] = "done"
    BY <1>1 DEF IInv, DependenciesFinished, TypeOK, SuiteTypeOK
  <1> QED
    BY <1>1, <1>2 DEF Chained

\* A body that has made an access is in its script.
LEMMA AccessInTest ==
  ASSUME LabelInv, NEW t \in Names, body[t] # "test"
  PROVE  py[t] = NoPy /\ py[t].accesses = 0 /\ py[t].status = {}
BY DEF LabelInv, Labelled, PyFresh, NoPy

\* A step that changes neither device nor exceptions, nor what a body did so far.
LEMMA QuietKeeps ==
  ASSUME 0 < Latency, LabelInv, Timely(device), BringUp,
         UNCHANGED <<device, exn>>,
         \A t \in Names : py'[t].accesses = py[t].accesses /\ py'[t].status = py[t].status,
         \A t \in Names : \/ body'[t] = body[t]
                          \/ body[t] = "none" /\ body'[t] = "setup"
                          \/ body[t] = "setup" /\ body'[t] = "test"
                          \/ body[t] = "teardown" /\ body'[t] = "done"
  PROVE  BringUp'
  <1>1. \A t \in Names : Touched(t)' <=> Touched(t)
    BY DEF Touched
  <1>2. Started' <=> Started
    BY <1>1 DEF Started
  <1>3. \A t \in Names : SawRest(t) => SawRest(t)'
    BY DEF SawRest
  <1>4. ASSUME NEW t \in Names, Waits(t) PROVE Waits(t)'
    <2>1. CASE body[t] = "setup" /\ body'[t] = "test"
      <3>1. py'[t].accesses = 0 /\ py'[t].status = {}
        BY <2>1, AccessInTest
      <3>2. device.running => Due(device, Latency - 0)
        BY PollAssumption DEF Timely
      <3> QED
        BY <2>1, <3>1, <3>2 DEF Waits
    <2>2. CASE ~ (body[t] = "setup" /\ body'[t] = "test")
      <3>1. /\ body'[t] = "test" => body[t] = "test"
            /\ body'[t] \in {"teardown", "done"} => body[t] \in {"teardown", "done"}
        BY <2>2
      <3> QED
        BY <1>4, <3>1 DEF Waits
    <2> QED
      BY <2>1, <2>2
  <1> QED
    BY <1>2, <1>3, <1>4 DEF BringUp

\* Time that passes on the bus: an access of a test that does not start anything.
LEMMA DueLonger ==
  ASSUME NEW d \in Device, NEW m \in Nat, NEW n \in Nat, m <= n, Due(d, m)
  PROVE  Due(d, n)
  <1>1. d.ticks \in Nat /\ d.doneAt \in Nat /\ TickMod \in Nat
    BY TickAssumption DEF Device
  <1> QED
    BY <1>1 DEF Due

LEMMA TickKeeps ==
  ASSUME 0 < Latency, PyTypeOK, LabelInv, Timely(device), BringUp, NEW x \in Names,
         body[x] = "test", body' = body, exn' = exn, device' = Tick(device),
         \A t \in Names : t # x => py'[t] = py[t],
         py'[x].accesses = py[x].accesses + 1,
         py'[x].status = device'.storage["STATUS"],
         Script[x] = "reset_values" => ~ device.running,
         Script[x] = "wait_for_done" => Started,
         Script[x] # "start_transfer"
  PROVE  BringUp'
  <1>1. /\ Timely(device) /\ Timely(device') /\ device \in Device
        /\ ~ device.running => ~ device'.running /\ device'.storage = device.storage
        /\ device.running /\ ~ device'.running => DONE \in device'.storage["STATUS"]
    BY TickTimely DEF Timely
  <1>2. /\ device'.running => device'.storage["STATUS"] = {BUSY}
        /\ ~ device'.running => IDLE \in device'.storage["STATUS"]
                                /\ BUSY \notin device'.storage["STATUS"]
    BY <1>1 DEF Timely
  <1>3. \A t \in Names : py[t].accesses \in Nat
    BY DEF PyTypeOK, PyState
  <1>4. Started' <=> Started
    <2>1. \A t \in Names : Script[t] = "start_transfer" => (Touched(t)' <=> Touched(t))
      BY DEF Touched
    <2> QED
      BY <2>1 DEF Started
  <1>5. device'.running => Started'
    BY <1>1, <1>4 DEF BringUp
  <1>6. Started' /\ ~ device'.running => DONE \in device'.storage["STATUS"]
    BY <1>1, <1>4 DEF BringUp
  <1>7. ASSUME NEW t \in Names, Script[t] = "reset_values" PROVE SawRest(t)'
    <2>1. CASE t = x
      BY <1>1, <1>2, <1>7, <2>1 DEF SawRest
    <2>2. CASE t # x
      BY <1>7, <2>2 DEF SawRest, BringUp
    <2> QED
      BY <2>1, <2>2
  <1>8. ASSUME NEW t \in Names, Script[t] = "wait_for_done" PROVE Waits(t)'
    <2> DEFINE n == py[t].accesses
    <2>1. Waits(t) /\ n \in Nat /\ Latency \in Nat
      BY <1>3, <1>8, PollAssumption DEF BringUp
    <2>2. ASSUME body[t] = "test", device'.running
          PROVE  n + 1 < Latency /\ Due(device', Latency - (n + 1))
      <3>1. device.running /\ n < Latency /\ Due(device, Latency - n)
        BY <1>1, <2>1, <2>2 DEF Waits
      <3>2. Latency - n \in Nat
        BY <2>1, <3>1
      <3>3. 1 < Latency - n /\ Due(device', (Latency - n) - 1)
        BY <1>1, <2>2, <3>1, <3>2, DueTick
      <3>4. n + 1 < Latency /\ (Latency - n) - 1 = Latency - (n + 1)
        BY <2>1, <3>3
      <3> QED
        BY <3>3, <3>4
    <2>3. CASE t = x
      <3>1. py'[t].accesses = n + 1 /\ py'[t].status = device'.storage["STATUS"]
        BY <2>3
      <3>2. body'[t] = "test" /\ body[t] = "test"
        BY <2>3
      <3>3. CASE device'.running
        <4>1. DONE \notin py'[t].status
          BY <1>2, <3>1, <3>3 DEF BUSY, DONE
        <4> QED
          BY <2>2, <3>1, <3>2, <3>3, <4>1 DEF Waits
      <3>4. CASE ~ device'.running
        <4>1. DONE \in py'[t].status /\ BUSY \notin py'[t].status
          BY <1>2, <1>4, <1>6, <1>8, <2>3, <3>1, <3>4
        <4> QED
          BY <3>2, <3>4, <4>1 DEF Waits
      <3> QED
        BY <3>3, <3>4
    <2>4. CASE t # x
      <3>1. py'[t] = py[t] /\ body'[t] = body[t]
        BY <2>4
      <3>2. ASSUME body[t] = "test", device'.running
            PROVE  n < Latency /\ Due(device', Latency - n)
        <4>1. n + 1 < Latency /\ Due(device', Latency - (n + 1))
          BY <2>2, <3>2
        <4>2. Latency - (n + 1) \in Nat /\ Latency - n \in Nat /\ Latency - (n + 1) <= Latency - n
              /\ n < Latency
          BY <2>1, <4>1
        <4>3. device' \in Device
          BY <1>1 DEF Timely
        <4> QED
          BY <4>1, <4>2, <4>3, DueLonger
      <3>3. IF DONE \in py[t].status THEN BUSY \notin py[t].status /\ ~ device'.running
            ELSE n < Latency
        BY <1>1, <2>1 DEF Waits
      <3>4. body[t] \in {"teardown", "done"} => ~ device'.running
        BY <1>1, <2>1 DEF Waits
      <3> QED
        BY <3>1, <3>2, <3>3, <3>4 DEF Waits
    <2> QED
      BY <2>3, <2>4
  <1>9. \A t \in Names : exn'[t] = "none"
    BY DEF BringUp
  <1> QED
    BY <1>5, <1>6, <1>7, <1>8, <1>9 DEF BringUp

\* start_transfer comes to an engine at rest, with nobody waiting yet.
LEMMA StartKeeps ==
  ASSUME OneBringUp, IInv, PyTypeOK, LabelInv, Timely(device), Chained, BringUp,
         NEW x \in Names, Script[x] = "start_transfer", body[x] = "test",
         py[x].accesses = 0, body' = body, exn' = exn,
         device' = Write(device, "CTRL", StartWord),
         \A t \in Names : t # x => py'[t] = py[t],
         py'[x].accesses = 1
  PROVE  BringUp'
  <1>1. Timely(device') /\ device'.running
    BY StartTimely DEF OneBringUp
  <1>2. \A t \in Names : Script[t] = "start_transfer" => t = x
    BY DEF OneBringUp, OneOf
  <1>3. Started'
    BY DEF Started, Touched
  <1>4. ASSUME NEW t \in Names, Script[t] = "wait_for_done" PROVE Waits(t)'
    <2>1. body[t] \in {"none", "setup", "wedged"}
      <3>1. body[t] \in Stages \cup {"none", "wedged", "done"}
        BY DEF IInv, TypeOK, WorkTypeOK
      <3>2. ~ \E d \in Names : Script[d] = "start_transfer" /\ body[d] = "done"
        BY <1>2
      <3>3. body[t] = "none"
        BY <1>4, <3>2, ChainOrder
      <3> QED
        BY <3>3
    <2>2. py'[t] = py[t] /\ py[t].accesses = 0 /\ py[t].status = {} /\ body'[t] = body[t]
      BY <1>4, <2>1, AccessInTest
    <2> QED
      BY <2>1, <2>2 DEF Waits, OneBringUp
  <1>5. ASSUME NEW t \in Names, Script[t] = "reset_values" PROVE SawRest(t)'
    <2>1. py'[t] = py[t]
      BY <1>5
    <2> QED
      BY <1>5, <2>1 DEF SawRest, BringUp
  <1> QED
    BY <1>1, <1>3, <1>4, <1>5 DEF BringUp

LEMMA TouchKeeps ==
  ASSUME OneBringUp, IInv, PyTypeOK, LabelInv, Timely(device), Chained, BringUp,
         NEW x \in Names, Touch(x)
  PROVE  BringUp'
  <1>1. /\ body[x] = "test" /\ body' = body /\ exn' = exn /\ Wants(x)
        /\ \A t \in Names : t # x => py'[t] = py[t]
        /\ py'[x].accesses = py[x].accesses + 1
        /\ Script[x] # "start_transfer" => py'[x].status = device'.storage["STATUS"]
        /\ device' = IF Script[x] = "start_transfer" THEN Write(device, "CTRL", StartWord)
                     ELSE Tick(device)
    BY DEF Touch, Touches, Runs, Read, vars, workVars, PyTypeOK
  <1>2. CASE Script[x] = "start_transfer"
    <2>1. py[x].accesses = 0
      BY <1>1, <1>2 DEF Wants
    <2> QED
      BY <1>1, <1>2, <2>1, StartKeeps
  <1>3. CASE Script[x] = "reset_values"
    <2>1. ~ device.running
      <3> SUFFICES ASSUME Started PROVE FALSE
        BY DEF BringUp
      <3>1. PICK s \in Names : Script[s] = "start_transfer" /\ Touched(s)
        BY DEF Started
      <3>2. body[s] # "none"
        BY <3>1, AccessInTest DEF Touched
      <3>3. PICK d \in Names : Script[d] = "reset_values" /\ body[d] = "done"
        BY <3>1, <3>2, ChainOrder
      <3> QED
        BY <1>1, <1>3, <3>3 DEF OneBringUp, OneOf
    <2> QED
      BY <1>1, <1>3, <2>1, TickKeeps DEF OneBringUp
  <1>4. CASE Script[x] = "wait_for_done"
    <2>1. Started
      <3>1. PICK d \in Names : Script[d] = "start_transfer" /\ body[d] = "done"
        BY <1>1, <1>4, ChainOrder
      <3> QED
        BY <3>1 DEF Started, Touched
    <2> QED
      BY <1>1, <1>4, <2>1, TickKeeps DEF OneBringUp
  <1> QED
    BY <1>2, <1>3, <1>4, ScriptAssumption DEF Scripts

\* The assertions hold, and the teardown begins.
LEMMA EndKeeps ==
  ASSUME OneBringUp, PyTypeOK, LabelInv, IInv, Timely(device), BringUp, Latency <= Polls,
         NEW x \in Names, ScriptEnds(x)
  PROVE  BringUp'
  <1>1. /\ body[x] = "test" /\ ~ Wants(x) /\ device' = device
        /\ exn' = IF Verdict(x) = "none" THEN exn ELSE [exn EXCEPT ![x] = Verdict(x)]
        /\ body' = [body EXCEPT ![x] = "teardown"] /\ py' = [py EXCEPT ![x] = NoPy]
    BY DEF ScriptEnds, Runs, HookEnds, busVars
  <1>2. /\ body'[x] = "teardown" /\ py'[x].accesses = 0 /\ py'[x].status = {}
        /\ \A t \in Names : t # x => body'[t] = body[t] /\ py'[t] = py[t]
    BY <1>1 DEF PyTypeOK, IInv, TypeOK, WorkTypeOK, NoPy
  <1>3. py[x].accesses \in Nat /\ Latency \in Nat /\ Polls \in Nat
    BY PollAssumption DEF PyTypeOK, PyState
  <1>4. Script[x] # "wait_for_done" => py[x].accesses > 0
    BY <1>1, <1>3 DEF Wants
  <1>5. Script[x] = "wait_for_done" =>
          DONE \in py[x].status /\ BUSY \notin py[x].status /\ ~ device.running
    <2> SUFFICES ASSUME Script[x] = "wait_for_done", DONE \notin py[x].status PROVE FALSE
      BY DEF BringUp, Waits
    <2>1. py[x].accesses < Latency
      BY DEF BringUp, Waits
    <2>2. Get(py[x].status, "DONE") = {}
      BY StatusFields
    <2> QED
      BY <1>1, <1>3, <2>1, <2>2 DEF Wants
  <1>6. Verdict(x) = "none"
    <2>1. CASE Script[x] = "reset_values"
      <3>1. IDLE \in py[x].status /\ BUSY \notin py[x].status
        BY <1>4, <2>1 DEF BringUp, SawRest
      <3> QED
        BY <2>1, <3>1, StatusFields DEF Verdict
    <2>2. CASE Script[x] = "start_transfer"
      BY <2>2 DEF Verdict
    <2>3. CASE Script[x] = "wait_for_done"
      BY <1>5, <2>3, StatusFields DEF Verdict
    <2> QED
      BY <2>1, <2>2, <2>3, ScriptAssumption DEF Scripts
  <1>7. Started' <=> Started
    <2>1. \A t \in Names : Script[t] = "start_transfer" => (Touched(t)' <=> Touched(t))
      BY <1>2, <1>4 DEF Touched
    <2> QED
      BY <2>1 DEF Started
  <1>8. ASSUME NEW t \in Names, Script[t] = "reset_values" PROVE SawRest(t)'
    <2>1. CASE t = x
      BY <1>2, <2>1 DEF SawRest
    <2>2. CASE t # x
      BY <1>2, <1>8, <2>2 DEF SawRest, BringUp
    <2> QED
      BY <2>1, <2>2
  <1>9. ASSUME NEW t \in Names, Script[t] = "wait_for_done" PROVE Waits(t)'
    <2>1. CASE t = x
      BY <1>1, <1>2, <1>5, <1>9, <2>1 DEF Waits, OneBringUp
    <2>2. CASE t # x
      BY <1>1, <1>2, <1>9, <2>2 DEF Waits, BringUp
    <2> QED
      BY <2>1, <2>2
  <1> QED
    BY <1>1, <1>6, <1>7, <1>8, <1>9 DEF BringUp

\* run() begins with an engine at rest, or makes no promise.
LEMMA BeginKeeps ==
  ASSUME OneBringUp, PyBeginRun, clean'
  PROVE  BringUp'
  <1>1. ~ device'.running
    BY DEF PyBeginRun, busVars
  <1>2. \A t \in Names : /\ exn'[t] = "none" /\ body'[t] = "none"
                         /\ py'[t].accesses = 0 /\ py'[t].status = {}
    BY DEF PyBeginRun, BeginRun, Each, NoPy
  <1>3. ~ Started'
    BY <1>2 DEF Started, Touched
  <1>4. \A t \in Names : SawRest(t)' /\ Waits(t)'
    BY <1>1, <1>2 DEF SawRest, Waits, OneBringUp
  <1> QED
    BY <1>1, <1>2, <1>3, <1>4 DEF BringUp

LEMMA SeqStepExn == ASSUME SeqStep PROVE exn' = exn
  <1>1. CASE PyClient \/ PyLevelling \/ MainInRun
    BY <1>1 DEF PyClient, ClientCall, PyLevelling, Levelling, MainInRun, workVars,
                RunStep, NextLevel, StartBatch, LaunchFails, Unwind, Return, Launch, Collect,
                CollectThrows
  <1>2. ASSUME NEW x \in Names, PyWorker(x) \/ NoHook(x) PROVE exn' = exn
    BY <1>2 DEF PyWorker, PyFinish, ReadCounter, StartBody, StartBodyFails, TimesOut, Finish,
                ReturnResult, NoHook, HookEnds
  <1> QED
    BY <1>1, <1>2 DEF SeqStep

LEMMA BringStep ==
  ASSUME OneBringUp, IInv, PyTypeOK, LabelInv, BringInv, [PyNext]_pyVars
  PROVE  BringInv'
  <1>1. Timely(device)'
    BY TimelyStep DEF BringInv, OneBringUp
  <1> SUFFICES ASSUME InRun', Enough' PROVE BringUp'
    BY <1>1 DEF BringInv
  <1>2. CASE PyBeginRun
    BY <1>2, BeginKeeps DEF Enough
  <1>3. CASE ~ PyBeginRun
    <2>1. Enough /\ BringUp /\ Timely(device)
      BY <1>3, InRunKept DEF BringInv, IInv, TypeOK
    <2>2. ASSUME UNCHANGED <<device, exn, py, body>> PROVE BringUp'
      BY <2>1, <2>2, QuietKeeps DEF OneBringUp
    <2>3. CASE SeqStep
      <3>1. UNCHANGED <<device, exn, py>>
        BY <2>3, SeqHosts, SeqStepExn
          DEF SeqStep, PyClient, PyLevelling, MainInRun, PyWorker, NoHook, busVars
      <3>2. \A t \in Names : \/ body'[t] = body[t]
                             \/ body[t] = "none" /\ body'[t] = "setup"
                             \/ body[t] = "setup" /\ body'[t] = "test"
                             \/ body[t] = "teardown" /\ body'[t] = "done"
        BY <2>3, SeqBodies
      <3> QED
        BY <2>1, <3>1, <3>2, QuietKeeps DEF OneBringUp
    <2>4. CASE DeviceReset
      BY <1>3, <2>4, InRunKept DEF DeviceReset, InPython, InRun, IInv, TypeOK
    <2>5. CASE LogClear \/ LeaveScope \/ RunHandsBack \/ UNCHANGED pyVars
      BY <2>2, <2>5 DEF LogClear, LeaveScope, RunHandsBack, pyVars, busVars, vars, workVars
    <2>6. ASSUME NEW x \in Names, TakeGil(x) \/ SetTest(x) \/ Record(x)
          PROVE  BringUp'
      <3>1. UNCHANGED <<device, exn, body>>
        BY <2>6 DEF TakeGil, SetTest, Record, busVars, vars, workVars
      <3>2. \A t \in Names : py'[t].accesses = py[t].accesses /\ py'[t].status = py[t].status
        <4>1. py' = py \/ py' = [py EXCEPT ![x] = [py[x] EXCEPT !.at = "script"]]
          BY <2>6 DEF TakeGil, SetTest, Record
        <4>2. /\ [py[x] EXCEPT !.at = "script"].accesses = py[x].accesses
              /\ [py[x] EXCEPT !.at = "script"].status = py[x].status
              /\ py \in [Names -> PyState]
          BY DEF PyTypeOK, PyState
        <4> QED
          BY <4>1, <4>2
      <3> QED
        BY <2>1, <3>1, <3>2, QuietKeeps DEF OneBringUp
    <2>7. ASSUME NEW x \in Names, Touch(x) PROVE BringUp'
      BY <2>1, <2>7, TouchKeeps DEF Enough
    <2>8. ASSUME NEW x \in Names, ScriptEnds(x) PROVE BringUp'
      BY <2>1, <2>8, EndKeeps DEF Enough
    <2> QED
      BY <1>3, <2>3, <2>4, <2>5, <2>6, <2>7, <2>8 DEF PyNext, Machine, PyBody, SeqStep
  <1> QED
    BY <1>2, <1>3

\* With one look at the reset values and one transfer, on any threads and in
\* any run: a chained suite on an engine at rest that answers within the polls
\* passes or times out but never fails, and a wait_for_done that has a result
\* has seen the transfer of its own run end.
THEOREM BringUpIsRight == ASSUME OneBringUp PROVE PySpec => []BringUpVerdicts
  <1>1. PyInit => BringInv
    BY TimelyInit DEF BringInv, InRun, PyInit, Init, SuiteInit
  <1>2. BringInv /\ IInv /\ Recorded => BringUpVerdicts
    <2> SUFFICES ASSUME BringInv, IInv, Recorded, main = "run", Enough,
                        NEW t \in Names, outcome[t] # NoResult
                 PROVE  /\ outcome[t].status \in {"Pass", "Timeout"}
                        /\ Script[t] = "wait_for_done" => ~ device.running
      BY DEF BringUpVerdicts, Enough
    <2>1. BringUp
      BY DEF BringInv, InRun
    <2>2. worker[t] = "returned" /\ outcome[t].status \in {"Timeout", StatusOf("none")}
      BY <2>1 DEF BringUp, Recorded, ResultRecord
    <2>3. body[t] = "done"
      BY <2>2 DEF IInv, WorkerAndBody, InStep
    <2> QED
      BY <2>1, <2>2, <2>3 DEF StatusOf, BringUp, Waits
  <1> QED
    BY <1>1, <1>2, BringStep, PyLabelInv, PythonRunsSequencer, SpecIInv, RecordedInvariant, PTL
      DEF PySpec
==============================================================================
