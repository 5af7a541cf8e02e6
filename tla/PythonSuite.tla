------------------------------ MODULE PythonSuite ------------------------------
(***************************************************************************)
(* A suite written in Python (src/python/examples/dma_bringup.py) on the   *)
(* bindings (src/python/bindings.cpp): the sequencer runs Python bodies,   *)
(* which drive one device through one logged transport.                    *)
(*                                                                         *)
(* Nothing below the bindings takes a lock but the log.  What orders the   *)
(* accesses of tests that run together is the interpreter lock (GIL): a    *)
(* bound method holds it from its call to its return, but for run(), which *)
(* gives it up; the interpreter may hand it on between two calls.          *)
(*                                                                         *)
(* Every test has a Python body, one of the three of the example, and no   *)
(* setup or teardown, which the bindings do not offer.                     *)
(***************************************************************************)
EXTENDS Sequencer, RegFields

CONSTANTS
  Script,     \* Script[t]: the body of test t
  Latency,    \* the argument of set_transfer_latency
  Polls,      \* how often wait_for_done polls
  Labelling,  \* the tests that begin with bus.set_test(their name)
  MaxRuns     \* bound: how often main calls run()

Scripts == {"reset_values", "start_transfer", "wait_for_done"}

ASSUME ScriptAssumption == Script \in [Names -> Scripts] /\ Labelling \subseteq Names
ASSUME PollAssumption == Latency \in 0..(TickMod - 1) /\ Polls \in Nat /\ MaxRuns \in Nat
ASSUME AssertAssumption == "std" \in Exceptions

VARIABLES
  gil,      \* who holds the GIL: "main", a test whose body does, or nobody
  py,       \* py[t]: how far the body of t is in its script
  device,   \* the EmulatedDevice
  label,    \* test_ of the LoggedTransport
  log,      \* records_, each with who made the access and its place on the bus (history)
  wire,     \* the accesses that reached the device since the log was cleared (history)
  objects,  \* the C++ objects that live
  inScope,  \* the names device, log and bus are still in scope
  runs,     \* the calls of run() so far (bound)
  clean     \* the engine was at rest when the last run() began (history)

busVars == <<device, label, log, wire>>
hostVars == <<objects, inScope, runs, clean>>
pyVars == <<vars, gil, py, busVars, hostVars>>

Free == EmptyName  \* not the name of a test
Main == -1

Unlabelled == EmptyName
NoPy == [at |-> "begin", accesses |-> 0, status |-> {}, nth |-> 0]

------------------------------------------------------------------------------
(* main: a Python program that is not in run() holds the GIL *)

PyInit ==
  /\ Init
  /\ gil = Main /\ py = Each(NoPy)
  /\ device = [PowerOn EXCEPT !.latency = Latency]
  /\ label = Unlabelled /\ log = <<>> /\ wire = 0
  /\ objects = {"device", "log", "bus", "seq"} /\ inScope = TRUE
  /\ runs = 0 /\ clean = TRUE

InPython == main = "idle" /\ gil = Main

\* Bound: main adds its tests before the first run() and in the order of their names.
Prepares ==
  /\ runs = 0
  /\ \A t \in Registered' \ Registered : \A u \in Registered : u < t

\* add() while there is a bus for the body to close over; levels().
PyClient ==
  /\ InPython
  /\ ClientCall /\ Prepares /\ (declared' # declared => inScope)
  /\ UNCHANGED <<gil, py, busVars, hostVars>>

PyLevelling == gil = Main /\ Levelling /\ UNCHANGED <<gil, py, busVars, hostVars>>

DeviceReset ==
  /\ InPython /\ inScope
  /\ device' = ResetDevice(device)
  /\ UNCHANGED <<vars, gil, py, label, log, wire, hostVars>>

LogClear ==
  /\ InPython /\ inScope
  /\ log' = <<>> /\ wire' = 0
  /\ UNCHANGED <<vars, gil, py, device, label, hostVars>>

\* A slip: keep_alive for the log only.
KeepsLogOnly == [bus |-> {"log"}, seq |-> IF Registered = {} THEN {} ELSE {"bus"},
                 device |-> {}, log |-> {}]

\* Who keeps whom alive: keep_alive<1, 2> and <1, 3> of LoggedTransport, and the
\* bodies the sequencer holds close over the bus.
Keeps == [bus |-> {"device", "log"}, seq |-> IF Registered = {} THEN {} ELSE {"bus"},
          device |-> {}, log |-> {}]

\* The function that made everything returns the sequencer.
LeaveScope ==
  /\ InPython /\ inScope
  /\ inScope' = FALSE
  /\ objects' = {"seq"} \cup Keeps["seq"] \cup UNION {Keeps[o] : o \in Keeps["seq"]}
  /\ UNCHANGED <<vars, gil, py, busVars, runs, clean>>

\* A slip: no call_guard on run().
RunKeepingGil ==
  /\ InPython /\ runs < MaxRuns
  /\ BeginRun
  /\ runs' = runs + 1
  /\ clean' = ~ device.running /\ py' = Each(NoPy)
  /\ UNCHANGED <<gil, busVars, objects, inScope>>

\* run() gives the GIL up before anything else.
PyBeginRun ==
  /\ InPython /\ runs < MaxRuns
  /\ BeginRun
  /\ gil' = Free
  /\ runs' = runs + 1
  /\ clean' = ~ device.running /\ py' = Each(NoPy)
  /\ UNCHANGED <<busVars, objects, inScope>>

\* The guard takes it back, whether run() returned or threw.
RunHandsBack ==
  /\ main = "idle" /\ gil = Free
  /\ gil' = Main
  /\ UNCHANGED <<vars, py, busVars, hostVars>>

MainInRun == (Levelling \/ RunStep) /\ gil # Main /\ UNCHANGED <<gil, py, busVars, hostVars>>

------------------------------------------------------------------------------
(* The workers: what() of a Python exception takes the GIL for a moment. *)

PyFinish(t) == (exn[t] # "none" => gil = Free) /\ Finish(t)

PyWorker(t) ==
  /\ \/ ReadCounter(t) \/ StartBody(t) \/ StartBodyFails(t) \/ TimesOut(t)
     \/ PyFinish(t)
  /\ UNCHANGED <<gil, py, busVars, hostVars>>

------------------------------------------------------------------------------
(* The bodies *)

NoHook(t) ==
  /\ \/ HookEnds(t, "setup", "none", "test")
     \/ HookEnds(t, "teardown", "none", "done")
  /\ UNCHANGED <<gil, py, busVars, hostVars>>

Runs(t) == body[t] = "test" /\ gil = t

\* The body of t begins, or goes on.
TakeGil(t) ==
  /\ body[t] = "test" /\ gil = Free
  /\ gil' = t
  /\ UNCHANGED <<vars, py, busVars, hostVars>>

\* Back in the interpreter, which may let another thread run.
MayYield(t) == gil' \in {t, Free}

SetTest(t) ==
  /\ Runs(t) /\ py[t].at = "begin"
  /\ label' = IF t \in Labelling THEN t ELSE label
  /\ py' = [py EXCEPT ![t].at = "script"]
  /\ MayYield(t)
  /\ UNCHANGED <<vars, device, log, wire, hostVars>>

Get(word, field) == Getter(word, Fields["STATUS"][field])

\* ctrl.go = 1, ctrl.burst_len = 8, ctrl.channel = 2
StartWord ==
  LET go == Setter({}, Fields["CTRL"].GO, {0})
      burstLen == Setter(go, Fields["CTRL"].BURST_LEN, {3})
  IN  Setter(burstLen, Fields["CTRL"].CHANNEL, {1})

Wants(t) ==
  IF Script[t] = "wait_for_done"
  THEN py[t].accesses < Polls /\ Get(py[t].status, "DONE") = {}
  ELSE py[t].accesses = 0

\* The first half of read32 or write32: the access of the device.
Touches(t) ==
  /\ Runs(t) /\ py[t].at = "script" /\ Wants(t)
  /\ device' = IF Script[t] = "start_transfer" THEN Write(device, "CTRL", StartWord)
               ELSE Read(device)
  /\ wire' = wire + 1
  /\ py' = [py EXCEPT ![t] =
       [at |-> "call", accesses |-> @.accesses + 1, nth |-> wire + 1,
        status |-> IF Script[t] = "start_transfer" THEN {} ELSE device'.storage["STATUS"]]]
  /\ UNCHANGED <<vars, label, log, hostVars>>

\* A slip: read32 and write32 give the GIL up around the access.
TouchUnlocked(t) == Touches(t) /\ MayYield(t)

Touch(t) == Touches(t) /\ UNCHANGED gil

\* A slip: the name is moved into the record.
RecordMovingLabel(t) ==
  /\ Runs(t) /\ py[t].at = "call"
  /\ log' = Append(log, [by |-> t, test |-> label, nth |-> py[t].nth])
  /\ label' = Unlabelled
  /\ py' = [py EXCEPT ![t].at = "script"]
  /\ MayYield(t)
  /\ UNCHANGED <<vars, device, wire, hostVars>>

\* The second half: the record.
Record(t) ==
  /\ Runs(t) /\ py[t].at = "call"
  /\ log' = Append(log, [by |-> t, test |-> label, nth |-> py[t].nth])
  /\ py' = [py EXCEPT ![t].at = "script"]
  /\ MayYield(t)
  /\ UNCHANGED <<vars, device, label, wire, hostVars>>

\* The assertions at the end of the scripts.
Verdict(t) ==
  LET is(field) == Get(py[t].status, field) = {0}
  IN  CASE Script[t] = "reset_values"   -> IF is("IDLE") /\ ~ is("BUSY") THEN "none" ELSE "std"
        [] Script[t] = "start_transfer" -> "none"
        [] Script[t] = "wait_for_done"  -> IF is("DONE") /\ ~ is("BUSY") THEN "none" ELSE "std"

ScriptEnds(t) ==
  /\ Runs(t) /\ py[t].at = "script" /\ ~ Wants(t)
  /\ HookEnds(t, "test", Verdict(t), "teardown")
  /\ gil' = Free /\ py' = [py EXCEPT ![t] = NoPy]
  /\ UNCHANGED <<busVars, hostVars>>

PyBody(t) == NoHook(t) \/ TakeGil(t) \/ SetTest(t) \/ Touch(t) \/ Record(t) \/ ScriptEnds(t)

------------------------------------------------------------------------------
\* What goes on by itself once main is in a call.
Machine ==
  \/ PyLevelling \/ MainInRun \/ RunHandsBack
  \/ \E t \in Names : PyWorker(t) \/ PyBody(t)

PyNext ==
  \/ PyClient \/ DeviceReset \/ LogClear \/ LeaveScope \/ PyBeginRun
  \/ Machine

PySpec == PyInit /\ [][PyNext]_pyVars

(* The program as a whole does not stop: some thread that can run does.  A
   thread that takes the GIL gets somewhere before it gives it up, so no
   fairness among the threads is needed. *)
FairPySpec == PySpec /\ WF_pyVars(Machine)

------------------------------------------------------------------------------
(* Properties *)

PyState ==
  [at : {"begin", "script", "call"}, accesses : Nat, status : SUBSET Bits, nth : Nat]

\* Everything stays in its type.
PyTypeOK ==
  /\ gil \in Names \cup {Main, Free}
  /\ py \in [Names -> PyState] /\ device \in Device
  /\ label \in Names \cup {Unlabelled}
  /\ log \in Seq([by : Names, test : Names \cup {Unlabelled}, nth : Nat])
  /\ wire \in Nat /\ runs \in 0..MaxRuns /\ clean \in BOOLEAN /\ inScope \in BOOLEAN
  /\ objects \subseteq {"device", "log", "bus", "seq"}

Calling == {t \in Names : py[t].at = "call"}

\* The log has the accesses of all tests in the order they had on the bus; at
\* most the last of them is yet to come.  The device, which takes no lock, has
\* one caller at a time.
LogIsBusOrder ==
  /\ \A i \in 1..Len(log) : log[i].nth = i
  /\ wire = Len(log) + Cardinality(Calling) /\ Cardinality(Calling) <= 1

\* Two tests that run() may run together: one level, one piece of Width.
Together(t, u) ==
  \E i \in 1..Len(levels) :
    {t, u} \subseteq levels[i] /\ Rank(t, levels[i]) \div Width = Rank(u, levels[i]) \div Width

\* A test that names itself first finds its accesses under its own name, or of
\* a test it may run together with: never of an earlier or a later one.
LabelOfBatch ==
  \A t \in Calling \cap Labelling : label # Unlabelled /\ Together(t, label)

\* The suite as the example writes it: the transfer is started after the reset
\* values were looked at, and waited for after it was started.
Chained ==
  /\ \A t \in Registered : Script[t] = "start_transfer" =>
       \E d \in dependsOn[t] : Script[d] = "reset_values"
  /\ \A t \in Registered : Script[t] = "wait_for_done" =>
       \E d \in dependsOn[t] : Script[d] = "start_transfer"

\* On a device at rest that answers in time the chained suite does not fail,
\* also the second time; and a wait_for_done that passed has seen this run's
\* transfer end, and not an earlier one's.
BringUpVerdicts ==
  main = "run" /\ Chained /\ clean /\ 0 < Polls /\ Latency <= Polls =>
    \A t \in Names : outcome[t] # NoResult =>
      /\ outcome[t].status \in {"Pass", "Timeout"}
      /\ Script[t] = "wait_for_done" => ~ device.running

\* A body never reaches for a transport, device or log that is gone, in
\* whatever order names are dropped and runs are made.
NoDanglingAccess ==
  \A t \in Names : body[t] = "test" => {"bus", "device", "log"} \subseteq objects

\* Whoever holds the GIL can go on and give it up: main is not in run(), where it
\* would wait for its workers, and a test is in its body, not in what RunOne does
\* after it, which waits for the body.
GilHolderGoesOn ==
  /\ gil = Main => main = "idle" \/ (main = "levels" /\ after = "idle")
  /\ gil \in Names => body[gil] = "test"

\* run() comes back to Python, with results or an exception: no thread waits
\* for the GIL while its holder waits for that thread.
PyRunReturns == (main # "idle") ~> InPython
==============================================================================
