# Formal models of the SoC validation framework

TLA+ modules for the C++ framework in `src/`, the TLC runs that check them on
small instances, and proofs of the main results for every instance. The modules
are translated from the code; the documentation was read only for what it
promises.

## 1. The system

| component | code | state | operations | interacts with |
|---|---|---|---|---|
| Sequencer, registration and levels | `src/src/sequencer.cpp` 32-88 | `tests_` | `Add`, `Levels` | called by the test binary and the Python bindings; `Run` calls `Levels` |
| Sequencer, execution | `src/src/sequencer.cpp` 92-187 | locals of `Run` and `RunOne`, futures, `AccessCounter()` | `Run`, `RunOne`, the hooks of a test | threads: the caller, one worker per test of a batch, one thread per body |
| Emulated device | `src/src/emulated_device.cpp` | `storage_`, `ticks_`, `latency_`, `dma_done_at_`, `dma_running_` | `Read32`, `Write32`, `ReadBlock`, `WriteBlock`, `Reset`, `set_transfer_latency` | the backing device of every transport |
| Register accessor | `src/include/soc/register.hpp` | none: a word in flight | `Read`, `Write`, `Modify`, `WriteOnly` | a transport |
| Transaction log | `src/src/txn_log.cpp` | `records_`, `test_` | `Record`, `Snapshot`, `Clear`, `WriteCsv`, the four logged accesses | decorates a transport; shared by threads under a mutex |
| Protocol transports | `src/include/soc/transports.hpp` | `simulated_ns_`, `accesses_` | the four accesses, `ResetCounters`, `MakeTransport` | forward to a backing transport |
| Mapped windows | `src/include/soc/transport.hpp` | an owned buffer | construction, moves, destruction, `at` | filled by `ReadBlock` |
| Register generator | `src/tools/generate_registers.py`, `src/regmaps/soc.yaml` | none | masks, getters, setters, `clear_X` | generates the types the accessor is used with |
| Python bindings | `src/python/bindings.cpp` | who holds the interpreter lock (GIL), who keeps whom alive | `add`, `levels`, `run`, `set_test`, the accesses | wrap everything above |
| Bring-up example | `src/python/examples/dma_bringup.py` | the locals of `main` | three tests on one device and one log | a user of the bindings |
| Analysis, benchmark, unit tests | `src/python/analyze_logs.py`, `src/benchmarks`, `src/tests` | | | users of the above |

What is hard, and what makes each component correct:

- **Levels.** A loop over a shrinking map that must end on every input and order
  every input that can be ordered. Correct: a test's level is its depth in the
  dependency graph; exactly the dangling and the cyclic suites are rejected, each
  as what it is.
- **Run/RunOne.** Three kinds of thread, a timeout that races the body's end,
  exceptions from three hooks, and thread launches that may fail with part of a
  batch started. Correct: nothing starts before its dependencies are over (also
  when they timed out), never more than `threads` tests at once, no thread
  outlives `Run`, one truthful result per test in declaration order.
- **Device.** Each access first lets a tick pass, which may end a transfer, and
  only then takes effect; some writes start transfers, some clear latches.
  Correct: STATUS agrees with the engine, a transfer takes the time asked for,
  an interrupt is lost to nothing but a written 1, polling makes progress.
- **Accessor.** A read-modify-write is two accesses with the device free to move
  in between.
- **Log.** The access and its record are separate steps, the second under a lock
  of its own; either may fail; meanwhile the log is cleared and written. Correct:
  the log tells what the buses did, with stamps that grow, and a file of it has no
  holes but calls that failed.
- **Mapped windows.** One owner per buffer on every path, the throwing ones too,
  and no length without its buffer.
- **Python suites.** Many threads, one interpreter lock, one device without any
  lock. Correct: the device has one caller at a time, `run()` never waits for a
  thread that waits for its lock, nothing is used after it is gone, a passed test
  has seen the transfer of its own run.

`PROJECT.json` lists the hazards of this code, each at its line, with the
properties that cover it or the reason none does.

## 2. Modules

```
SuiteLevels ............ Add, Levels                      MCSuiteLevels
   |  EXTENDS
Sequencer .............. Run, RunOne, bodies              MCSequencer
   |  INSTANCE (refines)
DependencyOrder ........ when tests may run

SocModel ............... what an access does to registers, DMA and clock
   |  EXTENDS
EmulatedDevice ......... the calls, blocks word by word
   |  INSTANCE (refines)
DmaEngine .............. what driver software may rely on

BlockAccess ............ what a block leaves behind       MCEmulatedDevice
   |  EXTENDS EmulatedDevice

RegisterAccessor ....... Modify, WriteOnly                MCRegisterAccessor
   |  EXTENDS EmulatedDevice and
RegFields .............. generated getters and setters

BusSession ............. DeviceHandle::Map over a log     MCBusSession
   |  EXTENDS MappedRegion (buffers and their owners) and
BusLog ................. access, bill, record, CSV file
   |  INSTANCE (refines)
AccessLog .............. what a reader of the log may rely on

PythonSuite ............ a Python program on all of it    MCPythonSuite
   |  EXTENDS Sequencer and RegFields (hence SocModel)

X_proof ................ theorems on X, for SuiteLevels, Sequencer,
                         EmulatedDevice (with BlockAccess),
                         RegisterAccessor, BusLog, BusSession (with MappedRegion), PythonSuite
FiniteSums ............. induction and sums over finite sets, for
                         the proofs about levels, counters and bills
```

Operators introduced by "A slip:" are deliberate mistakes next to the definition
they spoil (a dropped wait, an off-by-one chunk, a forgotten mask). No
specification uses them. They show that each property notices a mistake.

### SuiteLevels

A test name is a positive number; `<` stands for the order of `std::string`; 0 is
the empty name, which `Add` rejects. `tests_` is the sequence `declared` with the
function `dependsOn`. A level is the *set* of its names, because the vector in
the code is always sorted.

`Add` and `AddRejected` are the two outcomes of `Add`. `CallLevels` is the first
part of `Levels`, which rejects unknown dependencies (50-59); `Round` is one
iteration of its loop, `RejectCycle` the throw, `LevelsReturn` the return. The loop
is split so that a half-built result can be stated about (`LevelsOrdered`).
A rejection of `Add` leaves everything but `thrown` alone.

### Sequencer

| code | model |
|---|---|
| the calling thread in `Run` | `main`, `levelIndex`, `rest` (names of the level no chunk took), `batch` (`running`) |
| `RunOne(t)` on its worker | `worker[t]`: started, measured, waiting, overdue, returned or threw |
| the body's `std::async` | `body[t]`: setup, test, teardown, wedged, done; `exn[t]`: the stored exception |
| `AccessCounter()` | `counter`, modulo `CounterMod`, any place near the wrap at the start |
| `by_name`, the returned vector | `results`, `returned` |

Each step is one visible operation of one thread: read the counter, start a
thread, time out, end a hook, become ready, collect. `threads <= 1` is a batch of
one that needs no outer `std::async`: `LaunchFails` is then disabled, and what
`RunOne` throws comes out of `Run` directly.

- `LaunchFails` and `StartBodyFails` are `std::async` throwing for want of a
  thread. The exception leaves `Run` through the destructors of `running`, which
  wait for every launched worker (`Unwind`).
- `TimesOut` may happen whenever the body is not done: real time is abstracted to
  "before" and "after" the deadline. A body that ends between the time-out and the
  wait is still reported as a time-out, as in the code.
- `Finish` covers both ends of `RunOne`: `get()` on a ready future and `wait()`
  after a time-out (124).
- `Setup` that throws skips body and teardown; `TestBody` never skips teardown;
  `Teardown` that throws replaces the stored exception (the `throw;` at 111 is
  not reached).
- `Bump` is a hook that counts an access. Nothing under `src/src` does: the counter
  is for the bodies.
- A dependent starts after its dependency *ended*, whatever the verdict. The code
  has no skipping of dependents and the model has none.

History variables: `own` (accesses by each test) and `calls` (hooks that ended,
and how).

### DependencyOrder

Tests wait, run and finish; a test starts when what it needs has finished and
fewer than `Width` run; a restart waits until none runs. `Sequencer` maps to it
with `stage <- StageOf` (a projection of `body`), `needs <- dependsOn`.

### SocModel and EmulatedDevice

`SocModel` has the pure part, functions from a device to a device; `EmulatedDevice`
has the calls as actions, and `PythonSuite` makes calls of its own with the same
functions. A 32-bit word is the set of its 1 bits: `|` is union, `& ~` is difference, shifts
rename. `dev` is the object; `ResetWord`, `RoMask`, `W1cMask` are the policy
table. `Tick`, `Store`, `StartTransfer` and `TrainLink` are the parts of `Read32`
and `Write32`, composed in the order of the code. A block access is a sequence of
single accesses, one per step, and throws where the register map ends
(`BlockError`), its earlier words done. `DecodeError` is a call that throws at
once: no register at the first address, or a null buffer. The device has one
caller at a time: a block is not interrupted by another call.

`trip` is history: the latency in force when the running transfer was started,
how many accesses it has seen, and what the transfer that ended in the last
access took.

Two things the model makes visible. Bits 3 to 31 of IRQ_STATUS and ERR_STATUS
are plain storage in the emulator (they are in neither mask), although the map
names none of them; so "reserved bits stay clear" is claimed only for the
read-only registers. And XFER_LEN is sampled when a transfer *ends*.

### BlockAccess

`EmulatedDevice` with a history variable: `block` is the last block call and the
devices it went through, the one before it and one after each word. `CallBlock`,
`BlockWord` and `BlockThrows` are the block actions of `EmulatedDevice`, `OtherCall`
is every other call and forgets the block; `device` explores this module. `BlockIsItsWords` then says what the
loops at 111-127 promise: word *i* is one single access at `address + i*4`, ticks
and side effects included; a block that returns did all of its words, and one that
throws did exactly those before the first address without a register, which itself
counts no tick. So a block is neither all or nothing nor one tick. `Address` places
the two register ranges apart; their true bases are 0x40000000 and 0x50000000.

### DmaEngine

`idle`, `busy`, `done` and an interrupt. One access lets time pass, which may end
a transfer and raise the interrupt, and then starts a transfer, takes the
interrupt down or does neither.

### RegisterAccessor

| code | model |
|---|---|
| `Modify`, read at `register.hpp:49` | `ModifyReads`: one access; the word read is in `modify` |
| `Modify`, `mutate` and write at 50-51 | `ModifyWrites`: the edited word goes back in one access |
| `WriteOnly` | `WriteOnly`: the edit of the reset word, in one access |
| `Read`, `Write` | `Read32` and `Write32` of `EmulatedDevice` at the register's address |
| `mutate(reg)` | `Mutate`: one generated `set_X` or `clear_X` of `RegFields`, named by its field, with any value |

`Others` is every call of `EmulatedDevice`, also between the two accesses of a
`Modify`: another caller whose calls are whole, as on a bus. The `static_assert`
of `Write` is `WritableRegisters`.

History variables: `alone` (nobody else called since the read) and `report` (the
latches that were up when a call wrote and those it left, with what it had read). The
model shows one more trap: GO is never taken back by the device, so a `Modify` of
another field of CTRL after a transfer starts the next one. Nothing promises
otherwise, hence no property says so; it is in the hazards.

### RegFields

`Fields` is `regmaps/soc.yaml` without what has no effect (enums, descriptions,
offsets). `Getter`, `Setter` and `ClearField` are the three bodies that
`emit_field` prints, on words as sets of bits: `v << lo` renames bits and drops
those above 31. A `set_X` may be given a value wider than X.

### BusLog and AccessLog

| code | model |
|---|---|
| `MakeTransport(kind)` wrapped in a `LoggedTransport` | a link `l`, with `kind[l]`, `test[l]` |
| `simulated_ns_`, `accesses_` | `spent[l]`, `accesses[l]`; the quarters of the costs are whole nanoseconds, so doubles are exact |
| the inner call, from the bill to the device | `Access`, which may get through some of its words only and then throws |
| `Record` | `Lock`, `Stamp`, then `Push` or `PushFails` (`std::bad_alloc`) |
| `Clear`; `WriteCsv` | `Clear`; `Snapshot`, then `WriteFile` (all lines, or the first few on a full disk) or `OpenFails` |

A link has one caller at a time, since nothing below the log takes a lock;
several links share the log, and `Clear` and `WriteCsv` come from any thread. The
value of a read is the number of ticks of the device behind it, enough to tell
accesses apart. Each record carries, as history, its link and its number among
the calls of that link; `wire[l]` is the history of these calls and how each
ended: still under way, logged, logged and cleared, thrown by the bus, or done
but without a record for want of memory.

The log records calls that *returned*. `txn_log.hpp:1` calls it a log of "every
bus access"; a call that throws, or a block that fails half way, has no record,
which `LogMatchesBus` and `NoHolesInFile` state as it is.

`Cost` is both what `Bill` adds and what `EveryCallBilled` sums up: that property is about
when and how often a call is billed (once, also when it then fails), not about the
rates, which `Cost` takes from `transports.hpp` as they are.

`AccessLog` is the same without mutex, stamps under construction or file: a
finished access is appended whole and once, with a stamp no earlier than the one
before, or is lost. `Unlogged` maps a call in progress to the access it will
record; `Push` is `Record`, `PushFails` is `Lose`, `Lock` and `Stamp` stutter.

### MappedRegion and BusSession

An object lives in a slot; `heap` has the allocated addresses, which are used
again after `delete[]`, so that a stale pointer can meet a new owner. `Delete` is
every `delete[]`, and `corrupt` remembers one of an address that was not
allocated. `Allocate`, `FillReturns` and `FillThrows` are the constructor; the
handler rethrows, so the object never lives. `base_` moves as `data_` does and is
left out.

`BusSession` runs the constructor over a link: `MapBegins` allocates, `MapFills`
calls `ReadBlock`, and `MapEnds` returns or unwinds, whether the bus failed or
`Record` did after it. The caller of a link makes no other call while it maps.
`Worthwhile` bounds the coming and going of empty objects.

### PythonSuite

A Python program: `main` makes device, log, bus and sequencer, adds tests whose
bodies close over the bus, and calls `run()`; the bodies are those of the example.

| code | model |
|---|---|
| the GIL | `gil`: `main`, the test whose body has it, or nobody |
| `call_guard<gil_scoped_release>` (`bindings.cpp:102`) | `PyBeginRun` drops it, `RunHandsBack` takes it back; `add`, `levels` and all else keep it |
| pybind11's wrapper of a Python function | `TakeGil` before the body and `ScriptEnds` after it |
| the interpreter switching threads | `MayYield`, between two calls and never within one |
| `what()` of a Python exception, which takes the GIL | `PyFinish` |
| `bus.set_test`, `bus.read32`, `bus.write32` | `SetTest`; `Touch` (device) and `Record` (log), one call |
| `keep_alive<1,2>`, `<1,3>` and the closures | `Keeps`; `LeaveScope` drops every name but the sequencer's |

`Script` names the body of each test. The assertions of the bodies are `Verdict`.
The code in `Sequencer` is used as it stands: each step of `PythonSuite` is one of
`Sequencer` or leaves it alone. The example does not call `set_test`; `Labelling`
lists tests that do, to see what a label is worth. History: `wire` and the `nth`
of each record (place on the bus), `clean` (the engine was at rest when `run()`
was called).

`LabelOfBatch` is what a label can promise: the name is that of some test of the
same batch. It cannot be the test's own as soon as two run together.

## 3. Runs

| run | instance | question |
|---|---|---|
| `levels` | 3 names, every dependency set, every declaration order | is the level a test's depth; are exactly the bad suites rejected; does `Levels` end |
| `seq_parallel` | 3 tests, `Threads = 2`, one exception kind, test 2 may wedge | dependencies, cap, thread ownership, complete ordered results, refinement of `DependencyOrder`, return of `Run` |
| `seq_traffic` | 3 tests, `Threads = 2`, 1 access each, counter modulo 4 | what a parallel access count can contain |
| `seq_serial` | 2 tests, `Threads = 1`, both exception kinds, 1 access each | verdicts and exact access counts |
| `seq_wedge` (violation) | 2 tests, one may wedge | does a hang take the suite with it: it does |
| `seq_accesses` (violation) | 2 tests, `Threads = 2` | is a parallel access count the test's own: it is not |
| `device` | words below, latencies 0, 2, 3 and the initial 8, blocks of up to 2 | status, interrupts, transfer time, what a block leaves behind that runs off the register map and one that does not, refinement of `DmaEngine`, progress of polling |
| `device_latency` (violation) | latencies 2 and `TickMod - 1` | is a transfer ever early: it is, when the sum wraps |
| `accessor` | `set_GO`, `set_BURST_LEN` with a value that fits and one that does not, `set_ADDR` (32 bits), two `clear_X` of IRQ_STATUS, latency 2, other callers with blocks of 1 | which latches can an accessor call take down; is an undisturbed `Modify` atomic |
| `bus` | links a (SPI, labelled), b (emulated, single and block writes), c (JTAG, mappings); two slots, two addresses | does the log tell what happened; is every call billed; has every buffer one owner; refinement of `AccessLog`; does a mapping end |
| `python` | the three bodies of the example, `wait_for_done` also with looser dependencies, 2 threads, 2 runs, latency 2, 2 polls | is the log in bus order; whose are labels; verdicts of the chained suite; lifetimes; who holds the GIL; return of `run()` |
| `accessor_late` (violation) | the same without blocks | does a `Modify` lose a bit that latches after its read: it does not |

**Bounds.** Three tests with two threads are the least suite with a level larger
than a batch (tests 1, 2, 3 independent: batches {1, 2} and {3}), a diamond-like
wait (3 on 1 and 2) and a chain. `levels` needs no dependency restriction; in the
sequencer runs `DepLists` lets a test depend only on lower names, since rejected
suites never reach `Run`. Names are symmetric up to the order, which chunks use,
so no symmetry set is taken. `MaxAccesses` bounds `Bump`; `CounterMod` is 2^64
scaled to 4, larger than the accesses of a run, and the counter starts at 0 or just
below the wrap, so that it wraps within a test. In `device`, `TickMod = 32`
stands for 2^64; `MaxTicks = 4` bounds idle accesses and the start of transfers,
while a transfer or block that has begun always runs to its end, so that no tick
count near the wrap is reached except in `device_latency`. With start ticks up to
4 two short transfers follow each other, also within one access. `MaxBlock = 2`
lets a block start a transfer with its first word and, at latency 0, end it with
its second, clear an interrupt that rose at its first, and run off the end of
either range with its first word done; longer blocks repeat the same step, and the
theorem about them has no bound. The words
written (`MCInputs`) set and clear GO, try to forge STATUS and LINK_STATUS, clear the
interrupt or leave it, set a reserved bit, and give lengths that do and do not
fit BEATS. In
`accessor`, `MaxTicks = 5` lets a transfer begin before a `Modify` and end between
its two accesses; the others write another CTRL word, start a transfer and clear
the interrupt, so that a stale word is written back in every way.
In `bus` a behaviour picks one of four budgets of calls: two calls of a and one
of b, which contend for the mutex in every order; three calls of a, so that a
record can be lost *between* two that are kept; two mappings over c, with regions
moved and destroyed meanwhile; one mapping beside another caller of the log.
`MaxNow = 1` gives
two clock values, enough for a stamp out of order. Two slots and two addresses
let one buffer be freed and its address handed to the other object; size 0 is
the empty mapping. In `python`, `Prepares` lets `main` add tests only before the
first run and in the order of their names (other orders and rejected suites are
`levels`); the dependencies include the chain of the example and suites where
`start_transfer` and `wait_for_done` share a batch. `Latency = 2` and `Polls = 2`
stand for 6 and 50: the last poll is the one that sees DONE. Two runs let the DONE
of the first be seen by the second.

**Deadlock.** `seq_parallel` and `seq_wedge` do not check it: a wedged hook stops
the program for good. `python` does not: a program that has made its runs and
drops its names is at its end. All other runs check it; in `bus` a stuck mutex
would be a deadlock.

**Fairness.** `levels`: the thread inside `Levels` is scheduled. `seq_*`: weak
fairness of `main`, of every worker and of every hook: the operating system runs
every thread, and `wait_for` ends. A hook in `MayWedge` may wedge at any stage,
and a wedged hook has no step, so fairness does not save it. The caller is not
forced to call anything. `device`: the caller goes on polling STATUS and finishes
a block it began; nothing else is fair. `bus`: a thread inside a call is
scheduled (weak fairness), also one that waits for the mutex: of `std::mutex` nothing
is asked, since with the budgets of the run the others stop taking it; nobody has
to call. `python`: only that some thread that
can run does (weak fairness of `Machine` as a whole); which thread is next, and
whether the interpreter switches, is free.

**Disagreements found** (each a run whose property is what the text says):
a wedged body hangs the suite, against the comment at `sequencer.cpp:100` (the
comment at 121-123 admits it); parallel access counts contain the traffic of
other tests, against `sequencer.hpp:55` and the `README.md:218` of the
repository; a huge transfer latency wraps and completes at once, against
`emulated_device.hpp:34`; a status bit that latches between the read and the
write of a `Modify` survives, because what is written to it is the 0 that was
read, against `test_all.cpp:196` and `register.hpp:40` (lost is the bit that was
up *at* the read, which is what that test sets up).

## 4. Proofs

All theorems hold for every value of the constants that satisfies the named
assumptions: `Names` is a finite set of positive numbers and `DepLists` gives
subsets of it (`NamesAssumption`, `DepListsAssumption`), `Threads` is a natural
number (`ThreadsAssumption`), hooks throw only the two kinds
(`HookAssumption`), moduli are positive (`CounterAssumption`, `TimeAssumption`),
words are 32 bits wide (`InputsAssumption`), an edit names a field of its
register (`EditsAssumption`), a call of one word has one word
(`RequestsAssumption`), a link is made as one of the four kinds
(`KindsAssumption`), a script is one of the example's three, whose failing assertions are
`std::exception`s in C++ (`ScriptAssumption`, `AssertAssumption`), and its latency is
a tick count (`PollAssumption`). Five theorems assume more, which their entries
below explain: the two on counted accesses, the two on transfer times and `BringUpIsRight`.

- **FiniteSums** has no state. The library's induction theorems take a predicate
  as a parameter; `InductionOnNat` and `InductionOnSubsets` take a *set* instead
  ("a set of naturals with 0 and the successor of each of its members is `Nat`")
  and follow from the well-foundedness of inclusion on finite sets. With them
  `SumIsSum` shows that `SumFunctionOnSet(f, S)` is the sum it claims to be: the
  order in which the fold takes the members out does not matter (`SumCommutes`).
  `SumBump`, `SumMonotone`, `SumBound` and `SumAdd` are what the counters and bills need.
- **SuiteLevels_proof**: `SuiteTypeCorrect`, `LevelsAreOrdered`, `LevelsAreTheDepths`,
  `VerdictsAreRight`. `LevelsOrdered` is inductive as it stands: `pending` and `done`
  partition the suite and `done` is the union of the levels; a round moves to the
  next level only what needs nothing outside `done`. That levels are depths is not
  inductive: `LevelInv` adds that what is pending could not have been in an earlier
  level, i.e. each pending test has a dependency that was pending when the last level
  was built (`HeldBack`), and that no level is empty. A chain then grows by one
  test per level, and no test of level *i* heads a longer one. If nothing pending
  is ready, following pending dependencies never stops, which gives a chain
  longer than the suite (by induction on its length): a cycle. Conversely a suite whose tests all have a level has
  no chain longer than its levels, and these are not empty.
- **Sequencer_proof**: `TypeCorrect`, `DependenciesFirst`, `NoThreadLeaks`,
  `ParallelismBounded`, `SequencerImplementsOrder`. None of the last four is
  inductive. The invariant `IInv` adds: how a worker's stage and its body's stage go
  together (`WorkerAndBody`), that a test outside the batch has no live worker
  (`NoWorkerOutside`), that `Run` has taken nothing while it waits for `Levels`
  (`RunIsFresh`), and that the tests of earlier levels and of earlier batches have
  finished and those not yet taken have not begun (`Progress`). With `LevelsOrdered`
  a batch's dependencies lie in earlier levels, hence are finished. The cap follows
  from `ChunkFits`: mapping a test to the number of smaller names left in the level
  is an injection of a chunk into `0..Width-1`. The refinement maps a body's first
  step to `Start`, its last to `Finish`, `BeginRun` to `Restart`, `Add` to `Declare`,
  all else to stuttering.
  - `VerdictsAreHonest` needs `Recorded`: which hooks have ended, and with what, is
    told by how far the body's thread is, and the future holds the last exception.
  - `ResultsAreComplete` needs `ReturnInv`: what is collected of a test is its result,
    and a result's level is one its test is in; with `Progress` every test is
    collected when the last level is done. `RunLevelsAreTheDepths` comes with it.
  - `SerialAccountingIsExact` assumes `Threads <= 1` and that one test makes fewer
    accesses than the counter can count. Then at most one worker measures, and
    the counter has moved by just what its test did (`AllBilledAlone`), modulo the wrap.
  - `TrafficIsOfTheBatch` assumes that a *batch* makes fewer accesses than the counter
    can count: the 2^64 of the code. `Aligned` says that batches are the pieces of a level of
    `Width` in name order, so those who measure together are of one piece; `Shared`
    bounds what a worker measured by the sum of what its piece did since, and from
    below by what its own test did.
- **EmulatedDevice_proof**: `DeviceTypeCorrect`, `StatusAlwaysCoherent`,
  `InterruptsAreKept`, `DeviceImplementsDma`, `BlocksAreTheirWords`. Each function a call is made of keeps
  a device sound and moves the abstract engine by one part of `DmaEngine!Access`;
  a call does so by composition, and every action is one call, a reset or a change
  of the latency. `LatencyIsHonoured` and `NeverEarlyWithoutWrap` assume `NoWrap`, that the
  last tick at which a transfer may start and the latency are together below
  `TickMod`; the invariant `OnTime` ties `dma_done_at_` to the accesses the transfer has
  seen. The run `device_latency` is what happens without the assumption.
  `BlocksAreTheirWords` needs `UnderWay`: what is left of a block under way and the words
  it has done make up its length, and its next register is the one at the address of
  its next word, or there is none. `NextWordIsAt4` ties the model's `NextWord` to the addresses.
- **RegisterAccessor_proof**: `PolicyMirrorsMap` compares the policy table written by
  hand at `emulated_device.cpp:31-41` with the fields of the map: these are well formed
  and disjoint; the write-1-to-clear mask of a register is exactly the bits of its
  W1C fields; a register with a read-only field has no others and is *wholly*
  read-only, and one without has no read-only bit. The two read-only masks are all 32 bits,
  so they are more than the RO fields: they cover the reserved bits too, as the
  comment at line 33 says. `FieldsObeyTheirKind` is what this means for software: a
  write gives a read/write field its bits of the word, leaves a read-only field as it was
  when the access took effect (after the tick), and takes down of a W1C field the bits
  written as 1. Both are facts about single writes. `NoUnknownLatchCleared` and
  `LoneModifyIsAtomic` are about calls. The
  lemma `WriteEffect` says what `Write32` leaves in a writable register: of the
  latches those the word does not name, of the other bits the word's. The
  invariant adds to the device's that the word of a `Modify` nobody disturbed
  is still the register's (`ModifyTyped`).
- **BusLog_proof**: `LogIsSound` (type, `LogMatchesBus`, `StampsOrdered`),
  `BusTypeCorrect`, `RecordIsAtomic` and `FilesHaveNoHoles`. The invariant `BusInv`
  adds: a link in `Record` after `Lock` is the holder of the mutex; the call of a
  busy link is the last on its wire, still under way, made with the label the link
  still has; the stamp taken lies between every stamp in the log and the clock. The
  refinement needs the last of these, since `AccessLog!Record` demands a stamp in
  order. `FilesHaveNoHoles` adds `FileInv`: only the last call of a link is under way,
  a `Clear` forgets from the front, and calls without a record never get one; so
  between two records of a link every call that returned is in the log, and a
  snapshot or a prefix of one inherits that. `CallsAreBilled`: a call adds one entry
  to the wire, so the sum of the prices grows by the price of that entry; nothing
  that happens to the entry later (a failure, a lost record, a `Clear`) changes its price.
- **BusSession_proof**: `RegionsSound` of the regions alone (type, `OneOwner`,
  `ReadsInBounds`, and that an empty slot has no pointer, are inductive together);
  then, of regions over links, `SessionLogSound`, `SessionTypes`, `SessionCallsAreBilled`,
  `SessionFilesHaveNoHoles`, `SessionOneOwner`, `SessionReadsInBounds`,
  `SessionImplementsLog`. A step of the session is a step of
  the bus and a step of the regions, or leaves either alone; so the invariants and
  the refinement carry over. The invariant adds only that a mapping under way has
  a slot (`MapsTyped`).
- **PythonSuite_proof**: `PythonRunsSequencer`: PySpec implies Spec of `Sequencer`,
  so its theorems hold for Python programs (`PyDependenciesFirst`,
  `PyNoThreadLeaks`, `PyResultsAreHonest`). `PyTypeCorrect` and `PyLogInOrder` rest on
  the invariant `GilInv`: whoever is within a call holds the GIL, and the log is one
  short of the bus exactly then. `PyNothingDangles` rests on `KeptAlive`: as long as
  there are tests, their closures, and through `keep_alive` the device and the log, live.
  `PyGilHolderGoesOn` is inductive given `IInv`: `main` gives the lock up before it is in
  `run()`, and a body's end and its release of the lock are one step.
  `PyLabelsAreOfTheBatch` rests on `Labelled`: the label is that of a test that may run
  together with every body past its `set_test`, because all of these are live at
  once, hence (by `Aligned`) of one batch.
  `BringUpIsRight` assumes `OneBringUp`: at most one test is `reset_values`, at most one is
  `start_transfer`, as in the example, and the latency is not 0. A second
  `reset_values` that nothing orders may look while the transfer runs, and a second
  `start_transfer` may begin one after the wait; and with latency 0 a transfer started
  on the last tick before the clock wraps is over only when the clock comes round.
  Nothing else about the wrap is assumed: `DueStart` shows that a transfer whose end
  wraps is early, never late. The invariant `BringUp` relates the engine to the bodies: it runs only
  after this run's `start_transfer` has written GO; a wait that goes on has fewer
  accesses behind it than the latency, and the rest of the latency is enough for
  the transfer (`Due`); a wait that saw DONE saw an engine at rest, which stays so
  because the only test that could start it is over.

TLC checked every inductive invariant named here on the instances above before
it was proved. Every safety invariant and action property of the passing runs is
stated by a theorem; so is every refinement. Only model-checked is liveness
(`LevelsComesBack`, `RunReturns`, `PollingCompletes`, `MappingsEnd`, `PyRunReturns`),
which the prover does not do under fairness, and the violations: a theorem can say
when the property does hold (`SerialAccountingIsExact`, `NeverEarlyWithoutWrap`), a run
has to show that it otherwise does not.

Run them with `tlc -config X.cfg M` and `tlapm M_proof.tla`.

## 5. Not modelled

- Durations, messages, the text of CSV files: no property is about them.
- Two threads in one `EmulatedDevice`, or `Add` during `Run`, from C++: neither class
  takes a lock, so this is undefined behaviour, and the repository never does it.
  From Python the interpreter lock rules it out, which `LogIsBusOrder` shows for
  the device.
- `MakeTransport` and `DeviceHandle` rejecting their arguments: they throw before
  there is any state. Moving a `DeviceHandle`: nobody does.
- The generator's enums, comments and header text; the bindings' value types and
  `make_transport`: they only forward.
- A Python interpreter that exits while threads run; free-threaded builds.
- `analyze_logs.py` (statistics over a finished file), the benchmark, the unit
  tests and the scripts: offline or drivers.
