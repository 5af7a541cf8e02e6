------------------------------ MODULE Sequencer ------------------------------
(***************************************************************************)
(* Sequencer::Run and RunOne (src/src/sequencer.cpp) on top of Levels().   *)
(*                                                                         *)
(* Three kinds of thread take part.  The calling thread (main) walks the   *)
(* levels in batches of at most `threads` tests; it launches one worker    *)
(* per test of the batch and collects their futures in launch order.  A    *)
(* worker executes RunOne: it reads the access counter, starts the body    *)
(* on a thread of its own, waits for it with a timeout, and computes the   *)
(* result.  The body runs setup, body and teardown.  With threads <= 1     *)
(* main executes RunOne itself: a batch of one, with no outer std::async   *)
(* that can fail.                                                          *)
(*                                                                         *)
(* A hook a test does not have is one that returns at once.  std::async    *)
(* fails (std::system_error) when no thread can be started, which may      *)
(* happen at any launch.                                                   *)
(***************************************************************************)
EXTENDS SuiteLevels, Functions, FiniteSetsExt

CONSTANTS
  Threads,      \* the argument of Run()
  MayWedge,     \* the tests with a hook that may never return
  Exceptions,   \* what hooks throw: "std", derived from std::exception, or "other"
  MaxAccesses,  \* bound: how often one test bumps the access counter
  CounterMod    \* the counter is a uint64_t: it counts modulo CounterMod

ASSUME ThreadsAssumption == Threads \in Nat
ASSUME HookAssumption == MayWedge \subseteq Names /\ Exceptions \subseteq {"std", "other"}
ASSUME CounterAssumption ==
  MaxAccesses \in Nat /\ CounterMod \in Nat /\ CounterMod > 0

VARIABLES
  levelIndex,  \* number of levels begun; the level being run is levels[levelIndex]
  rest,        \* the tests of this level no batch has taken yet
  batch,       \* `running`: the tests whose futures main has still to collect
  worker,      \* worker[t]: how far RunOne(t) is
  body,        \* body[t]: how far the thread with the hooks of t is
  exn,         \* exn[t]: the exception the body's future will hold
  before,      \* before[t]: the counter when RunOne(t) began
  outcome,     \* outcome[t]: the TestResult RunOne(t) returned
  results,     \* `by_name`
  returned,    \* what the last Run() returned
  counter,     \* AccessCounter()
  own,         \* own[t]: accesses t itself caused in this run (history)
  calls        \* calls[t]: the hooks of t that ended and how (history)

mainVars == <<levelIndex, rest, batch, results, returned>>
workVars == <<worker, body, exn, before, outcome, counter, own, calls>>
vars == <<sVars, mainVars, workVars>>

Stages == {"setup", "test", "teardown"}
NoResult == [name |-> EmptyName, status |-> "Skip", level |-> 0, accesses |-> 0]

Each(v) == [t \in Names |-> v]

Width == IF Threads <= 1 THEN 1 ELSE Threads

Executing == {t \in Names : body[t] \in Stages \cup {"wedged"}}
WorkerLive(t) == worker[t] \in {"started", "measured", "waiting", "overdue"}

------------------------------------------------------------------------------
(* The caller: Add, Levels and Run, one call at a time *)

RunInit ==
  /\ levelIndex = 0 /\ rest = {} /\ batch = {} /\ returned = <<>>
  /\ results = Each(NoResult)
  /\ worker = Each("none") /\ body = Each("none") /\ exn = Each("none")
  /\ before = Each(0) /\ outcome = Each(NoResult)
  /\ counter \in {0, CounterMod - 1}
  /\ own = Each(0) /\ calls = Each({})

ClientCall ==
  /\ Client \/ CallLevels("idle")
  /\ returned' = <<>>
  /\ UNCHANGED <<levelIndex, rest, batch, results, workVars>>

\* Run() begins with Levels(); its locals start empty.
BeginRun ==
  /\ CallLevels("run")
  /\ levelIndex' = 0 /\ rest' = {} /\ batch' = {} /\ returned' = <<>>
  /\ results' = Each(NoResult)
  /\ worker' = Each("none") /\ body' = Each("none") /\ exn' = Each("none")
  /\ before' = Each(0) /\ outcome' = Each(NoResult)
  /\ own' = Each(0) /\ calls' = Each({})
  /\ UNCHANGED counter

Levelling == LevelsStep /\ UNCHANGED <<mainVars, workVars>>

------------------------------------------------------------------------------
(* main inside Run() *)

NextLevel ==
  /\ main = "run" /\ batch = {} /\ rest = {}
  /\ levelIndex < Len(levels)
  /\ levelIndex' = levelIndex + 1
  /\ rest' = levels[levelIndex + 1]
  /\ UNCHANGED <<sVars, batch, results, returned, workVars>>

\* A slip: a chunk that is one test too long.
ChunkTooLong(S) == {t \in S : Cardinality({u \in S : u < t}) <= Width}

\* The next at most Width names of the level, in name order.
Chunk(S) == {t \in S : Cardinality({u \in S : u < t}) < Width}

\* A slip: the tests of a level after its first chunk are forgotten.
OneChunkPerLevel ==
  /\ main = "run" /\ batch = {} /\ rest # {}
  /\ batch' = Chunk(rest)
  /\ rest' = {}
  /\ UNCHANGED <<sVars, levelIndex, results, returned, workVars>>

StartBatch ==
  /\ main = "run" /\ batch = {} /\ rest # {}
  /\ batch' = Chunk(rest)
  /\ rest' = rest \ Chunk(rest)
  /\ UNCHANGED <<sVars, levelIndex, results, returned, workVars>>

Unlaunched == {t \in batch : worker[t] = "none"}
IsNext(t, S) == t \in S /\ \A u \in S : t <= u

Launch(t) ==
  /\ main = "run"
  /\ IsNext(t, Unlaunched)
  /\ worker' = [worker EXCEPT ![t] = "started"]
  /\ UNCHANGED <<sVars, mainVars, body, exn, before, outcome, counter, own, calls>>

\* std::async throws: `running` is destroyed while the exception propagates.
LaunchFails ==
  /\ main = "run"
  /\ Threads > 1 /\ Unlaunched # {}
  /\ main' = "unwind"
  /\ UNCHANGED <<suiteVars, after, levelVars, thrown, mainVars, workVars>>

\* future.get(), then by_name[result.name] = result.
Collect(t) ==
  /\ main = "run"
  /\ Unlaunched = {} /\ IsNext(t, batch)
  /\ worker[t] = "returned"
  /\ results' = [results EXCEPT ![t] = outcome[t]]
  /\ batch' = batch \ {t}
  /\ UNCHANGED <<sVars, levelIndex, rest, returned, workVars>>

\* future.get() rethrows what RunOne threw.
CollectThrows(t) ==
  /\ main = "run"
  /\ Unlaunched = {} /\ IsNext(t, batch)
  /\ worker[t] = "threw"
  /\ main' = "unwind"
  /\ UNCHANGED <<suiteVars, after, levelVars, thrown, mainVars, workVars>>

\* A slip: the exception leaves Run() without waiting for the other workers.
UnwindDetached ==
  /\ main = "unwind"
  /\ main' = "idle"
  /\ thrown' = "thread launch"
  /\ batch' = {}
  /\ UNCHANGED <<suiteVars, after, levelVars, levelIndex, rest, results, returned, workVars>>

\* A slip: it also waits for the tests of the batch that were never launched.
UnwindWaitsForBatch ==
  /\ main = "unwind"
  /\ \A t \in batch : worker[t] \in {"returned", "threw"}
  /\ main' = "idle"
  /\ thrown' = "thread launch"
  /\ batch' = {}
  /\ UNCHANGED <<suiteVars, after, levelVars, levelIndex, rest, results, returned, workVars>>

\* The destructors of `running` wait for every worker that was launched.
Unwind ==
  /\ main = "unwind"
  /\ \A t \in batch : ~ WorkerLive(t)
  /\ main' = "idle"
  /\ thrown' = "thread launch"
  /\ batch' = {}
  /\ UNCHANGED <<suiteVars, after, levelVars, levelIndex, rest, results, returned, workVars>>

\* `ordered`: by_name[test.name] in declaration order.
Return ==
  /\ main = "run" /\ batch = {} /\ rest = {}
  /\ levelIndex = Len(levels)
  /\ returned' = [i \in 1..Len(declared) |-> results[declared[i]]]
  /\ main' = "idle"
  /\ UNCHANGED <<suiteVars, after, levelVars, thrown, levelIndex, rest, batch, results, workVars>>

RunStep ==
  \/ NextLevel \/ StartBatch \/ LaunchFails \/ Unwind \/ Return
  \/ \E t \in Names : Launch(t) \/ Collect(t) \/ CollectThrows(t)

------------------------------------------------------------------------------
(* The worker: RunOne *)

MoveWorker(t, from, to) ==
  /\ worker[t] = from
  /\ worker' = [worker EXCEPT ![t] = to]

ReadCounter(t) ==
  /\ MoveWorker(t, "started", "measured")
  /\ before' = [before EXCEPT ![t] = counter]
  /\ UNCHANGED <<sVars, mainVars, body, exn, outcome, counter, own, calls>>

StartBody(t) ==
  /\ MoveWorker(t, "measured", "waiting")
  /\ body' = [body EXCEPT ![t] = "setup"]
  /\ UNCHANGED <<sVars, mainVars, exn, before, outcome, counter, own, calls>>

StartBodyFails(t) ==
  /\ MoveWorker(t, "measured", "threw")
  /\ UNCHANGED <<sVars, mainVars, body, exn, before, outcome, counter, own, calls>>

\* wait_for gives up only on a future that is not ready.
TimesOut(t) ==
  /\ MoveWorker(t, "waiting", "overdue")
  /\ body[t] # "done"
  /\ UNCHANGED <<sVars, mainVars, body, exn, before, outcome, counter, own, calls>>

Status(t) ==
  IF worker[t] = "overdue" THEN "Timeout"
  ELSE [none |-> "Pass", std |-> "Fail", other |-> "Error"][exn[t]]

\* Slips: the count as a signed difference; the count since the process began.
ReturnSigned(t) ==
  /\ worker' = [worker EXCEPT ![t] = "returned"]
  /\ outcome' = [outcome EXCEPT ![t] =
       [name |-> t, status |-> Status(t), level |-> levelIndex - 1,
        accesses |-> counter - before[t]]]
  /\ UNCHANGED <<sVars, mainVars, body, exn, before, counter, own, calls>>
ReturnTotal(t) ==
  /\ worker' = [worker EXCEPT ![t] = "returned"]
  /\ outcome' = [outcome EXCEPT ![t] =
       [name |-> t, status |-> Status(t), level |-> levelIndex - 1, accesses |-> counter]]
  /\ UNCHANGED <<sVars, mainVars, body, exn, before, counter, own, calls>>

\* The result and the return of RunOne(t).
ReturnResult(t) ==
  /\ worker' = [worker EXCEPT ![t] = "returned"]
  /\ outcome' = [outcome EXCEPT ![t] =
       [name |-> t, status |-> Status(t), level |-> levelIndex - 1,
        accesses |-> (counter + CounterMod - before[t]) % CounterMod]]
  /\ UNCHANGED <<sVars, mainVars, body, exn, before, counter, own, calls>>

\* A slip: after a timeout RunOne returns and leaves the body running.
FinishDetached(t) ==
  /\ worker[t] = "overdue" \/ (worker[t] = "waiting" /\ body[t] = "done")
  /\ ReturnResult(t)

\* get() on a ready future, or wait() after a timeout: both need the body's end.
Finish(t) ==
  /\ worker[t] \in {"waiting", "overdue"} /\ body[t] = "done"
  /\ ReturnResult(t)

WorkerStep(t) ==
  \/ ReadCounter(t) \/ StartBody(t) \/ StartBodyFails(t)
  \/ TimesOut(t) \/ Finish(t)

------------------------------------------------------------------------------
(* The body's thread *)

\* Hook `stage` of t ends and the thread goes on to `next`.
HookEnds(t, stage, result, next) ==
  /\ body[t] = stage
  /\ body' = [body EXCEPT ![t] = next]
  /\ calls' = [calls EXCEPT ![t] = @ \cup {<<stage, result>>}]
  /\ exn' = IF result = "none" THEN exn ELSE [exn EXCEPT ![t] = result]
  /\ UNCHANGED <<sVars, mainVars, worker, before, outcome, counter, own>>

\* A setup that throws leaves the thread: neither body nor teardown runs.
Setup(t) ==
  \/ HookEnds(t, "setup", "none", "test")
  \/ \E e \in Exceptions : HookEnds(t, "setup", e, "done")

\* A slip: no catch around the body, so a throw skips the teardown.
TestBodyNoCatch(t) ==
  \/ HookEnds(t, "test", "none", "teardown")
  \/ \E e \in Exceptions : HookEnds(t, "test", e, "done")

\* The body is caught: teardown runs whether it throws or not.
TestBody(t) == \E r \in Exceptions \cup {"none"} : HookEnds(t, "test", r, "teardown")

\* A teardown that throws replaces the exception of the body.
Teardown(t) == \E r \in Exceptions \cup {"none"} : HookEnds(t, "teardown", r, "done")

\* A hook accesses the device and counts the access.
Bump(t) ==
  /\ body[t] \in Stages
  /\ own[t] < MaxAccesses
  /\ own' = [own EXCEPT ![t] = @ + 1]
  /\ counter' = (counter + 1) % CounterMod
  /\ UNCHANGED <<sVars, mainVars, worker, body, exn, before, outcome, calls>>

\* A hook of t never returns.
Wedge(t) ==
  /\ t \in MayWedge /\ body[t] \in Stages
  /\ body' = [body EXCEPT ![t] = "wedged"]
  /\ UNCHANGED <<sVars, mainVars, worker, exn, before, outcome, counter, own, calls>>

HookStep(t) == Setup(t) \/ TestBody(t) \/ Teardown(t)
BodyStep(t) == HookStep(t) \/ Bump(t) \/ Wedge(t)

------------------------------------------------------------------------------
Init == SuiteInit /\ RunInit

Next ==
  \/ ClientCall \/ BeginRun \/ Levelling \/ RunStep
  \/ \E t \in Names : WorkerStep(t) \/ BodyStep(t)

Spec == Init /\ [][Next]_vars

(* The operating system runs every thread, and a timeout that is waited for
   expires.  Nothing forces the caller to call, nor a hook to end that wedges. *)
Fairness ==
  /\ WF_vars(Levelling) /\ WF_vars(RunStep)
  /\ \A t \in Names : WF_vars(WorkerStep(t)) /\ WF_vars(HookStep(t))

FairSpec == Spec /\ Fairness

------------------------------------------------------------------------------
(* Properties *)

Result ==
  [name : Names \cup {EmptyName}, level : Nat, accesses : 0..(CounterMod - 1),
   status : {"Pass", "Fail", "Skip", "Error", "Timeout"}]

MainTypeOK ==
  /\ levelIndex \in Nat
  /\ rest \subseteq Names /\ batch \subseteq Names
  /\ results \in [Names -> Result]
  /\ returned \in Seq(Result)

WorkTypeOK ==
  /\ worker \in [Names -> {"none", "started", "measured", "waiting", "overdue",
                           "returned", "threw"}]
  /\ body \in [Names -> Stages \cup {"none", "wedged", "done"}]
  /\ exn \in [Names -> Exceptions \cup {"none"}]
  /\ before \in [Names -> 0..(CounterMod - 1)]
  /\ outcome \in [Names -> Result]
  /\ counter \in 0..(CounterMod - 1)
  /\ own \in [Names -> 0..MaxAccesses]
  /\ calls \in [Names -> SUBSET (Stages \X (Exceptions \cup {"none"}))]

\* Everything stays in its type.
TypeOK == SuiteTypeOK /\ MainTypeOK /\ WorkTypeOK

\* A test starts only when every test it depends on has ended for good: its
\* result is collected and its hooks no longer run, timed out or not.
DependenciesFinished ==
  \A t \in Names : worker[t] # "none" =>
    \A d \in dependsOn[t] :
      body[d] = "done" /\ worker[d] = "returned" /\ results[d] # NoResult

\* No thread outlives the call that started it: once Run() has returned or
\* thrown, no worker and no hook is running.
NoOrphanThreads ==
  main \in {"idle", "levels"} =>
    \A t \in Names : ~ WorkerLive(t) /\ t \notin Executing

\* At most Width tests run together ("capped at `threads`").
BoundedParallelism == Cardinality(Executing) <= Width

\* Run() returns one result per registered test, in declaration order, every
\* one of a test that was run, at its topological depth.
CompleteOrderedResults ==
  returned # <<>> =>
    /\ Len(returned) = Len(declared)
    /\ \A i \in 1..Len(returned) :
         LET r == returned[i] IN
         /\ r.name = declared[i]
         /\ r.status # "Skip"
         /\ HasChain(r.name, r.level + 1) /\ ~ HasChain(r.name, r.level + 2)

Ended(t) == {c[1] : c \in calls[t]}

\* A result says what happened.  Pass: all three hooks ran and none threw.
\* Fail or Error: one threw an exception of that kind.  And whatever the
\* status, the hooks have ended, and a body that was entered was torn down.
HonestVerdict ==
  \A t \in Names : outcome[t] # NoResult =>
    /\ outcome[t].status = "Pass" => calls[t] = Stages \X {"none"}
    /\ outcome[t].status = "Fail" => \E s \in Stages : <<s, "std">> \in calls[t]
    /\ outcome[t].status = "Error" => \E s \in Stages : <<s, "other">> \in calls[t]
    /\ Ended(t) \in {Stages, {"setup"}}

Rank(t, S) == Cardinality({u \in S : u < t})

\* The tests of the batch t ran in: the level in pieces of Width, in name order.
BatchOf(t) ==
  LET level == levels[outcome[t].level + 1]
  IN  {u \in level : Rank(u, level) \div Width = Rank(t, level) \div Width}

\* A result never misses an access its test made, and charges it only with
\* accesses made by tests of its batch.
TrafficOfBatch ==
  main = "run" => \A t \in Names : outcome[t] # NoResult =>
    /\ own[t] <= outcome[t].accesses
    /\ outcome[t].accesses <= SumFunctionOnSet(own, BatchOf(t))

\* "a result records how much bus traffic it caused": exactly its own.
ExactAccounting ==
  \A t \in Names : outcome[t] # NoResult => outcome[t].accesses = own[t]

\* What the calls and threads above amount to for a test.
StageOf ==
  [t \in Names |-> IF body[t] = "none" THEN "waiting"
                   ELSE IF body[t] = "done" THEN "finished" ELSE "running"]

Order == INSTANCE DependencyOrder
           WITH Test <- Names, needs <- dependsOn, stage <- StageOf

\* The sequencer implements DependencyOrder: hooks of a test run once per Run(),
\* after those of its dependencies, Width at a time, and never across two runs.
ImplementsOrder == Order!Spec

\* Run() comes back, with results or an exception, unless a hook never ends.
RunReturns ==
  (main # "idle") ~> (main = "idle" \/ \E t \in Names : body[t] = "wedged")

\* "so a hang cannot take the suite with it": Run() comes back even then.
SuiteSurvivesHang == (main # "idle") ~> (main = "idle")
==============================================================================
