--------------------------- MODULE Sequencer_proof ---------------------------
(***************************************************************************)
(* For any set of tests, any dependencies, any number of threads, hooks    *)
(* that throw, time out or never end, and launches that fail: the types,   *)
(* DependenciesFinished, NoOrphanThreads and BoundedParallelism hold, and  *)
(* the sequencer implements DependencyOrder.                               *)
(***************************************************************************)
EXTENDS Sequencer, SuiteLevels_proof

------------------------------------------------------------------------------
(* Batches *)

LEMMA WidthType == Width \in Nat \ {0}
BY ThreadsAssumption DEF Width

LEMMA RankType ==
  ASSUME NEW S \in SUBSET Names
  PROVE  /\ IsFiniteSet(S) /\ S \subseteq Nat
         /\ \A t : IsFiniteSet({u \in S : u < t}) /\ Rank(t, S) \in Nat
<1>1. IsFiniteSet(S) /\ S \subseteq Nat
  BY NamesAssumption, FS_Subset
<1>2. ASSUME NEW t PROVE IsFiniteSet({u \in S : u < t}) /\ Rank(t, S) \in Nat
  <2>1. {u \in S : u < t} \in SUBSET S
    OBVIOUS
  <2>2. IsFiniteSet({u \in S : u < t})
    BY <1>1, <2>1, FS_Subset
  <2> QED BY <2>2, FS_CardinalityType DEF Rank
<1> QED BY <1>1, <1>2

\* A later name of a set has a larger rank in it.
LEMMA RankGrows ==
  ASSUME NEW S \in SUBSET Names, NEW t \in S, NEW u \in S, t < u
  PROVE  Rank(t, S) < Rank(u, S)
<1> DEFINE Below(v) == {w \in S : w < v}
<1>1. t \in Nat /\ u \in Nat /\ S \subseteq Nat
  BY RankType
<1>2. \A w \in S : w < t => w < u
  BY <1>1
<1>b. ~ (t < t)
  BY <1>1
<1>c. Below(t) \in SUBSET Below(u)
  BY <1>2
<1>3. Below(t) \in SUBSET Below(u) /\ t \in Below(u) /\ t \notin Below(t)
  BY <1>b, <1>c
<1>4. IsFiniteSet(Below(u))
  BY RankType
<1>a. Rank(t, S) = Cardinality(Below(t)) /\ Rank(u, S) = Cardinality(Below(u))
  BY DEF Rank
<1>5. Rank(t, S) \in Nat /\ Rank(u, S) \in Nat
  BY RankType
<1> HIDE DEF Below
<1>6. Rank(t, S) <= Rank(u, S) /\ Rank(t, S) # Rank(u, S)
  BY <1>3, <1>4, <1>a, FS_Subset
<1> QED BY <1>5, <1>6

LEMMA ChunkIsByRank ==
  ASSUME NEW S PROVE Chunk(S) = {t \in S : Rank(t, S) < Width}
BY DEF Chunk, Rank

\* The chunk taken from a level is never wider than the number of threads: the
\* rank is an injection from it into 0..Width-1.
LEMMA ChunkFits ==
  ASSUME NEW S \in SUBSET Names
  PROVE  Chunk(S) \subseteq S /\ Cardinality(Chunk(S)) <= Width
<1> DEFINE f == [t \in Chunk(S) |-> Rank(t, S)]
<1>1. Chunk(S) = {t \in S : Rank(t, S) < Width} /\ S \subseteq Nat
      /\ \A t : Rank(t, S) \in Nat
  BY ChunkIsByRank, RankType
<1>2. f \in [Chunk(S) -> 0..(Width - 1)]
  BY <1>1, WidthType
<1>3. ASSUME NEW t \in Chunk(S), NEW u \in Chunk(S), t # u PROVE f[t] # f[u]
  <2>1. t \in S /\ u \in S /\ t \in Nat /\ u \in Nat
    BY <1>1
  <2>2. t < u \/ u < t
    BY <1>3, <2>1
  <2>3. Rank(t, S) # Rank(u, S)
    BY <1>1, <2>1, <2>2, RankGrows
  <2> QED BY <2>3
<1>4. f \in Injection(Chunk(S), 0..(Width - 1))
  <2> HIDE DEF f
  <2> QED BY <1>2, <1>3 DEF Injection, IsInjective
<1>5. IsFiniteSet(0..(Width - 1)) /\ Cardinality(0..(Width - 1)) = Width
  BY WidthType, FS_Interval
<1> HIDE DEF f
<1> QED BY <1>1, <1>4, <1>5, FS_Injection

\* What a chunk leaves comes after it, and a chunk that leaves something is full.
LEMMA ChunkIsFull ==
  ASSUME NEW S \in SUBSET Names, S # Chunk(S)
  PROVE  /\ Cardinality(Chunk(S)) = Width
         /\ \A u \in Chunk(S), v \in S \ Chunk(S) : u < v
<1> DEFINE C == Chunk(S)
<1>0. /\ S \subseteq Nat /\ C \subseteq S /\ C = {t \in S : Rank(t, S) < Width}
      /\ \A t : Rank(t, S) \in Nat
  BY RankType, ChunkIsByRank
<1> HIDE DEF C
<1>1. ASSUME NEW u \in C, NEW v \in S \ C PROVE u < v
  <2>1. u \in S /\ u \in Nat /\ v \in Nat /\ u # v /\ Rank(u, S) < Rank(v, S)
    BY <1>0, WidthType
  <2>2. ~ (v < u)
    BY <1>0, <2>1, RankGrows
  <2> QED BY <2>1, <2>2
<1>2. PICK v \in S \ C : \A w \in S \ C : v <= w
  <2>1. S \ C \in SUBSET Nat /\ S \ C # {}
    BY <1>0 DEF C
  <2> QED BY <2>1, LeastNatural
<1>3. {w \in S : w < v} = C
  <2>1. \A w \in S : w < v <=> w \in C
    <3> TAKE w \in S
    <3>1. w \in Nat /\ v \in Nat
      BY <1>0
    <3> QED BY <1>1, <1>2, <3>1
  <2> QED BY <1>0, <2>1
<1>4. Cardinality(C) = Rank(v, S) /\ Rank(v, S) >= Width
  <2>1. Cardinality(C) = Rank(v, S)
    BY <1>3 DEF Rank
  <2> QED BY <1>0, <1>2, <2>1, WidthType
<1>5. Cardinality(C) <= Width
  BY ChunkFits DEF C
<1> QED BY <1>0, <1>1, <1>4, <1>5, WidthType DEF C

\* The tests of one piece.
Piece(t, S) == {u \in S : Rank(u, S) \div Width = Rank(t, S) \div Width}

\* A piece is never wider than the number of threads either.
LEMMA PieceFits ==
  ASSUME NEW S \in SUBSET Names, NEW t \in S
  PROVE  Piece(t, S) \subseteq S /\ Cardinality(Piece(t, S)) <= Width
<1> DEFINE P == Piece(t, S)
           k == Rank(t, S) \div Width
           I == (k * Width)..(k * Width + (Width - 1))
           f == [u \in P |-> Rank(u, S)]
<1>1. k \in Nat /\ k * Width \in Nat /\ \A u : Rank(u, S) \in Nat
  <2>1. Rank(t, S) \in Nat /\ Width \in Nat \ {0}
    BY RankType, WidthType
  <2>2. k \in Nat
    BY <2>1
  <2> HIDE DEF k
  <2>3. k * Width \in Nat
    BY <2>1, <2>2
  <2>4. \A u : Rank(u, S) \in Nat
    BY RankType
  <2> QED BY <2>2, <2>3, <2>4
<1>2. P \subseteq S /\ \A u \in P : Rank(u, S) \div Width = k
  BY DEF Piece
<1> HIDE DEF P, k
<1>3. \A u \in P : Rank(u, S) \in I
  <2> TAKE u \in P
  <2>1. Rank(u, S) \in Nat /\ Rank(u, S) \div Width = k /\ Width \in Nat \ {0}
    BY <1>1, <1>2, WidthType
  <2> QED BY <1>1, <2>1
<1>4. ASSUME NEW u \in P, NEW v \in P, u # v PROVE Rank(u, S) # Rank(v, S)
  <2>1. u \in S /\ v \in S /\ u \in Nat /\ v \in Nat
    BY <1>2, RankType
  <2>2. u < v \/ v < u
    BY <1>4, <2>1
  <2> QED BY <1>1, <2>1, <2>2, RankGrows
<1>5. f \in Injection(P, I)
  <2> HIDE DEF I
  <2> QED BY <1>3, <1>4 DEF Injection, IsInjective
<1>6. IsFiniteSet(I) /\ Cardinality(I) = Width
  BY <1>1, WidthType, FS_Interval
<1> HIDE DEF f, I
<1> QED BY <1>2, <1>5, <1>6, FS_Injection DEF P

\* When R is the end of a level, ranks in R are ranks in the level, shifted.
LEMMA RankInRest ==
  ASSUME NEW L \in SUBSET Names, NEW R \in SUBSET L,
         \A u \in L \ R, v \in R : u < v, NEW t \in R
  PROVE  Rank(t, L) = Cardinality(L \ R) + Rank(t, R)
<1> DEFINE B == {u \in R : u < t}
<1>1. {u \in L : u < t} = (L \ R) \cup B
  OBVIOUS
<1>2. (L \ R) \cap B = {} /\ L \ R \in SUBSET Names /\ R \in SUBSET Names
  OBVIOUS
<1>3. IsFiniteSet(L \ R) /\ IsFiniteSet(B)
  BY <1>2, RankType
<1>4. Rank(t, L) = Cardinality((L \ R) \cup B) /\ Rank(t, R) = Cardinality(B)
  BY <1>1 DEF Rank
<1> HIDE DEF B
<1>5. Cardinality((L \ R) \cup B) = Cardinality(L \ R) + Cardinality(B) - 0
  BY <1>2, <1>3, FS_Union, FS_EmptySet
<1>6. Cardinality(L \ R) \in Nat /\ Cardinality(B) \in Nat
  BY <1>3, FS_CardinalityType
<1> QED BY <1>4, <1>5, <1>6

------------------------------------------------------------------------------
(* The inductive invariant *)

Busy == main \in {"run", "unwind"}
Collected(t) == worker[t] = "returned" /\ results[t] # NoResult

\* How far the worker of t is goes with how far the hooks it started are.
InStep(t) ==
  /\ worker[t] \in {"none", "started", "measured", "threw"} => body[t] = "none"
  /\ worker[t] \in {"waiting", "overdue"} => body[t] # "none"
  /\ worker[t] = "returned" => body[t] = "done" /\ outcome[t] # NoResult
  /\ worker[t] # "none" => t \in Registered

WorkerAndBody == \A t \in Names : InStep(t)

\* Outside Run() every worker that was ever started has ended.
NoWorkerOutside == ~ Busy => \A t \in Names : ~ WorkerLive(t)

\* While Run() waits for Levels(), its locals are empty.
RunIsFresh ==
  main = "levels" /\ after = "run" =>
    /\ levelIndex = 0 /\ rest = {} /\ batch = {}
    /\ \A t \in Names : worker[t] = "none"

\* How far a test of level i is while Run() works on level levelIndex.
OnLevel(i, t) ==
  /\ i > levelIndex => worker[t] = "none"
  /\ i < levelIndex => Collected(t)
  /\ i = levelIndex => t \in rest \cup batch \/ Collected(t)

Progress ==
  Busy =>
    /\ pending = {}
    /\ levelIndex \in 0..Len(levels)
    /\ levelIndex = 0 => rest = {} /\ batch = {}
    /\ levelIndex > 0 => rest \cup batch \subseteq levels[levelIndex]
    /\ rest \cap batch = {}
    /\ Cardinality(batch) <= Width
    /\ \A t \in rest : worker[t] = "none"
    /\ \A i \in 1..Len(levels) : \A t \in levels[i] : OnLevel(i, t)

IInv ==
  /\ TypeOK /\ LevelsOrdered /\ WorkerAndBody /\ NoWorkerOutside /\ RunIsFresh
  /\ Progress /\ DependenciesFinished

LEMMA InitIInv == Init => IInv
<1> SUFFICES ASSUME Init PROVE IInv
  OBVIOUS
<1>1. SuiteTypeOK
  BY SuiteInitTypeOK DEF Init
<1>2. NoResult \in Result
  BY CounterAssumption DEF NoResult, Result, EmptyName
<1>3. MainTypeOK
  BY <1>2 DEF Init, RunInit, MainTypeOK, Each
<1>4. WorkTypeOK
  BY <1>2, CounterAssumption DEF Init, RunInit, WorkTypeOK, Each
<1>5. main = "idle" /\ \A t \in Names : worker[t] = "none" /\ body[t] = "none"
  BY DEF Init, SuiteInit, RunInit, Each
<1> QED
  BY <1>1, <1>3, <1>4, <1>5
  DEF IInv, TypeOK, LevelsOrdered, WorkerAndBody, InStep, NoWorkerOutside, WorkerLive,
      RunIsFresh, Progress, Busy, DependenciesFinished

------------------------------------------------------------------------------
(* Types *)

LEMMA MainTypesKept == MainTypeOK /\ UNCHANGED mainVars => MainTypeOK'
BY DEF MainTypeOK, mainVars

LEMMA WorkTypesKept == WorkTypeOK /\ UNCHANGED workVars => WorkTypeOK'
BY DEF WorkTypeOK, workVars

LEMMA SuiteTypesKept == SuiteTypeOK /\ UNCHANGED sVars => SuiteTypeOK'
BY DEF SuiteTypeOK, sVars

\* A step of Run() that changes main, and what the call ends with, at most.
LEMMA SuiteTypesMoved ==
  ASSUME SuiteTypeOK, UNCHANGED <<suiteVars, after, levelVars>>,
         main' \in {"idle", "levels", "run", "unwind"},
         thrown' \in {thrown, "thread launch"}
  PROVE  SuiteTypeOK'
BY DEF SuiteTypeOK, suiteVars, levelVars

LEMMA NoResultType == NoResult \in Result
BY CounterAssumption DEF NoResult, Result, EmptyName

LEMMA CallTypes ==
  ASSUME TypeOK, ClientCall \/ BeginRun \/ Levelling
  PROVE  TypeOK'
<1>1. CASE ClientCall
  <2>1. SuiteTypeOK'
    BY <1>1, SuiteStepTypeOK DEF ClientCall, TypeOK, SuiteNext
  <2>2. <<>> \in Seq(Result)
    OBVIOUS
  <2>3. MainTypeOK'
    BY <1>1, <2>2 DEF ClientCall, TypeOK, MainTypeOK
  <2>4. WorkTypeOK'
    BY <1>1, WorkTypesKept DEF ClientCall, TypeOK
  <2> QED BY <2>1, <2>3, <2>4 DEF TypeOK
<1>2. CASE BeginRun
  <2>1. SuiteTypeOK'
    BY <1>2, SuiteStepTypeOK DEF BeginRun, TypeOK
  <2>2. <<>> \in Seq(Result)
    OBVIOUS
  <2>3. MainTypeOK'
    BY <1>2, <2>2, NoResultType DEF BeginRun, MainTypeOK, Each
  <2>4. WorkTypeOK'
    BY <1>2, NoResultType, CounterAssumption DEF BeginRun, TypeOK, WorkTypeOK, Each
  <2> QED BY <2>1, <2>3, <2>4 DEF TypeOK
<1>3. CASE Levelling
  <2>1. SuiteTypeOK'
    BY <1>3, SuiteStepTypeOK DEF Levelling, TypeOK, SuiteNext
  <2> QED BY <1>3, <2>1, MainTypesKept, WorkTypesKept DEF Levelling, TypeOK
<1> QED BY <1>1, <1>2, <1>3

LEMMA RunTypes ==
  ASSUME TypeOK, RunStep
  PROVE  TypeOK'
<1> USE DEF TypeOK
<1>1. CASE NextLevel
  <2>1. levels \in Seq(SUBSET Names) /\ levelIndex \in Nat /\ levelIndex < Len(levels)
    BY <1>1 DEF NextLevel, SuiteTypeOK, MainTypeOK
  <2>2. levels[levelIndex + 1] \subseteq Names
    BY <2>1
  <2>3. MainTypeOK'
    BY <1>1, <2>2 DEF NextLevel, MainTypeOK
  <2> QED BY <1>1, <2>3, SuiteTypesKept, WorkTypesKept DEF NextLevel
<1>2. CASE StartBatch
  <2>1. Chunk(rest) \subseteq rest
    BY DEF Chunk
  <2>2. MainTypeOK'
    BY <1>2, <2>1 DEF StartBatch, MainTypeOK
  <2> QED BY <1>2, <2>2, SuiteTypesKept, WorkTypesKept DEF StartBatch
<1>3. CASE LaunchFails
  BY <1>3, SuiteTypesMoved, MainTypesKept, WorkTypesKept DEF LaunchFails
<1>4. CASE Unwind
  <2>1. MainTypeOK'
    BY <1>4 DEF Unwind, MainTypeOK
  <2> QED BY <1>4, <2>1, SuiteTypesMoved, WorkTypesKept DEF Unwind
<1>5. CASE Return
  <2>1. declared \in Seq(Names) /\ results \in [Names -> Result]
    BY DEF SuiteTypeOK, MainTypeOK
  <2>2. [i \in 1..Len(declared) |-> results[declared[i]]] \in Seq(Result)
    BY <2>1
  <2>3. MainTypeOK'
    BY <1>5, <2>2 DEF Return, MainTypeOK
  <2> QED BY <1>5, <2>3, SuiteTypesMoved, WorkTypesKept DEF Return
<1>6. ASSUME NEW t \in Names, Launch(t) PROVE TypeOK'
  <2>1. WorkTypeOK'
    BY <1>6 DEF Launch, WorkTypeOK
  <2> QED BY <1>6, <2>1, SuiteTypesKept, MainTypesKept DEF Launch
<1>7. ASSUME NEW t \in Names, Collect(t) PROVE TypeOK'
  <2>1. MainTypeOK'
    BY <1>7 DEF Collect, MainTypeOK, WorkTypeOK
  <2> QED BY <1>7, <2>1, SuiteTypesKept, WorkTypesKept DEF Collect
<1>8. ASSUME NEW t \in Names, CollectThrows(t) PROVE TypeOK'
  BY <1>8, SuiteTypesMoved, MainTypesKept, WorkTypesKept DEF CollectThrows
<1> QED BY <1>1, <1>2, <1>3, <1>4, <1>5, <1>6, <1>7, <1>8 DEF RunStep

\* A worker that is running, or a hook, belongs to a test main has to collect.
LEMMA LiveIsInBatch ==
  ASSUME IInv, NEW x \in Names, WorkerLive(x)
  PROVE  /\ Busy /\ x \in batch
         /\ levelIndex \in 1..Len(levels) /\ x \in levels[levelIndex]
<1>1. Busy /\ main # "idle"
  BY DEF IInv, NoWorkerOutside, Busy
<1>2. worker[x] # "none" /\ ~ Collected(x) /\ x \in Registered
  BY DEF WorkerLive, Collected, IInv, WorkerAndBody, InStep
<1>3. PICK i \in 1..Len(levels) : x \in levels[i]
  BY <1>1, <1>2, LevelFacts DEF IInv, TypeOK, Progress
<1>4. OnLevel(i, x) /\ levelIndex \in 0..Len(levels)
  BY <1>1, <1>3 DEF IInv, Progress
<1>5. i = levelIndex
  BY <1>2, <1>4 DEF OnLevel
<1> QED BY <1>1, <1>2, <1>3, <1>4, <1>5 DEF OnLevel, IInv, Progress

LEMMA HookIsLive ==
  ASSUME WorkTypeOK, WorkerAndBody, NEW x \in Names, x \in Executing
  PROVE  worker[x] \in {"waiting", "overdue"}
BY DEF WorkTypeOK, WorkerAndBody, InStep, Executing, Stages

LEMMA ThreadTypes ==
  ASSUME IInv, NEW x \in Names, WorkerStep(x) \/ BodyStep(x)
  PROVE  TypeOK'
<1>0. TypeOK
  BY DEF IInv
<1>1. ASSUME UNCHANGED <<sVars, mainVars>>, WorkTypeOK'
      PROVE  TypeOK'
  BY <1>0, <1>1, SuiteTypesKept, MainTypesKept DEF TypeOK
<1> USE <1>0 DEF TypeOK
<1>2. CASE ReadCounter(x)
  BY <1>1, <1>2 DEF ReadCounter, MoveWorker, WorkTypeOK
<1>3. CASE StartBody(x)
  BY <1>1, <1>3 DEF StartBody, MoveWorker, WorkTypeOK, Stages
<1>4. CASE StartBodyFails(x) \/ TimesOut(x)
  BY <1>1, <1>4 DEF StartBodyFails, TimesOut, MoveWorker, WorkTypeOK
<1>5. CASE Finish(x)
  <2>1. levelIndex - 1 \in Nat
    <3>1. levelIndex \in 1..Len(levels)
      BY <1>5, LiveIsInBatch DEF Finish, WorkerLive
    <3> QED BY <3>1
  <2>2. (counter + CounterMod - before[x]) % CounterMod \in 0..(CounterMod - 1)
    <3>1. counter \in Int /\ before[x] \in Int /\ CounterMod \in Nat \ {0}
      BY CounterAssumption DEF WorkTypeOK
    <3> QED BY <3>1
  <2>3. Status(x) \in {"Pass", "Fail", "Timeout", "Error"}
    <3>1. exn[x] \in {"none", "std", "other"}
      BY HookAssumption DEF WorkTypeOK
    <3> QED BY <3>1 DEF Status
  <2>4. outcome' \in [Names -> Result]
    BY <1>5, <2>1, <2>2, <2>3 DEF Finish, ReturnResult, Result, WorkTypeOK
  <2>5. WorkTypeOK'
    BY <1>5, <2>4 DEF Finish, ReturnResult, WorkTypeOK
  <2> QED BY <1>1, <1>5, <2>5 DEF Finish, ReturnResult
<1>6. ASSUME NEW stage \in Stages, NEW r \in Exceptions \cup {"none"},
             NEW next \in {"test", "teardown", "done"}, HookEnds(x, stage, r, next)
      PROVE  TypeOK'
  BY <1>1, <1>6 DEF HookEnds, WorkTypeOK, Stages
<1>7. CASE Bump(x)
  <2>1. counter' \in 0..(CounterMod - 1)
    BY <1>7, CounterAssumption DEF Bump, WorkTypeOK
  <2>2. own' \in [Names -> 0..MaxAccesses]
    BY <1>7, CounterAssumption DEF Bump, WorkTypeOK
  <2> QED BY <1>1, <1>7, <2>1, <2>2 DEF Bump, WorkTypeOK
<1>8. CASE Wedge(x)
  BY <1>1, <1>8 DEF Wedge, WorkTypeOK
<1> QED
  BY <1>2, <1>3, <1>4, <1>5, <1>6, <1>7, <1>8
  DEF WorkerStep, BodyStep, HookStep, Setup, TestBody, Teardown, Stages

------------------------------------------------------------------------------
(* Steps of the workers and of the hooks *)

\* What a step of a worker or of its hooks may do to the other variables.
ThreadMoves(x) ==
  /\ WorkerLive(x) /\ worker'[x] # "none"
  /\ \A t \in Names \ {x} :
       worker'[t] = worker[t] /\ body'[t] = body[t] /\ outcome'[t] = outcome[t]
  /\ UNCHANGED <<sVars, mainVars>>
  /\ InStep(x)'

LEMMA ThreadStepMoves ==
  ASSUME IInv, NEW x \in Names, WorkerStep(x) \/ BodyStep(x)
  PROVE  ThreadMoves(x)
<1>0. WorkTypeOK /\ InStep(x) /\ WorkTypeOK' /\ WorkerAndBody
  BY ThreadTypes DEF IInv, TypeOK, WorkerAndBody
<1>1. ASSUME UNCHANGED sVars PROVE Registered' = Registered
  BY <1>1 DEF Registered, sVars
<1>2. CASE ReadCounter(x)
  BY <1>0, <1>1, <1>2
  DEF ThreadMoves, ReadCounter, MoveWorker, WorkTypeOK, WorkerLive, InStep
<1>3. CASE StartBody(x)
  BY <1>0, <1>1, <1>3
  DEF ThreadMoves, StartBody, MoveWorker, WorkTypeOK, WorkerLive, InStep
<1>4. CASE StartBodyFails(x)
  BY <1>0, <1>1, <1>4
  DEF ThreadMoves, StartBodyFails, MoveWorker, WorkTypeOK, WorkerLive, InStep
<1>5. CASE TimesOut(x)
  BY <1>0, <1>1, <1>5
  DEF ThreadMoves, TimesOut, MoveWorker, WorkTypeOK, WorkerLive, InStep
<1>6. CASE Finish(x)
  <2>1. outcome'[x].name = x /\ NoResult.name = 0 /\ x # 0
    BY <1>6, <1>0, NamesAssumption
    DEF Finish, ReturnResult, WorkTypeOK, NoResult, EmptyName
  <2>2. outcome'[x] # NoResult
    BY <2>1
  <2> QED
    BY <1>0, <1>1, <1>6, <2>2
    DEF ThreadMoves, Finish, ReturnResult, WorkTypeOK, WorkerLive, InStep
<1>7. CASE BodyStep(x)
  <2>1. x \in Executing
    BY <1>7 DEF BodyStep, HookStep, Setup, TestBody, Teardown, HookEnds, Bump, Wedge,
                Executing, Stages
  <2>2. worker[x] \in {"waiting", "overdue"}
    BY <2>1, <1>0, HookIsLive
  <2>3. /\ UNCHANGED <<sVars, mainVars, worker, outcome>> /\ body'[x] # "none"
        /\ \A t \in Names \ {x} : body'[t] = body[t]
    BY <1>7, <1>0 DEF BodyStep, HookStep, Setup, TestBody, Teardown, HookEnds, Bump, Wedge,
                WorkTypeOK, Stages
  <2> QED BY <1>0, <1>1, <2>2, <2>3 DEF ThreadMoves, WorkerLive, InStep
<1> QED BY <1>2, <1>3, <1>4, <1>5, <1>6, <1>7 DEF WorkerStep

LEMMA ThreadStepIInv ==
  ASSUME IInv, NEW x \in Names, WorkerStep(x) \/ BodyStep(x)
  PROVE  IInv'
<1>0. ThreadMoves(x)
  BY ThreadStepMoves
<1>1. TypeOK'
  BY ThreadTypes
<1>2. /\ Busy /\ x \in batch
      /\ levelIndex \in 1..Len(levels) /\ x \in levels[levelIndex]
  BY <1>0, LiveIsInBatch DEF ThreadMoves
<1>3. UNCHANGED <<suiteVars, levelVars, main, after>> /\ UNCHANGED mainVars
  BY <1>0 DEF ThreadMoves, sVars, suiteVars, levelVars
<1>4. LevelsOrdered' /\ main # "idle"
  BY <1>2, <1>3, OrderUnchanged DEF IInv, Busy
<1>5. WorkerAndBody'
  <2>1. ASSUME NEW t \in Names \ {x} PROVE InStep(t)'
    <3>1. InStep(t) /\ Registered' = Registered
      BY <1>3 DEF IInv, WorkerAndBody, Registered, suiteVars
    <3> QED BY <3>1, <1>0 DEF ThreadMoves, InStep
  <2> QED BY <2>1, <1>0 DEF WorkerAndBody, ThreadMoves
<1>6. NoWorkerOutside' /\ RunIsFresh'
  BY <1>2, <1>3 DEF NoWorkerOutside, RunIsFresh, Busy
<1>7. ASSUME NEW t \in Names, Collected(t)
      PROVE  t # x /\ Collected(t)' /\ body'[t] = body[t]
  BY <1>7, <1>0, <1>3 DEF Collected, ThreadMoves, WorkerLive, mainVars
<1>8. Progress'
  <2>0. Progress /\ Busy' /\ SuiteTypeOK
    BY <1>2, <1>3 DEF IInv, Busy, TypeOK
  <2>1. ASSUME NEW t \in rest PROVE worker'[t] = "none"
    BY <2>1, <2>0, <1>0, <1>2 DEF Progress, ThreadMoves, IInv, TypeOK, MainTypeOK
  <2>3. ASSUME NEW i \in 1..Len(levels), NEW t \in levels[i] PROVE OnLevel(i, t)'
    <3>1. OnLevel(i, t) /\ t \in Names
      BY <2>0, <1>2, <1>4, LevelFacts, RegisteredType DEF Progress, IInv
    <3>2. CASE t # x
      BY <3>1, <3>2, <1>0, <1>3 DEF OnLevel, Collected, ThreadMoves, mainVars
    <3>3. CASE t = x
      <4>1. i = levelIndex
        BY <3>3, <1>2, <1>4, <2>0, LevelFacts DEF IInv
      <4> QED BY <3>3, <4>1, <1>2, <1>3 DEF OnLevel, mainVars
    <3> QED BY <3>2, <3>3
  <2> QED BY <2>0, <2>1, <2>3, <1>2, <1>3 DEF Progress, levelVars, mainVars
<1>9. DependenciesFinished'
  <2>1. ASSUME NEW t \in Names, worker'[t] # "none", NEW d \in dependsOn[t]
        PROVE  body'[d] = "done" /\ Collected(d)'
    <3>1. worker[t] # "none"
      BY <2>1, <1>0 DEF ThreadMoves, WorkerLive
    <3>2. d \in Names /\ body[d] = "done" /\ Collected(d)
      BY <3>1, <2>1 DEF IInv, DependenciesFinished, Collected, TypeOK, SuiteTypeOK
    <3> QED BY <3>2, <1>7
  <2> QED BY <2>1, <1>3 DEF DependenciesFinished, Collected, suiteVars
<1> QED BY <1>1, <1>4, <1>5, <1>6, <1>8, <1>9 DEF IInv

------------------------------------------------------------------------------
(* Steps of the calling thread *)

\* A step that leaves the workers and what is collected alone, and no
\* dependency of a test that ran, keeps what is said about workers.
LEMMA WorkersKept ==
  ASSUME IInv, UNCHANGED workVars, UNCHANGED suiteVars,
         \A t \in Names : Collected(t) => Collected(t)'
  PROVE  WorkerAndBody' /\ DependenciesFinished'
<1>1. WorkerAndBody'
  BY DEF IInv, WorkerAndBody, InStep, Registered, workVars, suiteVars
<1>2. ASSUME NEW t \in Names, worker'[t] # "none", NEW d \in dependsOn[t]
      PROVE  body'[d] = "done" /\ Collected(d)'
  BY <1>2 DEF IInv, DependenciesFinished, Collected, TypeOK, SuiteTypeOK, workVars
<1> QED BY <1>1, <1>2 DEF DependenciesFinished, Collected, suiteVars

LEMMA CallIInv ==
  ASSUME IInv, ClientCall \/ BeginRun \/ Levelling
  PROVE  IInv'
<1>0. TypeOK'
  BY CallTypes DEF IInv
<1>1. CASE ClientCall
  <2>1. LevelsOrdered'
    BY <1>1, SuiteStepOrdered DEF ClientCall, IInv, TypeOK, SuiteNext
  <2>2. /\ main = "idle" /\ main' \in {"idle", "levels"} /\ after' \in {after, "idle"}
        /\ UNCHANGED workVars /\ UNCHANGED results
        /\ main' = "levels" => after' = "idle"
    BY <1>1 DEF ClientCall, Client, Add, AddRejected, CallLevels
  <2>3. NoWorkerOutside' /\ RunIsFresh' /\ Progress'
    BY <2>2 DEF IInv, NoWorkerOutside, RunIsFresh, Progress, Busy, WorkerLive, workVars
  <2>4. /\ Registered \subseteq Registered'
        /\ \A t \in Registered : dependsOn'[t] = dependsOn[t]
    <3>1. CASE UNCHANGED suiteVars
      BY <3>1 DEF suiteVars, Registered
    <3>2. ASSUME NEW n \in Names, NEW deps \in DepLists[n], Add(n, deps)
          PROVE  /\ Registered \subseteq Registered'
                 /\ \A t \in Registered : dependsOn'[t] = dependsOn[t]
      <4>1. declared \in Seq(Names) /\ declared' = Append(declared, n)
        BY <3>2 DEF Add, IInv, TypeOK, SuiteTypeOK
      <4>2. Registered \subseteq Registered'
        <5>1. /\ 1..Len(declared) \subseteq 1..Len(declared')
              /\ \A i \in 1..Len(declared) : declared'[i] = declared[i]
          BY <4>1
        <5> QED BY <5>1 DEF Registered
      <4>3. n \notin Registered /\ Registered \subseteq Names
        BY <3>2, RegisteredType DEF Add, IInv, TypeOK
      <4> QED BY <3>2, <4>2, <4>3 DEF Add, IInv, TypeOK, SuiteTypeOK
    <3> QED BY <1>1, <3>1, <3>2 DEF ClientCall, Client, AddRejected, CallLevels
  <2>5. WorkerAndBody'
    BY <2>2, <2>4 DEF IInv, WorkerAndBody, InStep, workVars
  <2>6. DependenciesFinished'
    BY <2>2, <2>4 DEF IInv, WorkerAndBody, InStep, DependenciesFinished, workVars
  <2> QED BY <1>0, <2>1, <2>3, <2>5, <2>6 DEF IInv
<1>2. CASE BeginRun
  <2>1. LevelsOrdered'
    BY <1>2, SuiteStepOrdered DEF BeginRun, IInv, TypeOK
  <2>2. /\ main' \in {"idle", "levels"}
        /\ levelIndex' = 0 /\ rest' = {} /\ batch' = {}
        /\ \A t \in Names : worker'[t] = "none" /\ body'[t] = "none"
    BY <1>2 DEF BeginRun, CallLevels, Each
  <2> QED
    BY <1>0, <2>1, <2>2
    DEF IInv, WorkerAndBody, InStep, NoWorkerOutside, WorkerLive, RunIsFresh, Progress,
        Busy, DependenciesFinished
<1>3. CASE Levelling
  <2>1. LevelsOrdered'
    BY <1>3, SuiteStepOrdered DEF Levelling, IInv, TypeOK, SuiteNext
  <2>2. /\ UNCHANGED <<suiteVars, mainVars, workVars>> /\ main = "levels"
        /\ main' \in {"levels", "idle", after}
        /\ main' = "levels" => after' = after
        /\ main' \notin {"levels", "idle"} => main' = after /\ pending' = {}
    <3>1. after \in {"idle", "run"}
      BY DEF IInv, TypeOK, SuiteTypeOK
    <3>2. CASE Round
      BY <1>3, <3>2 DEF Levelling, Round
    <3>3. CASE RejectCycle
      BY <1>3, <3>3 DEF Levelling, RejectCycle
    <3>4. CASE LevelsReturn
      BY <1>3, <3>1, <3>4 DEF Levelling, LevelsReturn, levelVars
    <3> QED BY <1>3, <3>2, <3>3, <3>4 DEF Levelling, LevelsStep
  <2>3. WorkerAndBody' /\ DependenciesFinished'
    BY <2>2, WorkersKept DEF Collected, workVars, mainVars
  <2>4. \A t \in Names : ~ WorkerLive(t)'
    BY <2>2 DEF IInv, NoWorkerOutside, Busy, WorkerLive, workVars
  <2>5. NoWorkerOutside' /\ RunIsFresh'
    BY <2>2, <2>4 DEF IInv, NoWorkerOutside, RunIsFresh, workVars, mainVars
  <2>6. Progress'
    <3> SUFFICES ASSUME Busy' PROVE Progress'
      BY DEF Progress
    <3>1. after = "run" /\ main' = "run" /\ pending' = {}
      BY <2>2 DEF Busy, IInv, TypeOK, SuiteTypeOK
    <3>2. /\ levelIndex' = 0 /\ rest' = {} /\ batch' = {}
          /\ \A t \in Names : worker'[t] = "none"
      BY <2>2, <3>1 DEF IInv, RunIsFresh, mainVars, workVars
    <3>3. levels' \in Seq(SUBSET Names) /\ Len(levels') \in Nat
      <4>1. levels' \in Seq(SUBSET Names)
        BY <1>0 DEF TypeOK, SuiteTypeOK
      <4> QED BY <4>1
    <3>4. ASSUME NEW i \in 1..Len(levels'), NEW t \in levels'[i] PROVE OnLevel(i, t)'
      <4>1. t \in Names
        BY <3>3
      <4> QED BY <4>1, <3>2, <3>3 DEF OnLevel
    <3>5. Cardinality(batch') <= Width
      BY <3>2, FS_EmptySet, WidthType
    <3> QED BY <3>1, <3>2, <3>3, <3>4, <3>5 DEF Progress
  <2> QED BY <1>0, <2>1, <2>3, <2>5, <2>6 DEF IInv
<1> QED BY <1>1, <1>2, <1>3

LEMMA NextLevelIInv == ASSUME IInv, NextLevel PROVE IInv'
<1>0. TypeOK' /\ TypeOK /\ Progress /\ Busy /\ LevelsOrdered
  BY RunTypes DEF RunStep, IInv, NextLevel, Busy
<1>1. /\ main # "idle" /\ batch = {} /\ rest = {}
      /\ levelIndex \in 0..Len(levels) /\ levelIndex < Len(levels)
      /\ levelIndex' = levelIndex + 1 /\ rest' = levels[levelIndex + 1]
      /\ UNCHANGED <<batch, results, workVars>>
      /\ UNCHANGED <<main, after, suiteVars, levelVars>>
  BY <1>0 DEF NextLevel, Progress, sVars, suiteVars, levelVars
<1>2. LevelsOrdered'
  BY <1>0, <1>1, OrderUnchanged
<1>3. WorkerAndBody' /\ DependenciesFinished'
  BY <1>1, WorkersKept DEF Collected, workVars
<1>4. NoWorkerOutside' /\ RunIsFresh' /\ Busy'
  BY <1>0, <1>1 DEF NoWorkerOutside, RunIsFresh, Busy, NextLevel
<1>5. Len(levels) \in Nat /\ levelIndex \in Nat
  <2>1. levels \in Seq(SUBSET Names)
    BY <1>0 DEF TypeOK, SuiteTypeOK
  <2> QED BY <2>1, <1>1
<1>6. ASSUME NEW i \in 1..Len(levels), NEW t \in levels[i] PROVE OnLevel(i, t)'
  BY <1>0, <1>1, <1>5 DEF Progress, OnLevel, Collected, workVars
<1>7. \A t \in rest' : worker'[t] = "none"
  BY <1>0, <1>1, <1>5 DEF Progress, OnLevel, workVars
<1>8. Progress'
  BY <1>0, <1>1, <1>4, <1>5, <1>6, <1>7 DEF Progress, levelVars
<1> QED BY <1>0, <1>2, <1>3, <1>4, <1>8 DEF IInv

LEMMA StartBatchIInv == ASSUME IInv, StartBatch PROVE IInv'
<1>0. TypeOK' /\ TypeOK /\ Progress /\ Busy /\ LevelsOrdered
  BY RunTypes DEF RunStep, IInv, StartBatch, Busy
<1>1. /\ main # "idle" /\ batch = {} /\ rest # {}
      /\ batch' = Chunk(rest) /\ rest' = rest \ Chunk(rest)
      /\ UNCHANGED <<levelIndex, results, workVars>>
      /\ UNCHANGED <<main, after, suiteVars, levelVars>>
  BY DEF StartBatch, sVars, suiteVars, levelVars
<1>2. LevelsOrdered'
  BY <1>0, <1>1, OrderUnchanged
<1>3. WorkerAndBody' /\ DependenciesFinished'
  BY <1>1, WorkersKept DEF Collected, workVars
<1>4. NoWorkerOutside' /\ RunIsFresh' /\ Busy'
  BY <1>0, <1>1 DEF NoWorkerOutside, RunIsFresh, Busy, StartBatch
<1>5. Chunk(rest) \subseteq rest /\ Cardinality(Chunk(rest)) <= Width
  BY <1>0, ChunkFits DEF TypeOK, MainTypeOK
<1>6. rest' \cup batch' = rest \cup batch
  BY <1>1, <1>5
<1>7. ASSUME NEW i \in 1..Len(levels), NEW t \in levels[i] PROVE OnLevel(i, t)'
  BY <1>0, <1>1, <1>6 DEF Progress, OnLevel, Collected, workVars
<1>8. Progress'
  BY <1>0, <1>1, <1>4, <1>5, <1>6, <1>7 DEF Progress, levelVars, workVars
<1> QED BY <1>0, <1>2, <1>3, <1>4, <1>8 DEF IInv

\* A test is launched only when its level has come, so that everything it
\* depends on is collected: the heart of DependenciesFinished.
LEMMA LaunchIInv == ASSUME IInv, NEW x \in Names, Launch(x) PROVE IInv'
<1>0. TypeOK' /\ TypeOK /\ Progress /\ Busy /\ LevelsOrdered
  BY RunTypes DEF RunStep, IInv, Launch, Busy
<1>1. /\ main # "idle" /\ x \in batch /\ worker[x] = "none"
      /\ worker' = [worker EXCEPT ![x] = "started"]
      /\ UNCHANGED <<mainVars, body, outcome>>
      /\ UNCHANGED <<main, after, suiteVars, levelVars>>
  BY DEF Launch, IsNext, Unlaunched, sVars, suiteVars, levelVars
<1>2. /\ worker'[x] = "started"
      /\ \A t \in Names \ {x} : worker'[t] = worker[t]
  BY <1>0, <1>1 DEF TypeOK, WorkTypeOK
<1>3. levelIndex \in 1..Len(levels) /\ x \in levels[levelIndex]
  BY <1>0, <1>1 DEF Progress
<1>4. x \in Registered /\ x \notin rest
  BY <1>0, <1>1, <1>3, LevelFacts DEF Progress, TypeOK
<1>5. LevelsOrdered'
  BY <1>0, <1>1, OrderUnchanged
<1>6. WorkerAndBody'
  BY <1>1, <1>2, <1>4 DEF IInv, WorkerAndBody, InStep, Registered, suiteVars
<1>7. NoWorkerOutside' /\ RunIsFresh' /\ Busy'
  BY <1>0, <1>1 DEF NoWorkerOutside, RunIsFresh, Busy, Launch
<1>8. \A t \in Names : Collected(t) => t # x /\ Collected(t)'
  BY <1>1, <1>2 DEF Collected, mainVars
<1>9. DependenciesFinished'
  <2>1. ASSUME NEW t \in Names, worker'[t] # "none", NEW d \in dependsOn[t]
        PROVE  body'[d] = "done" /\ Collected(d)'
    <3>1. d \in Names
      BY <1>0 DEF TypeOK, SuiteTypeOK
    <3>2. CASE t # x
      BY <2>1, <3>1, <3>2, <1>1, <1>2, <1>8
      DEF IInv, DependenciesFinished, Collected
    <3>3. CASE t = x
      <4>1. PICK j \in 1..Len(levels) : j < levelIndex /\ d \in levels[j]
        BY <3>3, <1>0, <1>1, <1>3, LevelFacts DEF TypeOK
      <4>2. Collected(d)
        BY <4>1, <1>0 DEF Progress, OnLevel
      <4> QED BY <3>1, <4>2, <1>1, <1>8 DEF Collected, IInv, WorkerAndBody, InStep
    <3> QED BY <3>2, <3>3
  <2> QED BY <2>1, <1>1 DEF DependenciesFinished, Collected, suiteVars
<1>10. Progress'
  <2>1. ASSUME NEW i \in 1..Len(levels), NEW t \in levels[i] PROVE OnLevel(i, t)'
    <3>1. OnLevel(i, t) /\ t \in Names
      BY <1>0, <1>1, LevelFacts, RegisteredType DEF Progress, TypeOK
    <3>2. CASE t # x
      BY <3>1, <3>2, <1>1, <1>2, <1>8 DEF OnLevel, mainVars
    <3>3. CASE t = x
      <4>1. i = levelIndex
        BY <3>3, <1>0, <1>1, <1>3, LevelFacts DEF TypeOK
      <4> QED BY <3>3, <4>1, <1>1, <1>3 DEF OnLevel, mainVars
    <3> QED BY <3>2, <3>3
  <2>2. \A t \in rest : worker'[t] = "none"
    BY <1>0, <1>2, <1>4 DEF Progress, TypeOK, MainTypeOK
  <2> QED BY <1>0, <1>1, <1>7, <2>1, <2>2 DEF Progress, levelVars, mainVars
<1> QED BY <1>0, <1>5, <1>6, <1>7, <1>9, <1>10 DEF IInv

LEMMA CollectIInv == ASSUME IInv, NEW x \in Names, Collect(x) PROVE IInv'
<1>0. TypeOK' /\ TypeOK /\ Progress /\ Busy /\ LevelsOrdered
  BY RunTypes DEF RunStep, IInv, Collect, Busy
<1>1. /\ main # "idle" /\ x \in batch /\ worker[x] = "returned"
      /\ results' = [results EXCEPT ![x] = outcome[x]]
      /\ batch' = batch \ {x}
      /\ UNCHANGED <<levelIndex, rest, workVars>>
      /\ UNCHANGED <<main, after, suiteVars, levelVars>>
  BY DEF Collect, IsNext, sVars, suiteVars, levelVars
<1>2. \A t \in Names : Collected(t) \/ t = x => Collected(t)'
  BY <1>0, <1>1 DEF Collected, IInv, WorkerAndBody, InStep, workVars, TypeOK, MainTypeOK
<1>3. LevelsOrdered'
  BY <1>0, <1>1, OrderUnchanged
<1>4. WorkerAndBody' /\ DependenciesFinished'
  BY <1>1, <1>2, WorkersKept
<1>5. NoWorkerOutside' /\ RunIsFresh' /\ Busy'
  BY <1>0, <1>1 DEF NoWorkerOutside, RunIsFresh, Busy, Collect
<1>6. Cardinality(batch') <= Width
  <2>1. IsFiniteSet(batch) /\ Cardinality(batch) \in Nat
    BY <1>0, NamesAssumption, FS_Subset, FS_CardinalityType DEF TypeOK, MainTypeOK
  <2>2. Cardinality(batch') = Cardinality(batch) - 1
    BY <2>1, <1>1, FS_RemoveElement
  <2> QED BY <2>1, <2>2, <1>0, WidthType DEF Progress
<1>7. ASSUME NEW i \in 1..Len(levels), NEW t \in levels[i] PROVE OnLevel(i, t)'
  <2>1. OnLevel(i, t) /\ t \in Names
    BY <1>0, <1>1, LevelFacts, RegisteredType DEF Progress, TypeOK
  <2>2. CASE t # x
    BY <2>1, <2>2, <1>1, <1>2 DEF OnLevel, workVars
  <2>3. CASE t = x
    BY <2>1, <2>3, <1>1, <1>2 DEF OnLevel, workVars
  <2> QED BY <2>2, <2>3
<1>8. Progress'
  BY <1>0, <1>1, <1>5, <1>6, <1>7 DEF Progress, levelVars, workVars
<1> QED BY <1>0, <1>3, <1>4, <1>5, <1>8 DEF IInv

\* The exception of a launch, or of a future, starts to unwind Run().
LEMMA ToUnwindIInv ==
  ASSUME IInv, LaunchFails \/ \E t \in Names : CollectThrows(t)
  PROVE  IInv'
<1>0. TypeOK' /\ Progress /\ Busy /\ LevelsOrdered
  BY RunTypes DEF RunStep, IInv, LaunchFails, CollectThrows, Busy
<1>1. /\ main # "idle" /\ main' = "unwind"
      /\ UNCHANGED <<suiteVars, levelVars, mainVars, workVars>>
  BY DEF LaunchFails, CollectThrows
<1>2. LevelsOrdered'
  BY <1>0, <1>1, OrderUnchanged
<1>3. WorkerAndBody' /\ DependenciesFinished'
  BY <1>1, WorkersKept DEF Collected, workVars, mainVars
<1>4. NoWorkerOutside' /\ RunIsFresh'
  BY <1>1 DEF NoWorkerOutside, RunIsFresh, Busy
<1>5. Progress'
  BY <1>0, <1>1 DEF Progress, OnLevel, Collected, levelVars, mainVars, workVars
<1> QED BY <1>0, <1>2, <1>3, <1>4, <1>5 DEF IInv

\* Run() leaves, with results or an exception, and nothing is left running:
\* the futures in `running` were joined, the others had been collected.
LEMMA LeaveIInv == ASSUME IInv, Unwind \/ Return PROVE IInv'
<1>0. TypeOK' /\ TypeOK /\ Progress /\ Busy /\ LevelsOrdered
  BY RunTypes DEF RunStep, IInv, Unwind, Return, Busy
<1>1. /\ main # "idle" /\ main' = "idle"
      /\ \A t \in batch : ~ WorkerLive(t)
      /\ UNCHANGED <<suiteVars, levelVars, results, workVars>>
  BY <1>0 DEF Unwind, Return, Busy
<1>2. LevelsOrdered'
  BY <1>0, <1>1, OrderUnchanged
<1>3. WorkerAndBody' /\ DependenciesFinished'
  BY <1>1, WorkersKept DEF Collected, workVars
<1>4. ASSUME NEW t \in Names PROVE ~ WorkerLive(t)'
  <2>1. ~ WorkerLive(t)
    BY <1>1, LiveIsInBatch
  <2> QED BY <2>1, <1>1 DEF WorkerLive, workVars
<1>5. NoWorkerOutside' /\ RunIsFresh' /\ Progress'
  BY <1>1, <1>4 DEF NoWorkerOutside, RunIsFresh, Progress, Busy
<1> QED BY <1>0, <1>2, <1>3, <1>5 DEF IInv

LEMMA StutterIInv == ASSUME IInv, UNCHANGED vars PROVE IInv'
<1>1. UNCHANGED <<sVars, mainVars, workVars>>
  BY DEF vars
<1>2. TypeOK'
  BY <1>1, SuiteTypesKept, MainTypesKept, WorkTypesKept DEF IInv, TypeOK
<1>3. LevelsOrdered'
  BY <1>1, OrderUnchanged DEF IInv, sVars, suiteVars, levelVars
<1>4. WorkerAndBody' /\ DependenciesFinished'
  BY <1>1, WorkersKept DEF Collected, sVars, suiteVars, mainVars, workVars
<1>5. NoWorkerOutside' /\ RunIsFresh' /\ Progress'
  BY <1>1 DEF IInv, NoWorkerOutside, RunIsFresh, Progress, OnLevel, Collected, Busy,
              WorkerLive, sVars, mainVars, workVars
<1> QED BY <1>2, <1>3, <1>4, <1>5 DEF IInv

LEMMA StepIInv == IInv /\ [Next]_vars => IInv'
<1> SUFFICES ASSUME IInv, [Next]_vars PROVE IInv'
  OBVIOUS
<1>1. CASE RunStep
  BY <1>1, NextLevelIInv, StartBatchIInv, LaunchIInv, CollectIInv, ToUnwindIInv, LeaveIInv
  DEF RunStep
<1> QED BY <1>1, CallIInv, ThreadStepIInv, StutterIInv DEF Next

------------------------------------------------------------------------------
(* Theorems *)

LEMMA SpecIInv == Spec => []IInv
BY InitIInv, StepIInv, PTL DEF Spec

\* The sequencer never leaves its types (Sequencer::Run, RunOne).
THEOREM TypeCorrect == Spec => []TypeOK
<1>1. IInv => TypeOK
  BY DEF IInv
<1> QED BY <1>1, SpecIInv, PTL

\* A test starts only after its dependencies have ended and were collected,
\* even when they timed out.
THEOREM DependenciesFirst == Spec => []DependenciesFinished
<1>1. IInv => DependenciesFinished
  BY DEF IInv
<1> QED BY <1>1, SpecIInv, PTL

LEMMA ExecutingInBatch ==
  ASSUME IInv
  PROVE  Executing \subseteq batch /\ Cardinality(Executing) <= Width
<1>1. ASSUME NEW t \in Executing PROVE t \in batch /\ Busy
  <2>1. WorkerLive(t) /\ t \in Names
    BY HookIsLive DEF Executing, WorkerLive, IInv, TypeOK
  <2> QED BY <2>1, LiveIsInBatch
<1>2. CASE Executing = {}
  BY <1>2, FS_EmptySet, WidthType
<1>3. CASE Executing # {}
  <2>1. Cardinality(batch) <= Width
    BY <1>1, <1>3 DEF IInv, Progress
  <2>2. IsFiniteSet(batch) /\ Executing \in SUBSET batch
    BY <1>1, NamesAssumption, FS_Subset DEF IInv, TypeOK, MainTypeOK
  <2>3. Cardinality(Executing) <= Cardinality(batch)
    BY <2>2, FS_Subset
  <2>4. Cardinality(batch) \in Nat /\ Cardinality(Executing) \in Nat
    BY <2>2, FS_Subset, FS_CardinalityType
  <2> QED BY <1>1, <2>1, <2>3, <2>4, WidthType
<1> QED BY <1>1, <1>2, <1>3

\* Once Run() has returned or thrown, none of its threads is left.
THEOREM NoThreadLeaks == Spec => []NoOrphanThreads
<1>1. IInv => NoOrphanThreads
  <2> SUFFICES ASSUME IInv, main \in {"idle", "levels"}, NEW t \in Names
               PROVE  ~ WorkerLive(t) /\ t \notin Executing
    BY DEF NoOrphanThreads
  <2>1. ~ WorkerLive(t)
    BY DEF IInv, NoWorkerOutside, Busy
  <2> QED BY <2>1, HookIsLive DEF WorkerLive, IInv, TypeOK
<1> QED BY <1>1, SpecIInv, PTL

\* No more tests run together than the caller allowed.
THEOREM ParallelismBounded == Spec => []BoundedParallelism
<1>1. IInv => BoundedParallelism
  BY ExecutingInBatch DEF BoundedParallelism
<1> QED BY <1>1, SpecIInv, PTL

------------------------------------------------------------------------------
(* The sequencer implements DependencyOrder *)

LEMMA StageFacts ==
  ASSUME WorkTypeOK
  PROVE  /\ Order!Running = Executing
         /\ \A t \in Names : /\ StageOf[t] = "waiting" <=> body[t] = "none"
                             /\ StageOf[t] = "finished" <=> body[t] = "done"
                             /\ StageOf[t] = "running" <=> t \in Executing
BY DEF WorkTypeOK, StageOf, Order!Running, Executing, Stages

LEMMA OrderStarts ==
  ASSUME IInv, NEW x \in Names, StartBody(x)
  PROVE  Order!Start(x)
<1>1. WorkTypeOK /\ WorkerLive(x) /\ body[x] = "none" /\ x \in batch
      /\ body' = [body EXCEPT ![x] = "setup"] /\ UNCHANGED dependsOn
  <2>1. WorkerLive(x) /\ worker[x] = "measured"
    BY DEF StartBody, MoveWorker, WorkerLive
  <2> QED BY <2>1, LiveIsInBatch
          DEF StartBody, IInv, TypeOK, WorkerAndBody, InStep, sVars
<1>2. StageOf[x] = "waiting" /\ x \notin Executing
  BY <1>1, StageFacts DEF Executing, Stages
<1>3. \A d \in dependsOn[x] : StageOf[d] = "finished"
  <2>1. \A d \in dependsOn[x] : d \in Names /\ body[d] = "done"
    BY <1>1 DEF IInv, TypeOK, SuiteTypeOK, DependenciesFinished, WorkerLive
  <2> QED BY <2>1, <1>1, StageFacts
<1>4. Cardinality(Executing) < Width
  <2>1. IsFiniteSet(batch) /\ Executing \in SUBSET batch
    BY ExecutingInBatch, NamesAssumption, FS_Subset DEF IInv, TypeOK, MainTypeOK
  <2>2. /\ Cardinality(Executing) \in Nat /\ Cardinality(batch) \in Nat
        /\ Cardinality(Executing) <= Cardinality(batch)
        /\ Cardinality(Executing) # Cardinality(batch)
    BY <2>1, <1>1, <1>2, FS_Subset, FS_CardinalityType
  <2>3. Cardinality(batch) <= Width
    BY <1>1, LiveIsInBatch DEF IInv, Progress
  <2> QED BY <2>2, <2>3, WidthType
<1>5. StageOf' = [StageOf EXCEPT ![x] = "running"]
  BY <1>1 DEF StageOf, WorkTypeOK
<1>6. Order!Cardinality(Order!Running) < Width
  <2>1. Order!Cardinality(Executing) = Cardinality(Executing)
    BY DEF Order!Cardinality, Cardinality
  <2> QED BY <2>1, <1>1, <1>4, StageFacts
<1> QED BY <1>1, <1>2, <1>3, <1>5, <1>6 DEF Order!Start

LEMMA OrderFollowsHooks ==
  ASSUME IInv, NEW x \in Names, BodyStep(x)
  PROVE  Order!Finish(x) \/ UNCHANGED <<dependsOn, StageOf>>
<1>1. WorkTypeOK /\ x \in Executing /\ UNCHANGED dependsOn
      /\ \E next \in {"test", "teardown", "done", "wedged", body[x]} :
           body' = [body EXCEPT ![x] = next]
  <2>1. CASE Bump(x)
    <3>1. body' = [body EXCEPT ![x] = body[x]]
      BY <2>1 DEF Bump, IInv, TypeOK, WorkTypeOK
    <3> QED BY <2>1, <3>1 DEF Bump, Executing, IInv, TypeOK, sVars
  <2>2. CASE HookStep(x) \/ Wedge(x)
    BY <2>2 DEF HookStep, Setup, TestBody, Teardown, HookEnds, Wedge, Executing, Stages,
                IInv, TypeOK, sVars
  <2> QED BY <2>1, <2>2 DEF BodyStep
<1>2. PICK next \in {"test", "teardown", "done", "wedged", body[x]} :
        body' = [body EXCEPT ![x] = next]
  BY <1>1
<1>3. StageOf[x] = "running"
  BY <1>1, StageFacts DEF Executing
<1>4. CASE next = "done"
  <2>1. StageOf' = [StageOf EXCEPT ![x] = "finished"]
    BY <1>1, <1>2, <1>4 DEF StageOf, WorkTypeOK
  <2> QED BY <2>1, <1>1, <1>3 DEF Order!Finish
<1>5. CASE next # "done"
  <2>1. next # "none" /\ next # "done" /\ body[x] # "none" /\ body[x] # "done"
    BY <1>1, <1>5 DEF Executing, Stages
  <2>2. StageOf' = StageOf
    BY <1>1, <1>2, <2>1 DEF StageOf, WorkTypeOK
  <2> QED BY <2>2, <1>1
<1> QED BY <1>4, <1>5

LEMMA OrderFollowsClient ==
  ASSUME IInv, ClientCall
  PROVE  \/ UNCHANGED <<dependsOn, StageOf>>
         \/ \E n \in Names : \E D \in SUBSET Names : Order!Declare(n, D)
<1>1. UNCHANGED StageOf
  BY DEF ClientCall, StageOf, workVars
<1>2. ASSUME NEW n \in Names, NEW deps \in DepLists[n], Add(n, deps)
      PROVE  Order!Declare(n, deps) /\ deps \in SUBSET Names
  <2>1. WorkTypeOK /\ main = "idle" /\ worker[n] = "none"
    BY <1>2 DEF Add, IInv, TypeOK, WorkerAndBody, InStep
  <2>2. body[n] = "none"
    BY <2>1 DEF IInv, WorkerAndBody, InStep
  <2>3. Executing = {}
    BY <2>1, HookIsLive DEF IInv, NoWorkerOutside, Busy, WorkerLive, Executing
  <2> QED BY <1>1, <1>2, <2>1, <2>2, <2>3, StageFacts, DepListsAssumption
          DEF Add, Order!Declare
<1>3. CASE (\E n \in Names \cup {EmptyName} : AddRejected(n)) \/ CallLevels("idle")
  BY <1>1, <1>3 DEF AddRejected, CallLevels, suiteVars
<1> QED BY <1>2, <1>3 DEF ClientCall, Client

LEMMA OrderRestarts ==
  ASSUME IInv, BeginRun
  PROVE  Order!Restart
<1>1. WorkTypeOK /\ Executing = {}
  BY HookIsLive DEF BeginRun, CallLevels, IInv, TypeOK, NoWorkerOutside, Busy, WorkerLive,
                    Executing
<1>2. UNCHANGED dependsOn /\ body' = Each("none")
  BY DEF BeginRun, CallLevels, suiteVars
<1>3. StageOf' = [t \in Names |-> "waiting"]
  BY <1>2 DEF StageOf, Each
<1> QED BY <1>1, <1>2, <1>3, StageFacts DEF Order!Restart

LEMMA OrderStep == IInv /\ [Next]_vars => [Order!Next]_(Order!orderVars)
<1> SUFFICES ASSUME IInv, [Next]_vars PROVE Order!Next \/ UNCHANGED <<dependsOn, StageOf>>
  BY DEF Order!orderVars
<1>1. ASSUME UNCHANGED body, UNCHANGED dependsOn PROVE UNCHANGED <<dependsOn, StageOf>>
  BY <1>1 DEF StageOf
<1>2. CASE ClientCall
  BY <1>2, OrderFollowsClient DEF Order!Next
<1>3. CASE BeginRun
  BY <1>3, OrderRestarts DEF Order!Next
<1>4. CASE Levelling
  BY <1>4, <1>1 DEF Levelling, LevelsStep, Round, RejectCycle, LevelsReturn, suiteVars, workVars
<1>5. CASE RunStep
  BY <1>5, <1>1 DEF RunStep, NextLevel, StartBatch, LaunchFails, Unwind, Return, Launch,
                    Collect, CollectThrows, sVars, suiteVars, workVars
<1>6. ASSUME NEW x \in Names, WorkerStep(x)
      PROVE  Order!Next \/ UNCHANGED <<dependsOn, StageOf>>
  <2>1. CASE StartBody(x)
    BY <2>1, OrderStarts DEF Order!Next
  <2>2. CASE ReadCounter(x) \/ StartBodyFails(x) \/ TimesOut(x) \/ Finish(x)
    BY <2>2, <1>1 DEF ReadCounter, StartBodyFails, TimesOut, Finish, ReturnResult, sVars
  <2> QED BY <1>6, <2>1, <2>2 DEF WorkerStep
<1>7. ASSUME NEW x \in Names, BodyStep(x)
      PROVE  Order!Next \/ UNCHANGED <<dependsOn, StageOf>>
  BY <1>7, OrderFollowsHooks DEF Order!Next
<1>8. CASE UNCHANGED vars
  BY <1>8, <1>1 DEF vars, sVars, workVars
<1> QED BY <1>2, <1>3, <1>4, <1>5, <1>6, <1>7, <1>8 DEF Next

\* Levels, batches, workers and futures together schedule tests as
\* DependencyOrder says.
THEOREM SequencerImplementsOrder == Spec => ImplementsOrder
<1>1. Init => Order!Init
  BY DEF Init, SuiteInit, RunInit, Order!Init, StageOf, Each
<1> QED BY <1>1, OrderStep, SpecIInv, PTL DEF Spec, ImplementsOrder, Order!Spec

------------------------------------------------------------------------------
(* The verdicts *)

\* What the hooks of t did is told by how far its thread is: setup first, the
\* body unless setup threw, teardown whatever the body did; and the future
\* holds the last exception.
HookRecord(t) ==
  /\ body[t] \in {"none", "setup"} => calls[t] = {} /\ exn[t] = "none"
  /\ body[t] = "test" => calls[t] = {<<"setup", "none">>} /\ exn[t] = "none"
  /\ body[t] = "teardown" => calls[t] = {<<"setup", "none">>, <<"test", exn[t]>>}
  /\ body[t] = "done" =>
       \/ exn[t] # "none" /\ calls[t] = {<<"setup", exn[t]>>}
       \/ \E r, q \in Exceptions \cup {"none"} :
            /\ calls[t] = {<<"setup", "none">>, <<"test", r>>, <<"teardown", q>>}
            /\ exn[t] = IF q = "none" THEN r ELSE q

StatusOf(e) == [none |-> "Pass", std |-> "Fail", other |-> "Error"][e]

\* A result is there only when RunOne has returned, under the name of its test.
ResultRecord(t) ==
  outcome[t] # NoResult =>
    /\ worker[t] = "returned" /\ outcome[t].name = t
    /\ outcome[t].status \in {"Timeout", StatusOf(exn[t])}

Recorded == \A t \in Names : HookRecord(t) /\ ResultRecord(t)

LEMMA HookEndsRecorded ==
  ASSUME WorkTypeOK, NEW x \in Names, HookRecord(x), HookStep(x)
  PROVE  HookRecord(x)'
<1>0. "none" \notin Exceptions
  BY HookAssumption
<1>1. ASSUME NEW stage \in Stages, NEW r \in Exceptions \cup {"none"},
             NEW next \in {"test", "teardown", "done"}, HookEnds(x, stage, r, next)
      PROVE  /\ body[x] = stage /\ body'[x] = next
             /\ calls'[x] = calls[x] \cup {<<stage, r>>}
             /\ exn'[x] = IF r = "none" THEN exn[x] ELSE r
  BY <1>1 DEF HookEnds, WorkTypeOK
<1>2. CASE Setup(x)
  <2>1. CASE HookEnds(x, "setup", "none", "test")
    <3>1. body[x] = "setup" /\ body'[x] = "test"
          /\ calls'[x] = calls[x] \cup {<<"setup", "none">>} /\ exn'[x] = exn[x]
      BY <2>1, <1>1 DEF Stages
    <3> QED BY <3>1 DEF HookRecord
  <2>2. ASSUME NEW e \in Exceptions, HookEnds(x, "setup", e, "done")
        PROVE  HookRecord(x)'
    <3>1. body[x] = "setup" /\ body'[x] = "done"
          /\ calls'[x] = calls[x] \cup {<<"setup", e>>} /\ exn'[x] = e
      BY <2>2, <1>0, <1>1 DEF Stages
    <3> QED BY <3>1, <1>0 DEF HookRecord
  <2> QED BY <1>2, <2>1, <2>2 DEF Setup
<1>3. ASSUME NEW r \in Exceptions \cup {"none"}, HookEnds(x, "test", r, "teardown")
      PROVE  HookRecord(x)'
  <2>1. body[x] = "test" /\ body'[x] = "teardown"
        /\ calls'[x] = calls[x] \cup {<<"test", r>>}
        /\ exn'[x] = IF r = "none" THEN exn[x] ELSE r
    BY <1>1, <1>3 DEF Stages
  <2>2. calls[x] = {<<"setup", "none">>} /\ exn'[x] = r
    BY <2>1 DEF HookRecord
  <2> QED BY <2>1, <2>2 DEF HookRecord
<1>4. ASSUME NEW q \in Exceptions \cup {"none"}, HookEnds(x, "teardown", q, "done")
      PROVE  HookRecord(x)'
  <2>1. body[x] = "teardown" /\ body'[x] = "done"
        /\ calls'[x] = calls[x] \cup {<<"teardown", q>>}
        /\ exn'[x] = IF q = "none" THEN exn[x] ELSE q
    BY <1>1, <1>4 DEF Stages
  <2>2. exn[x] \in Exceptions \cup {"none"}
    BY DEF WorkTypeOK
  <2>3. calls'[x] = {<<"setup", "none">>, <<"test", exn[x]>>, <<"teardown", q>>}
    BY <2>1 DEF HookRecord
  <2> QED BY <2>1, <2>2, <2>3 DEF HookRecord
<1> QED BY <1>2, <1>3, <1>4 DEF HookStep, TestBody, Teardown

\* The test x moves, the others do not.
LEMMA ThreadStepRecorded ==
  ASSUME IInv, Recorded, NEW x \in Names, WorkerStep(x) \/ BodyStep(x)
  PROVE  Recorded'
<1>0. WorkTypeOK /\ HookRecord(x) /\ ResultRecord(x)
  BY DEF IInv, TypeOK, Recorded
<1>1. WorkerLive(x) /\ \A t \in Names \ {x} :
        /\ worker'[t] = worker[t] /\ body'[t] = body[t] /\ outcome'[t] = outcome[t]
        /\ calls'[t] = calls[t] /\ exn'[t] = exn[t]
  <2>1. ThreadMoves(x)
    BY ThreadStepMoves
  <2>2. \A t \in Names \ {x} : calls'[t] = calls[t] /\ exn'[t] = exn[t]
    BY <1>0 DEF WorkerStep, ReadCounter, StartBody, StartBodyFails, TimesOut, Finish,
         ReturnResult, BodyStep, HookStep, Setup, TestBody, Teardown, HookEnds, Bump, Wedge,
         WorkTypeOK
  <2> QED BY <2>1, <2>2 DEF ThreadMoves
<1>2. \A t \in Names \ {x} : HookRecord(t)' /\ ResultRecord(t)'
  BY <1>1 DEF Recorded, HookRecord, ResultRecord
<1>3. outcome[x] = NoResult
  BY <1>0, <1>1 DEF ResultRecord, WorkerLive
<1> SUFFICES HookRecord(x)' /\ ResultRecord(x)'
  BY <1>2 DEF Recorded
<1>4. CASE ReadCounter(x) \/ StartBodyFails(x) \/ TimesOut(x)
  BY <1>0, <1>3, <1>4
  DEF ReadCounter, StartBodyFails, TimesOut, HookRecord, ResultRecord
<1>5. CASE StartBody(x)
  <2>1. body[x] = "none"
    BY <1>5 DEF StartBody, MoveWorker, IInv, WorkerAndBody, InStep
  <2> QED BY <1>0, <1>3, <1>5, <2>1 DEF StartBody, HookRecord, ResultRecord, WorkTypeOK
<1>6. CASE Finish(x)
  <2>1. /\ worker'[x] = "returned" /\ outcome'[x].name = x
        /\ outcome'[x].status \in {"Timeout", StatusOf(exn[x])}
    BY <1>0, <1>6 DEF Finish, ReturnResult, Status, StatusOf, WorkTypeOK
  <2> QED BY <1>0, <1>6, <2>1 DEF Finish, ReturnResult, HookRecord, ResultRecord
<1>7. CASE HookStep(x)
  <2>1. HookRecord(x)' /\ outcome' = outcome
    BY <1>0, <1>7, HookEndsRecorded DEF HookStep, Setup, TestBody, Teardown, HookEnds
  <2> QED BY <1>3, <2>1 DEF ResultRecord
<1>8. CASE Bump(x)
  BY <1>0, <1>3, <1>8 DEF Bump, HookRecord, ResultRecord
<1>9. CASE Wedge(x)
  BY <1>0, <1>3, <1>9 DEF Wedge, HookRecord, ResultRecord, WorkTypeOK
<1> QED
  BY <1>4, <1>5, <1>6, <1>7, <1>8, <1>9 DEF WorkerStep, BodyStep

LEMMA RecordedInvariant == Spec => []Recorded
<1>1. Init => Recorded
  BY DEF Init, RunInit, Each, Recorded, HookRecord, ResultRecord
<1>2. IInv /\ Recorded /\ [Next]_vars => Recorded'
  <2> SUFFICES ASSUME IInv, Recorded, [Next]_vars PROVE Recorded'
    OBVIOUS
  <2>1. CASE UNCHANGED workVars
    BY <2>1 DEF Recorded, HookRecord, ResultRecord, workVars
  <2>2. CASE BeginRun
    BY <2>2 DEF BeginRun, Each, Recorded, HookRecord, ResultRecord
  <2>3. ASSUME NEW x \in Names, Launch(x) PROVE Recorded'
    <3>1. outcome[x] = NoResult
      BY <2>3 DEF Launch, IsNext, Unlaunched, Recorded, ResultRecord
    <3> QED BY <2>3, <3>1 DEF Launch, Recorded, HookRecord, ResultRecord, IInv, TypeOK, WorkTypeOK
  <2>4. CASE RunStep
    BY <2>1, <2>3, <2>4 DEF RunStep, NextLevel, StartBatch, LaunchFails, Unwind, Return, Collect,
                       CollectThrows
  <2> QED BY <2>1, <2>2, <2>4, ThreadStepRecorded DEF Next, ClientCall, Levelling, vars
<1> QED BY <1>1, <1>2, SpecIInv, PTL DEF Spec

\* Pass, Fail and Error say what the hooks did, whichever of them threw, and
\* a test that has a result has ended, with its teardown if it had a body.
THEOREM VerdictsAreHonest == Spec => []HonestVerdict
<1>1. IInv /\ Recorded => HonestVerdict
  <2> SUFFICES ASSUME IInv, Recorded, NEW t \in Names, outcome[t] # NoResult
               PROVE  /\ outcome[t].status = "Pass" => calls[t] = Stages \X {"none"}
                      /\ outcome[t].status = "Fail" => \E s \in Stages : <<s, "std">> \in calls[t]
                      /\ outcome[t].status = "Error" => \E s \in Stages : <<s, "other">> \in calls[t]
                      /\ Ended(t) \in {Stages, {"setup"}}
    BY DEF HonestVerdict
  <2>1. /\ body[t] = "done" /\ HookRecord(t) /\ ResultRecord(t)
        /\ exn[t] \in {"none", "std", "other"} /\ "none" \notin Exceptions
    BY HookAssumption DEF IInv, TypeOK, WorkTypeOK, Recorded, ResultRecord, WorkerAndBody, InStep
  <2>2. /\ outcome[t].status = "Pass" => exn[t] = "none"
        /\ outcome[t].status = "Fail" => exn[t] = "std"
        /\ outcome[t].status = "Error" => exn[t] = "other"
    BY <2>1 DEF ResultRecord, StatusOf
  <2>3. CASE exn[t] # "none" /\ calls[t] = {<<"setup", exn[t]>>}
    <3>1. Ended(t) = {"setup"}
      BY <2>3 DEF Ended
    <3> QED BY <2>1, <2>2, <2>3, <3>1 DEF Stages
  <2>4. ASSUME NEW r \in Exceptions \cup {"none"}, NEW q \in Exceptions \cup {"none"},
               calls[t] = {<<"setup", "none">>, <<"test", r>>, <<"teardown", q>>},
               exn[t] = IF q = "none" THEN r ELSE q
        PROVE  /\ exn[t] = "none" => calls[t] = Stages \X {"none"}
               /\ exn[t] # "none" => \E s \in Stages : <<s, exn[t]>> \in calls[t]
               /\ Ended(t) = Stages
    <3>1. Ended(t) = Stages
      BY <2>4 DEF Ended, Stages
    <3>2. exn[t] = "none" => r = "none" /\ q = "none"
      BY <2>4
    <3>3. Stages \X {"none"} = {<<"setup", "none">>, <<"test", "none">>, <<"teardown", "none">>}
      BY DEF Stages
    <3>4. exn[t] # "none" => \E s \in Stages : <<s, exn[t]>> \in calls[t]
      BY <2>4 DEF Stages
    <3> QED BY <2>4, <3>1, <3>2, <3>3, <3>4
  <2> QED BY <2>1, <2>2, <2>3, <2>4 DEF HookRecord
<1> QED BY <1>1, RecordedInvariant, SpecIInv, PTL

------------------------------------------------------------------------------
(* The results Run() returns *)

\* A result is of the level its test is in, and what is collected of a test
\* is its result.
Filed ==
  \A t \in Names :
    /\ results[t] \in {NoResult, outcome[t]}
    /\ Busy /\ outcome[t] # NoResult =>
         outcome[t].level + 1 \in 1..Len(levels) /\ t \in levels[outcome[t].level + 1]

\* The inductive invariant, on top of IInv and Recorded.
ReturnInv == LevelInv /\ Filed /\ CompleteOrderedResults

LEMMA LevelInvKept ==
  ASSUME IInv, LevelInv, [Next]_vars
  PROVE  LevelInv'
<1>0. SuiteTypeOK'
  BY StepIInv DEF IInv, TypeOK
<1>1. CASE ClientCall \/ BeginRun \/ Levelling
  BY <1>1, LevelInvStep DEF ClientCall, BeginRun, Levelling, SuiteNext
<1>2. CASE RunStep
  <2>1. /\ main # "idle" /\ thrown' \in {thrown, "thread launch"}
        /\ UNCHANGED <<suiteVars, levelVars>>
    BY <1>2 DEF RunStep, NextLevel, StartBatch, LaunchFails, Unwind, Return, Launch, Collect,
                CollectThrows, sVars, suiteVars, levelVars
  <2> QED BY <1>0, <2>1, LevelInvUnchanged
<1>3. CASE UNCHANGED sVars
  <2>1. UNCHANGED <<suiteVars, levelVars, main, thrown>>
    BY <1>3 DEF sVars, suiteVars, levelVars
  <2> QED BY <1>0, <2>1, LevelInvUnchanged
<1>4. ASSUME NEW x \in Names, WorkerStep(x) \/ BodyStep(x) PROVE UNCHANGED sVars
  BY <1>4, ThreadStepMoves DEF ThreadMoves
<1> QED BY <1>1, <1>2, <1>3, <1>4 DEF Next, vars

LEMMA FiledStep ==
  ASSUME IInv, Recorded, Filed, [Next]_vars
  PROVE  Filed'
<1>1. CASE BeginRun
  BY <1>1 DEF BeginRun, Each, Filed
<1>2. CASE ClientCall \/ Levelling
  <2>1. /\ UNCHANGED <<results, outcome>> /\ ~ Busy
    BY <1>2 DEF ClientCall, Levelling, Client, Add, AddRejected, CallLevels, LevelsStep, Round,
                RejectCycle, LevelsReturn, mainVars, workVars, Busy
  <2>2. CASE ~ Busy'
    BY <2>1, <2>2 DEF Filed
  <2>3. CASE Busy'
    <3>1. LevelsReturn /\ after = "run" /\ main = "levels" /\ UNCHANGED workVars
      BY <1>2, <2>3 DEF ClientCall, Levelling, Client, Add, AddRejected, CallLevels, LevelsStep,
                        Round, RejectCycle, LevelsReturn, Busy, IInv, TypeOK, SuiteTypeOK
    <3>2. \A t \in Names : outcome[t] = NoResult
      BY <3>1 DEF IInv, RunIsFresh, Recorded, ResultRecord
    <3> QED BY <2>1, <3>2 DEF Filed
  <2> QED BY <2>2, <2>3
<1>3. ASSUME NEW x \in Names, Collect(x) PROVE Filed'
  BY <1>3 DEF Collect, Filed, Busy, IInv, TypeOK, MainTypeOK, sVars, workVars
<1>4. CASE RunStep
  BY <1>3, <1>4 DEF RunStep, NextLevel, StartBatch, LaunchFails, Unwind, Return, Launch,
                    CollectThrows, Filed, Busy, sVars, suiteVars, levelVars, mainVars, workVars
<1>5. ASSUME NEW x \in Names, WorkerStep(x) \/ BodyStep(x) PROVE Filed'
  <2>1. /\ ThreadMoves(x) /\ Busy /\ levelIndex \in 1..Len(levels) /\ x \in levels[levelIndex]
        /\ outcome[x] = NoResult
    BY <1>5, ThreadStepMoves, LiveIsInBatch
    DEF ThreadMoves, Recorded, ResultRecord, WorkerLive
  <2>2. /\ UNCHANGED <<results, levels, main>>
        /\ \A t \in Names \ {x} : outcome'[t] = outcome[t]
        /\ results[x] = NoResult
    BY <2>1 DEF ThreadMoves, sVars, mainVars, Filed
  <2>3. outcome'[x] = NoResult \/ outcome'[x].level = levelIndex - 1
    BY <1>5, <2>1 DEF WorkerStep, ReadCounter, StartBody, StartBodyFails, TimesOut, Finish,
         ReturnResult, BodyStep, HookStep, Setup, TestBody, Teardown, HookEnds, Bump, Wedge,
         IInv, TypeOK, WorkTypeOK
  <2>4. (levelIndex - 1) + 1 = levelIndex
    BY <2>1
  <2> QED BY <2>1, <2>2, <2>3, <2>4 DEF Filed, Busy
<1>6. CASE UNCHANGED vars
  BY <1>6 DEF Filed, Busy, vars, sVars, mainVars, workVars
<1> QED BY <1>1, <1>2, <1>4, <1>5, <1>6 DEF Next

\* When the last level is empty every registered test has been collected.
LEMMA ReturnIsComplete ==
  ASSUME IInv, Recorded, ReturnInv, Return
  PROVE  CompleteOrderedResults'
<1>1. /\ Busy /\ main # "idle" /\ batch = {} /\ rest = {} /\ levelIndex = Len(levels)
      /\ Progress /\ pending = {} /\ SuiteTypeOK /\ LevelsOrdered
  BY DEF Return, Busy, IInv, TypeOK, Progress
<1>2. /\ returned' = [i \in 1..Len(declared) |-> results[declared[i]]]
      /\ declared' = declared /\ Len(declared) \in Nat
      /\ UNCHANGED suiteVars
  <2>1. declared \in Seq(Names)
    BY <1>1 DEF SuiteTypeOK
  <2> QED BY <2>1 DEF Return, suiteVars
<1>3. ASSUME NEW i \in 1..Len(declared)
      PROVE  /\ returned'[i].name = declared[i] /\ returned'[i].status # "Skip"
             /\ HasChain(declared[i], returned'[i].level + 1)
             /\ ~ HasChain(declared[i], returned'[i].level + 2)
  <2> DEFINE t == declared[i]
  <2>1. t \in Registered /\ t \in Names
    BY <1>1, RegisteredType DEF Registered
  <2>2. PICK j \in 1..Len(levels) : t \in levels[j]
    BY <1>1, <2>1, LevelFacts
  <2>3. Collected(t)
    BY <1>1, <2>2 DEF Progress, OnLevel
  <2>4. results[t] = outcome[t] /\ outcome[t] # NoResult /\ returned'[i] = outcome[t]
    BY <1>2, <2>1, <2>3 DEF Collected, ReturnInv, Filed
  <2>5. /\ outcome[t].name = t
        /\ outcome[t].status \in {"Timeout", StatusOf(exn[t])}
        /\ exn[t] \in {"none", "std", "other"}
    BY <2>1, <2>4, HookAssumption DEF Recorded, ResultRecord, IInv, TypeOK, WorkTypeOK
  <2>6. outcome[t].status # "Skip"
    BY <2>5 DEF StatusOf
  <2>7. outcome[t].level \in Nat
    BY <2>1 DEF IInv, TypeOK, WorkTypeOK, Result
  <2>8. outcome[t].level + 1 \in 1..Len(levels) /\ t \in levels[outcome[t].level + 1]
    BY <1>1, <2>1, <2>4 DEF ReturnInv, Filed
  <2>9. /\ HasChain(t, outcome[t].level + 1) /\ ~ HasChain(t, (outcome[t].level + 1) + 1)
    BY <1>1, <2>8 DEF ReturnInv, LevelInv, LevelsAreDepths
  <2>10. (outcome[t].level + 1) + 1 = outcome[t].level + 2
    BY <2>7
  <2> QED BY <2>4, <2>5, <2>6, <2>9, <2>10
<1>4. Len(returned') = Len(declared)
  BY <1>2
<1> QED BY <1>2, <1>3, <1>4, ChainsUnchanged DEF CompleteOrderedResults

LEMMA ReturnInvStep ==
  ASSUME IInv, Recorded, ReturnInv, [Next]_vars
  PROVE  ReturnInv'
<1>1. LevelInv' /\ Filed'
  BY LevelInvKept, FiledStep DEF ReturnInv
<1>2. CASE Return
  BY <1>1, <1>2, ReturnIsComplete DEF ReturnInv
<1>3. CASE returned' = <<>>
  BY <1>1, <1>3 DEF ReturnInv, CompleteOrderedResults
<1>4. CASE UNCHANGED <<suiteVars, returned>>
  <2>1. declared' = declared /\ returned' = returned
    BY <1>4 DEF suiteVars
  <2>2. \A n, k : HasChain(n, k)' <=> HasChain(n, k)
    BY <1>4, ChainsUnchanged
  <2> QED BY <1>1, <2>1, <2>2 DEF ReturnInv, CompleteOrderedResults
<1>5. ASSUME NEW x \in Names, WorkerStep(x) \/ BodyStep(x)
      PROVE  UNCHANGED <<suiteVars, returned>>
  BY <1>5, ThreadStepMoves DEF ThreadMoves, sVars, suiteVars, mainVars
<1>6. CASE RunStep /\ ~ Return
  BY <1>4, <1>6 DEF RunStep, NextLevel, StartBatch, LaunchFails, Unwind, Launch, Collect,
                    CollectThrows, sVars, suiteVars, mainVars
<1>7. CASE Levelling
  BY <1>4, <1>7 DEF Levelling, LevelsStep, Round, RejectCycle, LevelsReturn, mainVars
<1>8. CASE UNCHANGED vars
  BY <1>4, <1>8 DEF vars, sVars, suiteVars, mainVars
<1>9. CASE ClientCall \/ BeginRun
  BY <1>3, <1>9 DEF ClientCall, BeginRun
<1> QED BY <1>2, <1>4, <1>5, <1>6, <1>7, <1>8, <1>9 DEF Next

LEMMA ReturnInvInvariant == Spec => []ReturnInv
<1>1. Init => ReturnInv
  BY LevelInvInit
  DEF Init, SuiteInit, RunInit, Each, ReturnInv, Filed, Busy, CompleteOrderedResults
<1> QED BY <1>1, ReturnInvStep, SpecIInv, RecordedInvariant, PTL DEF Spec

\* When Run() returns, nothing is missing, skipped or out of place, however
\* its threads interleaved; and the levels told are the depths.
THEOREM ResultsAreComplete == Spec => []CompleteOrderedResults
<1>1. ReturnInv => CompleteOrderedResults
  BY DEF ReturnInv
<1> QED BY <1>1, ReturnInvInvariant, PTL

\* The levels Run() works through, and the reasons it throws for, are those
\* Levels() owes its caller; a thread that cannot be launched changes neither.
THEOREM RunLevelsAreTheDepths == Spec => [](LevelsAreDepths /\ VerdictIsRight)
<1>1. ReturnInv => LevelsAreDepths /\ VerdictIsRight
  BY LevelledMeansAcyclic DEF ReturnInv, LevelInv, VerdictIsRight
<1> QED BY <1>1, ReturnInvInvariant, PTL

------------------------------------------------------------------------------
(* What an access is billed to *)

\* A difference of two counter values is one subtraction, or one and a wrap.
LEMMA ModDifference ==
  ASSUME NEW m \in Nat \ {0}, NEW c \in 0..(m - 1), NEW b \in 0..(m - 1)
  PROVE  (c + m - b) % m = IF c >= b THEN c - b ELSE c + m - b
OBVIOUS

LEMMA ModSuccessor ==
  ASSUME NEW m \in Nat \ {0}, NEW c \in 0..(m - 1)
  PROVE  (c + 1) % m = IF c + 1 < m THEN c + 1 ELSE 0
OBVIOUS

LEMMA BumpArithmetic ==
  ASSUME NEW m \in Nat \ {0}, NEW c \in 0..(m - 1), NEW b \in 0..(m - 1),
         NEW d, d = (c + 1) % m
  PROVE  ((c + m - b) % m) + 1 < m => (d + m - b) % m = ((c + m - b) % m) + 1
<1>1. d = IF c + 1 < m THEN c + 1 ELSE 0
  BY ModSuccessor
<1>2. d \in 0..(m - 1)
  BY <1>1
<1>3. (c + m - b) % m = IF c >= b THEN c - b ELSE c + m - b
  BY ModDifference
<1>4. (d + m - b) % m = IF d >= b THEN d - b ELSE d + m - b
  BY <1>2, ModDifference
<1> QED BY <1>1, <1>2, <1>3, <1>4

\* What RunOne(t) would count if it returned now.
Counted(t) == (counter + CounterMod - before[t]) % CounterMod

\* One more access is counted once, unless the counter has gone once around
\* since RunOne(t) read it.
LEMMA CountedBump ==
  ASSUME WorkTypeOK, NEW t \in Names, counter' = (counter + 1) % CounterMod,
         before'[t] = before[t], Counted(t) + 1 < CounterMod
  PROVE  Counted(t)' = Counted(t) + 1
<1>1. /\ CounterMod \in Nat \ {0}
      /\ counter \in 0..(CounterMod - 1) /\ before[t] \in 0..(CounterMod - 1)
  BY CounterAssumption DEF WorkTypeOK
<1>2. (counter' + CounterMod - before[t]) % CounterMod
        = ((counter + CounterMod - before[t]) % CounterMod) + 1
  BY <1>1, BumpArithmetic DEF Counted
<1>3. Counted(t)' = (counter' + CounterMod - before'[t]) % CounterMod
  BY DEF Counted
<1> QED BY <1>2, <1>3 DEF Counted

LEMMA CountedNothing ==
  ASSUME WorkTypeOK, NEW t \in Names, counter' = counter, before'[t] = counter
  PROVE  Counted(t)' = 0
<1>1. CounterMod \in Nat \ {0} /\ counter \in 0..(CounterMod - 1)
  BY CounterAssumption DEF WorkTypeOK
<1>2. Counted(t)' = (counter + CounterMod - counter) % CounterMod
  BY DEF Counted
<1> QED BY <1>1, <1>2, ModDifference

\* RunOne(t) has read the counter and has not returned.
Measuring(t) == worker[t] \in {"measured", "waiting", "overdue"}

\* The accesses of t are the ones counted for t.
BilledAlone(t) ==
  /\ body[t] = "none" => own[t] = 0
  /\ Measuring(t) => Counted(t) = own[t]
  /\ outcome[t] # NoResult => outcome[t].accesses = own[t]

AllBilledAlone == \A t \in Names : BilledAlone(t)

\* One test at a time: whoever makes an access is the one that is measured.
LEMMA OneAtATime ==
  ASSUME IInv, Threads <= 1, NEW t \in Names, WorkerLive(t), NEW x \in Names, WorkerLive(x)
  PROVE  t = x
<1>1. t \in batch /\ x \in batch /\ Cardinality(batch) <= 1
  BY LiveIsInBatch DEF IInv, Progress, Width
<1>2. IsFiniteSet(batch)
  BY NamesAssumption, FS_Subset DEF IInv, TypeOK, MainTypeOK
<1>3. Cardinality(batch) \in Nat /\ Cardinality(batch) # 0
  BY <1>1, <1>2, FS_EmptySet, FS_CardinalityType
<1>4. \E u : batch = {u}
  BY <1>1, <1>2, <1>3, FS_Singleton
<1> QED BY <1>1, <1>4

LEMMA BilledAloneStep ==
  ASSUME IInv, Recorded, AllBilledAlone, Threads <= 1, MaxAccesses < CounterMod, [Next]_vars
  PROVE  AllBilledAlone'
<1>0. WorkTypeOK
  BY DEF IInv, TypeOK
<1>1. CASE UNCHANGED workVars
  BY <1>1 DEF AllBilledAlone, BilledAlone, Measuring, Counted, workVars
<1>2. CASE BeginRun
  BY <1>2 DEF BeginRun, Each, AllBilledAlone, BilledAlone, Measuring
<1>3. ASSUME NEW x \in Names, Launch(x) PROVE AllBilledAlone'
  BY <1>0, <1>3 DEF Launch, AllBilledAlone, BilledAlone, Measuring, Counted, WorkTypeOK
<1>4. CASE RunStep
  BY <1>1, <1>3, <1>4 DEF RunStep, NextLevel, StartBatch, LaunchFails, Unwind, Return, Collect,
                     CollectThrows
<1>5. ASSUME NEW x \in Names, WorkerStep(x) \/ BodyStep(x) PROVE AllBilledAlone'
  <2>0. /\ ThreadMoves(x) /\ WorkerLive(x) /\ outcome[x] = NoResult
    BY <1>5, ThreadStepMoves DEF ThreadMoves, Recorded, ResultRecord, WorkerLive
  <2>1. ASSUME NEW t \in Names \ {x} PROVE BilledAlone(t)'
    <3>1. ~ Measuring(t) /\ ~ Measuring(t)'
      BY <2>0, OneAtATime DEF Measuring, WorkerLive, ThreadMoves
    <3>2. own'[t] = own[t] /\ body'[t] = body[t] /\ outcome'[t] = outcome[t]
      BY <1>0, <1>5, <2>0 DEF ThreadMoves, WorkerStep, ReadCounter, StartBody, StartBodyFails, TimesOut,
           Finish, ReturnResult, BodyStep, HookStep, Setup, TestBody, Teardown, HookEnds, Bump,
           Wedge, WorkTypeOK
    <3> QED BY <3>1, <3>2 DEF AllBilledAlone, BilledAlone
  <2> SUFFICES BilledAlone(x)'
    BY <2>1 DEF AllBilledAlone
  <2>2. BilledAlone(x)
    BY DEF AllBilledAlone
  <2>3. CASE ReadCounter(x)
    <3>0. worker[x] = "started" /\ InStep(x)
      BY <2>3 DEF ReadCounter, MoveWorker, IInv, WorkerAndBody
    <3>1. own[x] = 0
      BY <2>2, <3>0 DEF InStep, BilledAlone
    <3>2. Counted(x)' = 0
      BY <1>0, <2>3, CountedNothing DEF ReadCounter, WorkTypeOK
    <3> QED BY <2>0, <2>3, <3>1, <3>2 DEF ReadCounter, BilledAlone
  <2>4. CASE StartBody(x) \/ StartBodyFails(x) \/ TimesOut(x)
    BY <1>0, <2>0, <2>2, <2>4 DEF StartBody, StartBodyFails, TimesOut, MoveWorker, BilledAlone, Measuring,
                        Counted, WorkTypeOK
  <2>5. CASE Finish(x)
    <3>1. outcome'[x].accesses = own[x] /\ own' = own /\ body' = body
          /\ worker'[x] = "returned"
      BY <1>0, <2>2, <2>5 DEF Finish, ReturnResult, BilledAlone, Measuring, Counted, WorkTypeOK
    <3> QED BY <2>2, <2>5, <3>1 DEF BilledAlone, Measuring
  <2>6. CASE HookStep(x) \/ Wedge(x)
    BY <1>0, <2>0, <2>2, <2>6 DEF HookStep, Setup, TestBody, Teardown, HookEnds, Wedge, BilledAlone,
                        Measuring, Counted, WorkTypeOK, ThreadMoves, InStep, Stages
  <2>7. CASE Bump(x)
    <3>1. /\ own[x] \in 0..MaxAccesses /\ own[x] < MaxAccesses /\ own'[x] = own[x] + 1
          /\ body' = body /\ body[x] # "none" /\ UNCHANGED <<worker, before, outcome>>
      BY <1>0, <2>7 DEF Bump, WorkTypeOK, Stages
    <3>2. Measuring(x) => Counted(x) + 1 < CounterMod
      BY <2>2, <3>1, CounterAssumption DEF BilledAlone
    <3>3. Measuring(x) => Counted(x)' = Counted(x) + 1
      BY <1>0, <2>7, <3>1, <3>2, CountedBump DEF Bump
    <3> QED BY <2>0, <2>2, <3>1, <3>3 DEF BilledAlone, Measuring
  <2> QED BY <1>5, <2>3, <2>4, <2>5, <2>6, <2>7 DEF WorkerStep, BodyStep
<1> QED BY <1>1, <1>2, <1>4, <1>5 DEF Next, ClientCall, Levelling, vars

\* With one thread a result counts exactly the accesses of its test, across a
\* wrap of the counter too, as long as one test does not itself wrap it.
THEOREM SerialAccountingIsExact ==
  ASSUME Threads <= 1, MaxAccesses < CounterMod
  PROVE  Spec => []ExactAccounting
<1>1. Init => AllBilledAlone
  BY DEF Init, RunInit, Each, AllBilledAlone, BilledAlone, Measuring
<1>2. IInv /\ Recorded /\ AllBilledAlone /\ [Next]_vars => AllBilledAlone'
  BY BilledAloneStep
<1>3. AllBilledAlone => ExactAccounting
  BY DEF AllBilledAlone, BilledAlone, ExactAccounting
<1> QED BY <1>1, <1>2, <1>3, SpecIInv, RecordedInvariant, PTL DEF Spec

------------------------------------------------------------------------------
(* What a batch is billed *)

\* What is left of a level is its end, what was taken of it is full chunks, and
\* the tests of the batch are of one piece.
Level == levels[levelIndex]

Aligned ==
  Busy /\ levelIndex > 0 =>
    /\ \A u \in Level \ rest, v \in rest : u < v
    /\ rest # {} => \E k \in Nat : Cardinality(Level \ rest) = k * Width
    /\ \A t \in batch, u \in batch : u \in Piece(t, Level)

\* A slice of the rest of an aligned level is one piece of it.
LEMMA ChunkIsPiece ==
  ASSUME NEW L \in SUBSET Names, NEW R \in SUBSET L,
         \A u \in L \ R, v \in R : u < v,
         NEW k \in Nat, Cardinality(L \ R) = k * Width
  PROVE  \A t \in Chunk(R), u \in Chunk(R) : u \in Piece(t, L)
<1>1. ASSUME NEW t \in Chunk(R) PROVE t \in L /\ Rank(t, L) \div Width = k
  <2>1. t \in R /\ Rank(t, R) < Width /\ Rank(t, R) \in Nat
    BY ChunkIsByRank, RankType
  <2>2. Rank(t, L) = k * Width + Rank(t, R)
    BY <2>1, RankInRest
  <2>3. \A W \in Nat \ {0} : \A a \in 0..(W - 1) : (k * W + a) \div W = k
    OBVIOUS
  <2>4. Rank(t, R) \in 0..(Width - 1)
    BY <2>1, WidthType
  <2> QED BY <2>1, <2>2, <2>3, <2>4, WidthType
<1> QED BY <1>1 DEF Piece

LEMMA AlignedBatch ==
  ASSUME IInv, Aligned, StartBatch
  PROVE  Aligned'
<1>1. /\ Busy /\ batch = {} /\ rest # {} /\ batch' = Chunk(rest)
      /\ rest' = rest \ Chunk(rest) /\ UNCHANGED <<sVars, levelIndex>>
  BY DEF StartBatch, Busy
<1>2. levelIndex > 0 /\ levelIndex \in 1..Len(levels) /\ rest \in SUBSET Level
  BY <1>1 DEF IInv, TypeOK, MainTypeOK, Progress, Level
<1>3. Level \in SUBSET Names
  <2>1. levels \in Seq(SUBSET Names)
    BY DEF IInv, TypeOK, SuiteTypeOK
  <2> QED BY <1>2, <2>1 DEF Level
<1>4. Level' = Level
  BY <1>1 DEF Level, sVars, levelVars
<1> DEFINE L == Level
           C == Chunk(rest)
<1>5. PICK k \in Nat : Cardinality(L \ rest) = k * Width
  BY <1>1, <1>2 DEF Aligned
<1>6. \A u \in L \ rest, v \in rest : u < v
  BY <1>1, <1>2 DEF Aligned
<1>7. \A t \in C, u \in C : u \in Piece(t, L)
  BY <1>2, <1>3, <1>5, <1>6, ChunkIsPiece
<1>8. C \in SUBSET rest /\ rest \in SUBSET Names
  BY <1>2, <1>3 DEF Chunk
<1>9. ASSUME rest \ C # {}
      PROVE  /\ \A u \in L \ (rest \ C), v \in rest \ C : u < v
             /\ Cardinality(L \ (rest \ C)) = (k + 1) * Width
  <2>1. Cardinality(C) = Width /\ \A u \in C, v \in rest \ C : u < v
    BY <1>8, <1>9, ChunkIsFull
  <2> HIDE DEF C, L
  <2>2. L \ (rest \ C) = (L \ rest) \cup C /\ (L \ rest) \cap C = {}
    BY <1>2, <1>8 DEF L
  <2>3. IsFiniteSet(L \ rest) /\ IsFiniteSet(C)
    <3>1. L \ rest \in SUBSET Names /\ C \in SUBSET Names
      BY <1>3, <1>8 DEF L
    <3> QED BY <3>1, RankType
  <2>4. Cardinality(L \ (rest \ C)) = Cardinality(L \ rest) + Cardinality(C) - 0
    BY <2>2, <2>3, FS_Union, FS_EmptySet
  <2>5. (k + 1) * Width = k * Width + Width /\ k * Width \in Nat
    BY WidthType
  <2>6. Cardinality(L \ (rest \ C)) = (k + 1) * Width
    BY <1>5, <2>1, <2>4, <2>5, WidthType
  <2>7. \A u \in L \ (rest \ C), v \in rest \ C : u < v
    BY <1>6, <2>1, <2>2
  <2> QED BY <2>6, <2>7
<1> HIDE DEF C, L
<1>10. k + 1 \in Nat
  OBVIOUS
<1>11. rest' = rest \ C /\ batch' = C /\ L' = L
  BY <1>1, <1>4 DEF C, L
<1>a. \A t, S : Piece(t, S)' = Piece(t, S)
  BY DEF Piece, Rank, Width
<1> QED
  <2>1. \A u \in Level' \ rest', v \in rest' : u < v
    BY <1>9, <1>11 DEF L
  <2>2. rest' # {} => \E j \in Nat : Cardinality(Level' \ rest') = j * Width
    BY <1>9, <1>10, <1>11 DEF L
  <2>3. \A t \in batch', u \in batch' : u \in Piece(t, Level')
    BY <1>7, <1>11 DEF L
  <2> QED BY <2>1, <2>2, <2>3 DEF Aligned

LEMMA AlignedStep ==
  ASSUME IInv, Aligned, [Next]_vars
  PROVE  Aligned'
<1>1. ASSUME UNCHANGED <<main, levels, levelIndex, rest>>, batch' \subseteq batch
      PROVE  Aligned'
  BY <1>1 DEF Aligned, Busy, Level
<1>2. ASSUME main' \notin {"run", "unwind"} PROVE Aligned'
  BY <1>2 DEF Aligned, Busy
<1>3. CASE UNCHANGED <<sVars, mainVars>>
  BY <1>1, <1>3 DEF sVars, mainVars, levelVars
<1>4. CASE UNCHANGED vars
  BY <1>3, <1>4 DEF vars
<1>5. ASSUME NEW x \in Names, WorkerStep(x) \/ BodyStep(x) PROVE Aligned'
  BY <1>3, <1>5, ThreadStepMoves DEF ThreadMoves
<1>6. CASE ClientCall \/ BeginRun
  BY <1>2, <1>6 DEF ClientCall, BeginRun, Client, CallLevels, Add, AddRejected
<1>7. CASE Levelling
  <2>1. main = "levels" /\ UNCHANGED mainVars
    BY <1>7 DEF Levelling, LevelsStep, Round, RejectCycle, LevelsReturn
  <2>2. main' \in {"levels", "idle", after}
    BY <1>7 DEF Levelling, LevelsStep, Round, RejectCycle, LevelsReturn
  <2>3. CASE after = "run"
    BY <2>1, <2>3 DEF IInv, RunIsFresh, Aligned, mainVars
  <2>4. CASE after # "run"
    BY <1>2, <2>2, <2>4 DEF IInv, TypeOK, SuiteTypeOK
  <2> QED BY <2>3, <2>4
<1>8. CASE NextLevel
  <2>1. /\ batch' = {} /\ rest' = Level' /\ levelIndex' = levelIndex + 1
    BY <1>8 DEF NextLevel, Level, sVars, levelVars
  <2>2. Cardinality(Level' \ rest') = 0 * Width /\ 0 \in Nat
    <3>1. Level' \ rest' = {} /\ 0 * Width = 0
      BY <2>1, WidthType
    <3> QED BY <3>1, FS_EmptySet
  <2> QED BY <2>1, <2>2 DEF Aligned
<1>9. CASE LaunchFails \/ \E t \in Names : CollectThrows(t)
  BY <1>9 DEF LaunchFails, CollectThrows, Aligned, Busy, Level, mainVars, levelVars
<1>10. ASSUME NEW t \in Names, Launch(t) \/ Collect(t) PROVE Aligned'
  BY <1>1, <1>10 DEF Launch, Collect, sVars, mainVars, levelVars
<1>11. CASE Unwind \/ Return
  BY <1>2, <1>11 DEF Unwind, Return
<1> QED BY <1>4, <1>5, <1>6, <1>7, <1>8, <1>9, <1>10, <1>11, AlignedBatch DEF Next, RunStep

LEMMA AlignedInvariant == Spec => []Aligned
<1>1. Init => Aligned
  BY DEF Init, SuiteInit, Aligned, Busy
<1> QED BY <1>1, AlignedStep, SpecIInv, PTL DEF Spec

\* The accesses of t are counted for t, and with them at most those of its piece.
Shared(t) ==
  /\ body[t] = "none" => own[t] = 0
  /\ Measuring(t) =>
       /\ own[t] <= Counted(t)
       /\ Counted(t) <= SumFunctionOnSet(own, Piece(t, Level))
  /\ Busy /\ outcome[t] # NoResult =>
       /\ own[t] <= outcome[t].accesses
       /\ outcome[t].accesses <= SumFunctionOnSet(own, BatchOf(t))

AllShared == \A t \in Names : Shared(t)

\* The batch a result is of is a piece of a level.
LEMMA BatchOfType ==
  ASSUME IInv, Filed, Busy, NEW t \in Names, outcome[t] # NoResult
  PROVE  BatchOf(t) \in SUBSET Names /\ IsFiniteSet(BatchOf(t))
<1>1. outcome[t].level + 1 \in 1..Len(levels) /\ levels \in Seq(SUBSET Names)
  BY DEF Filed, IInv, TypeOK, SuiteTypeOK
<1>2. levels[outcome[t].level + 1] \in SUBSET Names
  BY <1>1
<1>3. BatchOf(t) \in SUBSET Names
  BY <1>2 DEF BatchOf
<1> QED BY <1>3, NamesAssumption, FS_Subset

\* The tests that are measured are of the batch, and so of one piece.
LEMMA MeasuredTogether ==
  ASSUME IInv, Aligned, NEW t \in Names, WorkerLive(t)
  PROVE  /\ Piece(t, Level) \in SUBSET Names /\ IsFiniteSet(Piece(t, Level))
         /\ Cardinality(Piece(t, Level)) <= Width
         /\ \A x \in Names : WorkerLive(x) => x \in Piece(t, Level)
<1>1. Busy /\ t \in batch /\ levelIndex \in 1..Len(levels) /\ t \in Level
  BY LiveIsInBatch DEF Level
<1>2. levels \in Seq(SUBSET Names)
  BY DEF IInv, TypeOK, SuiteTypeOK
<1>3. Level \in SUBSET Names
  BY <1>1, <1>2 DEF Level
<1>4. Piece(t, Level) \subseteq Level /\ Cardinality(Piece(t, Level)) <= Width
  BY <1>1, <1>3, PieceFits
<1>5. \A x \in Names : WorkerLive(x) => x \in Piece(t, Level)
  BY <1>1, LiveIsInBatch DEF Aligned
<1>6. IsFiniteSet(Piece(t, Level))
  BY <1>3, <1>4, NamesAssumption, FS_Subset
<1> QED BY <1>3, <1>4, <1>5, <1>6

LEMMA SharedUnmoved ==
  ASSUME AllShared, UNCHANGED workVars, UNCHANGED <<levels, levelIndex>>, Busy' => Busy
  PROVE  AllShared'
<1> SUFFICES ASSUME NEW t \in Names PROVE Shared(t)'
  BY DEF AllShared
<1>1. Shared(t) /\ own' = own /\ Level' = Level /\ Counted(t)' = Counted(t)
      /\ outcome'[t] = outcome[t] /\ body' = body /\ (Measuring(t)' <=> Measuring(t))
  BY DEF AllShared, workVars, Level, Counted, Measuring
<1>2. Piece(t, Level)' = Piece(t, Level) /\ BatchOf(t)' = BatchOf(t)
  BY <1>1 DEF Piece, BatchOf, Rank, Width
<1> QED BY <1>1, <1>2 DEF Shared

\* Between two batches no test is measured.
LEMMA SharedBetweenBatches ==
  ASSUME AllShared, UNCHANGED workVars, \A t \in Names : ~ WorkerLive(t),
         \/ \A t \in Names : outcome[t] = NoResult
         \/ ~ Busy'
         \/ Busy /\ levels' = levels
  PROVE  AllShared'
<1> SUFFICES ASSUME NEW t \in Names PROVE Shared(t)'
  BY DEF AllShared
<1>1. Shared(t) /\ own' = own /\ outcome'[t] = outcome[t] /\ body' = body /\ ~ Measuring(t)'
  BY DEF AllShared, workVars, Measuring, WorkerLive
<1>2. levels' = levels => BatchOf(t)' = BatchOf(t)
  BY <1>1 DEF BatchOf, Rank, Width
<1> QED BY <1>1, <1>2 DEF Shared

LEMMA SharedThreadStep ==
  ASSUME IInv, Recorded, Filed, Aligned, AllShared, Width * MaxAccesses < CounterMod,
         NEW x \in Names, WorkerStep(x) \/ BodyStep(x)
  PROVE  AllShared'
<1>0. /\ WorkTypeOK /\ ThreadMoves(x) /\ WorkerLive(x) /\ outcome[x] = NoResult /\ Busy
      /\ UNCHANGED <<sVars, mainVars>> /\ UNCHANGED <<levels, levelIndex, main>>
  BY ThreadStepMoves, LiveIsInBatch
  DEF ThreadMoves, Recorded, ResultRecord, WorkerLive, IInv, TypeOK, sVars, mainVars, levelVars
<1>1. /\ \A t \in Names : own[t] \in 0..MaxAccesses /\ own'[t] \in 0..MaxAccesses
      /\ \A t \in Names : own'[t] = IF Bump(x) /\ t = x THEN own[t] + 1 ELSE own[t]
  BY <1>0, CounterAssumption
  DEF WorkerStep, ReadCounter, StartBody, StartBodyFails, TimesOut, Finish, ReturnResult,
      BodyStep, HookStep, Setup, TestBody, Teardown, HookEnds, Bump, Wedge, WorkTypeOK
<1>a. MaxAccesses \in Nat /\ CounterMod \in Nat \ {0} /\ Width \in Nat \ {0}
  BY CounterAssumption, WidthType
<1>b. \A t \in Names : own[t] \in Nat /\ own'[t] \in Nat /\ own[t] <= own'[t]
  BY <1>1, <1>a
<1>2. ASSUME NEW S \in SUBSET Names, IsFiniteSet(S)
      PROVE  /\ SumFunctionOnSet(own, S) \in Nat /\ SumFunctionOnSet(own', S) \in Nat
             /\ SumFunctionOnSet(own, S) <= SumFunctionOnSet(own', S)
             /\ Bump(x) /\ x \in S =>
                  SumFunctionOnSet(own', S) = SumFunctionOnSet(own, S) + 1
             /\ SumFunctionOnSet(own', S) <= Cardinality(S) * MaxAccesses
  <2>1. SumFunctionOnSet(own, S) \in Nat
    BY <1>2, <1>b, SumType
  <2>2. SumFunctionOnSet(own', S) \in Nat
    BY <1>2, <1>b, SumType
  <2>3. SumFunctionOnSet(own, S) <= SumFunctionOnSet(own', S)
    BY <1>2, <1>b, SumMonotone
  <2>4. ASSUME Bump(x), x \in S
        PROVE  SumFunctionOnSet(own', S) = SumFunctionOnSet(own, S) + 1
    <3>1. \A u \in S : own[u] \in Nat /\ own'[u] = IF u = x THEN own[u] + 1 ELSE own[u]
      BY <1>1, <1>b, <2>4
    <3> QED BY <1>2, <2>4, <3>1, SumBump
  <2>5. SumFunctionOnSet(own', S) <= Cardinality(S) * MaxAccesses
    BY <1>1, <1>2, <1>a, SumBound
  <2> QED BY <2>1, <2>2, <2>3, <2>4, <2>5
<1> SUFFICES ASSUME NEW t \in Names PROVE Shared(t)'
  BY DEF AllShared
<1> DEFINE P == Piece(t, Level)
<1>3. Shared(t) /\ Level' = Level /\ P' = P /\ (Busy' <=> Busy)
  BY <1>0 DEF AllShared, Level, Busy, Piece, Rank, Width
<1>4. ASSUME outcome[t] # NoResult
      PROVE  /\ outcome'[t] = outcome[t] /\ BatchOf(t)' = BatchOf(t)
             /\ own'[t] = own[t] /\ t # x
             /\ SumFunctionOnSet(own, BatchOf(t)) <= SumFunctionOnSet(own', BatchOf(t))
  <2>1. t # x /\ outcome'[t] = outcome[t]
    BY <1>0, <1>4 DEF ThreadMoves
  <2>2. BatchOf(t)' = BatchOf(t)
    BY <1>0, <2>1 DEF BatchOf, Rank, Width
  <2>3. BatchOf(t) \in SUBSET Names /\ IsFiniteSet(BatchOf(t))
    BY <1>0, <1>4, BatchOfType
  <2> QED BY <1>1, <1>2, <2>1, <2>2, <2>3
<1>5. ASSUME WorkerLive(t)
      PROVE  /\ P \in SUBSET Names /\ IsFiniteSet(P) /\ x \in P
             /\ SumFunctionOnSet(own, P) \in Nat /\ SumFunctionOnSet(own', P) \in Nat
             /\ SumFunctionOnSet(own, P) <= SumFunctionOnSet(own', P)
             /\ Bump(x) => SumFunctionOnSet(own', P) = SumFunctionOnSet(own, P) + 1
             /\ SumFunctionOnSet(own', P) < CounterMod
  <2>1. P \in SUBSET Names /\ IsFiniteSet(P) /\ Cardinality(P) <= Width /\ x \in P
    BY <1>0, <1>5, MeasuredTogether
  <2>2. Cardinality(P) \in Nat
    BY <2>1, FS_CardinalityType
  <2> HIDE DEF P
  <2>3. Cardinality(P) * MaxAccesses <= Width * MaxAccesses
        /\ Cardinality(P) * MaxAccesses \in Nat /\ Width * MaxAccesses \in Nat
    BY <1>a, <2>1, <2>2
  <2>4. /\ SumFunctionOnSet(own, P) \in Nat /\ SumFunctionOnSet(own', P) \in Nat
        /\ SumFunctionOnSet(own, P) <= SumFunctionOnSet(own', P)
        /\ Bump(x) => SumFunctionOnSet(own', P) = SumFunctionOnSet(own, P) + 1
        /\ SumFunctionOnSet(own', P) <= Cardinality(P) * MaxAccesses
    BY <1>2, <2>1
  <2>5. SumFunctionOnSet(own', P) < CounterMod
    BY <1>a, <2>3, <2>4
  <2> QED BY <2>1, <2>4, <2>5
<1> HIDE DEF P
<1>6. body'[t] = "none" => own'[t] = 0
  <2>1. body'[t] = "none" => body[t] = "none" /\ ~ (Bump(x) /\ t = x)
    BY <1>0 DEF ThreadMoves, WorkerStep, ReadCounter, StartBody, StartBodyFails, TimesOut, Finish,
                ReturnResult, MoveWorker, BodyStep, HookStep, Setup, TestBody, Teardown, HookEnds, Bump,
                Wedge, WorkTypeOK, Stages
  <2> QED BY <1>1, <1>3, <2>1 DEF Shared
<1>7. ASSUME Measuring(t)'
      PROVE  own'[t] <= Counted(t)' /\ Counted(t)' <= SumFunctionOnSet(own', P)
  <2>0. WorkerLive(t)
    BY <1>0, <1>7 DEF Measuring, WorkerLive, ThreadMoves
  <2>1. CASE t = x /\ ReadCounter(x)
    <3>1. worker[x] = "started" /\ InStep(x)
      BY <2>1 DEF ReadCounter, MoveWorker, IInv, WorkerAndBody
    <3>2. own[x] = 0 /\ own' = own
      BY <1>3, <2>1, <3>1 DEF InStep, Shared, ReadCounter
    <3>3. Counted(x)' = 0
      BY <1>0, <2>1, CountedNothing DEF ReadCounter, WorkTypeOK
    <3> QED BY <1>5, <2>0, <2>1, <3>2, <3>3
  <2>2. CASE ~ (t = x /\ ReadCounter(x))
    <3>1. Measuring(t) /\ before'[t] = before[t]
      BY <1>0, <1>7, <2>2
      DEF ThreadMoves, Measuring, WorkerStep, ReadCounter, StartBody, StartBodyFails, TimesOut,
          Finish, ReturnResult, MoveWorker, BodyStep, HookStep, Setup, TestBody, Teardown,
          HookEnds, Bump, Wedge, WorkTypeOK
    <3>2. own[t] <= Counted(t) /\ Counted(t) <= SumFunctionOnSet(own, P)
      BY <1>3, <3>1 DEF Shared, P
    <3>3. Counted(t) \in Nat
      BY <1>0, <1>a DEF Counted, WorkTypeOK
    <3>4. CASE Bump(x)
      <4>1. counter' = (counter + 1) % CounterMod
        BY <3>4 DEF Bump
      <4>2. Counted(t) + 1 < CounterMod
        BY <1>5, <1>a, <2>0, <3>2, <3>3, <3>4
      <4>3. Counted(t)' = Counted(t) + 1
        BY <1>0, <3>1, <4>1, <4>2, CountedBump
      <4> QED BY <1>1, <1>5, <2>0, <3>2, <3>3, <3>4, <4>3
    <3>5. CASE ~ Bump(x)
      <4>1. counter' = counter /\ own'[t] = own[t]
        BY <1>0, <1>1, <3>5
        DEF WorkerStep, ReadCounter, StartBody, StartBodyFails, TimesOut, Finish, ReturnResult,
            BodyStep, HookStep, Setup, TestBody, Teardown, HookEnds, Wedge
      <4>2. Counted(t)' = Counted(t)
        BY <3>1, <4>1 DEF Counted
      <4> QED BY <1>1, <1>5, <2>0, <3>2, <3>3, <4>1, <4>2
    <3> QED BY <3>4, <3>5
  <2> QED BY <2>1, <2>2
<1>8. ASSUME outcome'[t] # NoResult
      PROVE  /\ own'[t] <= outcome'[t].accesses
             /\ outcome'[t].accesses <= SumFunctionOnSet(own', BatchOf(t)')
  <2>1. CASE outcome[t] # NoResult
    <3>1. outcome[t].accesses \in Nat
      BY <1>0, <1>a DEF WorkTypeOK, Result
    <3>2. BatchOf(t) \in SUBSET Names /\ IsFiniteSet(BatchOf(t))
      BY <1>0, <2>1, BatchOfType
    <3>3. SumFunctionOnSet(own, BatchOf(t)) \in Nat /\ SumFunctionOnSet(own', BatchOf(t)) \in Nat
      BY <1>2, <3>2
    <3> QED BY <1>0, <1>3, <1>4, <2>1, <3>1, <3>3 DEF Shared
  <2>2. CASE outcome[t] = NoResult
    <3>1. t = x /\ Finish(x)
      BY <1>0, <1>8, <2>2
      DEF ThreadMoves, WorkerStep, ReadCounter, StartBody, StartBodyFails, TimesOut,
          BodyStep, HookStep, Setup, TestBody, Teardown, HookEnds, Bump, Wedge
    <3>2. /\ outcome'[x].accesses = Counted(x) /\ outcome'[x].level = levelIndex - 1
          /\ own' = own /\ Measuring(x)
      BY <1>0, <3>1 DEF Finish, ReturnResult, Counted, Measuring, WorkTypeOK
    <3>3. levelIndex \in Nat
      BY DEF IInv, TypeOK, MainTypeOK
    <3>4. BatchOf(x)' = P
      <4>1. outcome'[x].level + 1 = levelIndex /\ levels' = levels
        BY <1>0, <3>2, <3>3
      <4>2. levels'[outcome'[x].level + 1] = Level
        BY <4>1 DEF Level
      <4> QED BY <3>1, <4>2 DEF BatchOf, P, Piece, Rank, Width
    <3> QED BY <1>3, <3>1, <3>2, <3>4 DEF Shared, P
  <2> QED BY <2>1, <2>2
<1> QED BY <1>3, <1>6, <1>7, <1>8 DEF Shared, P

LEMMA SharedStep ==
  ASSUME IInv, Recorded, Filed, Aligned, AllShared, Width * MaxAccesses < CounterMod, [Next]_vars
  PROVE  AllShared'
<1>1. CASE UNCHANGED vars
  BY <1>1, SharedUnmoved DEF vars, sVars, mainVars, levelVars, Busy
<1>2. CASE BeginRun
  BY <1>2 DEF BeginRun, Each, AllShared, Shared, Measuring
<1>3. CASE ClientCall
  <2>1. main = "idle" /\ ~ Busy' /\ UNCHANGED workVars
    BY <1>3 DEF ClientCall, Client, Add, AddRejected, CallLevels, Busy
  <2>2. \A t \in Names : ~ WorkerLive(t)
    BY <2>1 DEF IInv, NoWorkerOutside, Busy
  <2> QED BY <2>1, <2>2, SharedBetweenBatches
<1>4. CASE Levelling
  <2>1. main = "levels" /\ UNCHANGED workVars /\ main' \in {"levels", "idle", after}
    BY <1>4 DEF Levelling, LevelsStep, Round, RejectCycle, LevelsReturn
  <2>2. \A t \in Names : ~ WorkerLive(t)
    BY <2>1 DEF IInv, NoWorkerOutside, Busy
  <2>3. CASE after = "run"
    <3>1. \A t \in Names : outcome[t] = NoResult
      BY <2>1, <2>3 DEF IInv, RunIsFresh, Recorded, ResultRecord
    <3> QED BY <2>1, <2>2, <3>1, SharedBetweenBatches
  <2>4. CASE after # "run"
    <3>1. ~ Busy'
      BY <2>1, <2>4 DEF IInv, TypeOK, SuiteTypeOK, Busy
    <3> QED BY <2>1, <2>2, <3>1, SharedBetweenBatches
  <2> QED BY <2>3, <2>4
<1>5. CASE NextLevel
  <2>1. Busy /\ batch = {} /\ levels' = levels /\ UNCHANGED workVars
    BY <1>5 DEF NextLevel, Busy, sVars, levelVars
  <2>2. \A t \in Names : ~ WorkerLive(t)
    BY <2>1, LiveIsInBatch
  <2> QED BY <2>1, <2>2, SharedBetweenBatches
<1>6. ASSUME NEW x \in Names, Launch(x) PROVE AllShared'
  <2>0. WorkTypeOK /\ UNCHANGED <<levels, levelIndex, main, body, own, before, counter, outcome>>
    BY <1>6 DEF Launch, sVars, mainVars, levelVars, IInv, TypeOK
  <2> SUFFICES ASSUME NEW t \in Names PROVE Shared(t)'
    BY DEF AllShared
  <2>1. Measuring(t)' => Measuring(t)
    BY <1>6, <2>0 DEF Launch, Measuring, WorkTypeOK
  <2>2. Piece(t, Level)' = Piece(t, Level) /\ BatchOf(t)' = BatchOf(t) /\ Counted(t)' = Counted(t)
    BY <2>0 DEF Piece, BatchOf, Level, Rank, Width, Counted
  <2> QED BY <2>0, <2>1, <2>2 DEF AllShared, Shared, Busy
<1>7. CASE RunStep /\ ~ NextLevel
  <2>1. CASE \E x \in Names : Launch(x)
    BY <1>6, <2>1
  <2>2. CASE ~ \E x \in Names : Launch(x)
    <3>1. UNCHANGED workVars /\ UNCHANGED <<levels, levelIndex>> /\ Busy
      BY <1>7, <2>2 DEF RunStep, StartBatch, LaunchFails, Unwind, Return, Collect, CollectThrows,
                        sVars, mainVars, levelVars, Busy
    <3> QED BY <3>1, SharedUnmoved
  <2> QED BY <2>1, <2>2
<1> QED BY <1>1, <1>2, <1>3, <1>4, <1>5, <1>7, SharedThreadStep DEF Next

\* Whatever the threads, a result counts every access of its test and charges
\* it only with those of the tests it ran with, as long as the accesses of one
\* batch do not wrap the counter.
THEOREM TrafficIsOfTheBatch ==
  ASSUME Width * MaxAccesses < CounterMod
  PROVE  Spec => []TrafficOfBatch
<1>1. Init => AllShared
  BY DEF Init, SuiteInit, RunInit, Each, AllShared, Shared, Measuring, Busy
<1>2. IInv /\ Recorded /\ ReturnInv /\ Aligned /\ AllShared /\ [Next]_vars => AllShared'
  BY SharedStep DEF ReturnInv
<1>3. AllShared => TrafficOfBatch
  BY DEF AllShared, Shared, TrafficOfBatch, Busy
<1> QED BY <1>1, <1>2, <1>3, SpecIInv, RecordedInvariant, ReturnInvInvariant, AlignedInvariant,
           PTL DEF Spec
==============================================================================
