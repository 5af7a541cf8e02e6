-------------------------- MODULE SuiteLevels_proof --------------------------
(***************************************************************************)
(* For any set of names and any dependencies: SuiteLevels is type correct, *)
(* and the levels it computes are ordered by the dependencies.             *)
(***************************************************************************)
EXTENDS SuiteLevels, FiniteSums

------------------------------------------------------------------------------
(* Levels *)

\* Appending a level leaves what the levels before it hold, and adds its tests.
LEMMA LevelsUpToAppend ==
  ASSUME levels \in Seq(SUBSET Names), NEW L \in SUBSET Names,
         levels' = Append(levels, L), NEW k \in Nat, k = Len(levels)
  PROVE  /\ \A i \in 0..k : LevelsUpTo(i)' = LevelsUpTo(i)
         /\ LevelsUpTo(k + 1)' = LevelsUpTo(k) \cup L
<1>1. /\ \A j \in 1..k : levels'[j] = levels[j]
      /\ levels'[k + 1] = L
  OBVIOUS
<1>2. \A i \in 0..k : LevelsUpTo(i)' = LevelsUpTo(i)
  BY <1>1 DEF LevelsUpTo
<1>3. LevelsUpTo(k + 1)' = LevelsUpTo(k) \cup L
  <2>1. 1..(k + 1) = (1..k) \cup {k + 1}
    OBVIOUS
  <2>2. UNION {levels'[j] : j \in (1..k) \cup {k + 1}}
          = (UNION {levels[j] : j \in 1..k}) \cup L
    BY <1>1
  <2> QED BY <2>1, <2>2 DEF LevelsUpTo
<1> QED BY <1>2, <1>3

\* The test of readiness picks from the pending tests.
LEMMA ReadyIsPending == Ready \subseteq pending
BY DEF Ready

------------------------------------------------------------------------------

LEMMA SuiteInitTypeOK == SuiteInit => SuiteTypeOK
BY DEF SuiteInit, SuiteTypeOK

LEMMA RegisteredType == SuiteTypeOK => Registered \subseteq Names
<1> SUFFICES ASSUME SuiteTypeOK, NEW n \in Registered PROVE n \in Names
  OBVIOUS
<1>1. PICK i \in 1..Len(declared) : n = declared[i]
  BY DEF Registered
<1>2. declared \in Seq(Names)
  BY DEF SuiteTypeOK
<1> QED BY <1>1, <1>2

\* Every call and every step of Levels() keeps the types; the Sequencer's
\* proof uses this lemma for the same steps inside Run().
LEMMA SuiteStepTypeOK ==
  ASSUME SuiteTypeOK,
         SuiteNext \/ CallLevels("run")
  PROVE  SuiteTypeOK'
<1> USE NamesAssumption, DepListsAssumption
<1>1. ASSUME NEW n \in Names, NEW deps \in DepLists[n], Add(n, deps)
      PROVE  SuiteTypeOK'
  <2>1. declared' \in Seq(Names)
    <3>1. declared \in Seq(Names) /\ declared' = Append(declared, n)
      BY <1>1 DEF Add, SuiteTypeOK
    <3> QED BY <3>1
  <2>2. dependsOn' \in [Names -> SUBSET Names]
    BY <1>1 DEF SuiteTypeOK, Add
  <2> QED BY <1>1, <2>1, <2>2 DEF SuiteTypeOK, Add, levelVars
<1>2. ASSUME NEW n \in Names \cup {EmptyName}, AddRejected(n)
      PROVE  SuiteTypeOK'
  BY <1>2 DEF SuiteTypeOK, AddRejected, levelVars, suiteVars
<1>3. ASSUME NEW next \in {"idle", "run"}, CallLevels(next)
      PROVE  SuiteTypeOK'
  <2>1. pending' \subseteq Names /\ done' \subseteq Names
    BY <1>3, RegisteredType DEF CallLevels
  <2>2. levels' \in Seq(SUBSET Names)
    <3>1. levels' = <<>>
      BY <1>3 DEF CallLevels
    <3>2. <<>> \in Seq(SUBSET Names)
      OBVIOUS
    <3> QED BY <3>1, <3>2
  <2>3. /\ main' \in {"levels", "idle"} /\ after' \in {"idle", "run"}
        /\ thrown' \in {"none", "unknown dependency"}
    BY <1>3 DEF CallLevels
  <2> QED BY <1>3, <2>1, <2>2, <2>3 DEF SuiteTypeOK, CallLevels, suiteVars
<1>4. CASE Round
  <2>1. Ready \subseteq Names
    BY ReadyIsPending DEF SuiteTypeOK
  <2>2. levels' \in Seq(SUBSET Names)
    <3>1. levels \in Seq(SUBSET Names) /\ levels' = Append(levels, Ready)
      BY <1>4 DEF SuiteTypeOK, Round
    <3>2. Ready \in SUBSET Names
      BY <2>1
    <3> QED BY <3>1, <3>2
  <2>3. pending' \subseteq Names /\ done' \subseteq Names
    BY <1>4, <2>1 DEF SuiteTypeOK, Round
  <2> QED BY <1>4, <2>2, <2>3 DEF SuiteTypeOK, Round, suiteVars
<1>5. CASE RejectCycle
  BY <1>5 DEF SuiteTypeOK, RejectCycle, suiteVars, levelVars
<1>6. CASE LevelsReturn
  BY <1>6 DEF SuiteTypeOK, LevelsReturn, suiteVars, levelVars
<1> QED BY <1>1, <1>2, <1>3, <1>4, <1>5, <1>6 DEF SuiteNext, Client, LevelsStep

\* SuiteLevels never leaves its types (Sequencer::Add, Sequencer::Levels).
THEOREM SuiteTypeCorrect == SuiteSpec => []SuiteTypeOK
<1>1. SuiteTypeOK /\ [SuiteNext]_sVars => SuiteTypeOK'
  <2>1. CASE UNCHANGED sVars
    BY <2>1 DEF SuiteTypeOK, sVars
  <2> QED BY <2>1, SuiteStepTypeOK
<1> QED BY <1>1, SuiteInitTypeOK, PTL DEF SuiteSpec

------------------------------------------------------------------------------

\* One iteration of the loop of Levels() keeps the levels ordered: the tests
\* it appends depend on done tests only, and none of them is done already.
LEMMA RoundKeepsOrder ==
  ASSUME SuiteTypeOK, LevelsOrdered, Round
  PROVE  LevelsOrdered'
<1>0. PICK k \in Nat : k = Len(levels)
  <2>1. levels \in Seq(SUBSET Names)
    BY DEF SuiteTypeOK
  <2> QED BY <2>1
<1>1. /\ levels \in Seq(SUBSET Names) /\ Ready \in SUBSET Names
      /\ levels' = Append(levels, Ready)
      /\ pending' = pending \ Ready /\ done' = done \cup Ready
      /\ Ready \subseteq pending
      /\ main' = main /\ main # "idle"
      /\ dependsOn' = dependsOn /\ declared' = declared
  BY ReadyIsPending DEF SuiteTypeOK, Round, suiteVars
<1>2. /\ \A i \in 0..k : LevelsUpTo(i)' = LevelsUpTo(i)
      /\ LevelsUpTo(k + 1)' = LevelsUpTo(k) \cup Ready
  BY <1>0, <1>1, LevelsUpToAppend
<1>3. /\ Len(levels') = k + 1
      /\ \A i \in 1..k : levels'[i] = levels[i]
      /\ levels'[k + 1] = Ready
  BY <1>0, <1>1
<1>4. Registered' = Registered
  BY <1>1 DEF Registered
<1>5. /\ pending' \cup done' = Registered'
      /\ pending' \cap done' = {}
      /\ done' = LevelsUpTo(k + 1)'
      /\ \A n \in Registered' : dependsOn'[n] \subseteq Registered'
  BY <1>0, <1>1, <1>2, <1>4 DEF LevelsOrdered
<1>6. ASSUME NEW i \in 1..(k + 1), NEW n \in levels'[i]
      PROVE  n \notin LevelsUpTo(i - 1)' /\ dependsOn'[n] \subseteq LevelsUpTo(i - 1)'
  <2>1. CASE i = k + 1
    <3>1. n \in Ready /\ n \in pending
      BY <2>1, <1>3, <1>1
    <3>2. LevelsUpTo(i - 1)' = LevelsUpTo(k) /\ LevelsUpTo(k) = done
      BY <2>1, <1>0, <1>2, <1>3, <1>1 DEF LevelsOrdered
    <3> QED BY <3>1, <3>2, <1>1 DEF LevelsOrdered, Ready
  <2>2. CASE i \in 1..k
    <3>1. LevelsUpTo(i - 1)' = LevelsUpTo(i - 1) /\ n \in levels[i]
      BY <2>2, <1>2, <1>3
    <3> QED BY <3>1, <2>2, <1>0, <1>1 DEF LevelsOrdered
  <2> QED BY <2>1, <2>2, <1>0, <1>3
<1>7. LevelsUpTo(Len(levels))' = LevelsUpTo(k + 1)'
  BY <1>3 DEF LevelsUpTo
<1>8. \A i \in 1..Len(levels') : \A n \in levels'[i] :
        n \notin LevelsUpTo(i - 1)' /\ dependsOn'[n] \subseteq LevelsUpTo(i - 1)'
  BY <1>3, <1>6
<1> QED BY <1>5, <1>7, <1>8 DEF LevelsOrdered

\* Levels() starts with every test pending; Run() starts it the same way.
LEMMA CallLevelsStartsOrdered ==
  ASSUME NEW next, CallLevels(next)
  PROVE  LevelsOrdered'
<1>1. CASE Dangling = {}
  <2>1. /\ levels' = <<>> /\ pending' = Registered /\ done' = {}
        /\ declared' = declared /\ dependsOn' = dependsOn
    BY DEF CallLevels, suiteVars
  <2>2. Registered' = Registered /\ Len(levels') = 0 /\ 1..0 = {}
    BY <2>1 DEF Registered
  <2>3. LevelsUpTo(Len(levels))' = {}
    BY <2>2 DEF LevelsUpTo
  <2>4. \A n \in Registered : dependsOn[n] \subseteq Registered
    BY <1>1 DEF Dangling
  <2> QED BY <2>1, <2>2, <2>3, <2>4 DEF LevelsOrdered
<1>2. CASE Dangling # {}
  BY <1>2 DEF CallLevels, LevelsOrdered
<1> QED BY <1>1, <1>2

\* A step outside the loop leaves the order alone.
LEMMA OrderUnchanged ==
  ASSUME LevelsOrdered, main # "idle" \/ main' = "idle",
         UNCHANGED <<suiteVars, levelVars>>
  PROVE  LevelsOrdered'
<1>1. Registered' = Registered /\ \A i : LevelsUpTo(i)' = LevelsUpTo(i)
  BY DEF Registered, LevelsUpTo, suiteVars, levelVars
<1>2. CASE main' = "idle"
  BY <1>2 DEF LevelsOrdered
<1>3. CASE main' # "idle"
  BY <1>1, <1>3 DEF LevelsOrdered, suiteVars, levelVars
<1> QED BY <1>2, <1>3

LEMMA SuiteStepOrdered ==
  ASSUME SuiteTypeOK, LevelsOrdered,
         SuiteNext \/ CallLevels("run")
  PROVE  LevelsOrdered'
<1>1. CASE Client
  BY <1>1 DEF Client, Add, AddRejected, LevelsOrdered
<1>2. CASE CallLevels("idle") \/ CallLevels("run")
  BY <1>2, CallLevelsStartsOrdered
<1>3. CASE Round
  BY <1>3, RoundKeepsOrder
<1>4. CASE RejectCycle \/ LevelsReturn
  <2>1. main # "idle" /\ UNCHANGED <<suiteVars, levelVars>>
    BY <1>4 DEF RejectCycle, LevelsReturn
  <2> QED BY <2>1, OrderUnchanged
<1> QED BY <1>1, <1>2, <1>3, <1>4 DEF SuiteNext, LevelsStep

\* Whatever is registered, no test is in two levels and every test comes after
\* what it depends on, while Levels() computes and when it is done.
THEOREM LevelsAreOrdered == SuiteSpec => []LevelsOrdered
<1>1. SuiteInit => LevelsOrdered
  BY DEF SuiteInit, LevelsOrdered
<1>2. SuiteTypeOK /\ LevelsOrdered /\ [SuiteNext]_sVars => LevelsOrdered'
  <2>1. ASSUME LevelsOrdered, UNCHANGED sVars
        PROVE  LevelsOrdered'
    <3>1. UNCHANGED <<suiteVars, levelVars>> /\ (main # "idle" \/ main' = "idle")
      BY <2>1 DEF sVars, suiteVars, levelVars
    <3> QED BY <2>1, <3>1, OrderUnchanged
  <2> QED BY <2>1, SuiteStepOrdered
<1> QED BY <1>1, <1>2, SuiteTypeCorrect, PTL DEF SuiteSpec

------------------------------------------------------------------------------
(* What the order of the levels gives to those who use them *)

\* A registered test is in one level, and its dependencies are in earlier ones.
LEMMA LevelFacts ==
  ASSUME LevelsOrdered, main # "idle", SuiteTypeOK
  PROVE  /\ \A i \in 1..Len(levels) : levels[i] \subseteq Registered
         /\ \A i, j \in 1..Len(levels) : \A t \in levels[i] : t \in levels[j] => i = j
         /\ \A i \in 1..Len(levels) : \A t \in levels[i] : \A d \in dependsOn[t] :
              \E j \in 1..Len(levels) : j < i /\ d \in levels[j]
         /\ pending = {} => \A t \in Registered : \E i \in 1..Len(levels) : t \in levels[i]
<1>0. Len(levels) \in Nat
  <2>1. levels \in Seq(SUBSET Names)
    BY DEF SuiteTypeOK
  <2> QED BY <2>1
<1>1. \A i \in 1..Len(levels) : levels[i] \subseteq Registered
  BY DEF LevelsOrdered, LevelsUpTo
<1>2. ASSUME NEW i \in 1..Len(levels), NEW j \in 1..Len(levels), i < j,
             NEW t \in levels[i], t \in levels[j]
      PROVE  FALSE
  <2>1. i \in 1..(j - 1)
    BY <1>2, <1>0
  <2>2. t \in LevelsUpTo(j - 1)
    BY <2>1 DEF LevelsUpTo
  <2> QED BY <1>2, <2>2 DEF LevelsOrdered
<1>3. \A i, j \in 1..Len(levels) : \A t \in levels[i] : t \in levels[j] => i = j
  BY <1>0, <1>2
<1>4. ASSUME NEW i \in 1..Len(levels), NEW t \in levels[i], NEW d \in dependsOn[t]
      PROVE  \E j \in 1..Len(levels) : j < i /\ d \in levels[j]
  <2>1. d \in LevelsUpTo(i - 1)
    BY <1>1 DEF LevelsOrdered
  <2>2. PICK j \in 1..(i - 1) : d \in levels[j]
    BY <2>1 DEF LevelsUpTo
  <2>3. j \in 1..Len(levels) /\ j < i
    BY <1>0
  <2> QED BY <2>2, <2>3
<1>5. pending = {} => \A t \in Registered : \E i \in 1..Len(levels) : t \in levels[i]
  BY DEF LevelsOrdered, LevelsUpTo
<1> QED BY <1>1, <1>3, <1>4, <1>5

------------------------------------------------------------------------------
(* Chains of dependencies *)

LEMMA ChainsUnchanged ==
  ASSUME UNCHANGED suiteVars
  PROVE  \A n, k : HasChain(n, k)' <=> HasChain(n, k)
<1>1. Registered' = Registered /\ dependsOn' = dependsOn
  BY DEF Registered, suiteVars
<1> QED BY <1>1 DEF HasChain

LEMMA ChainOfOne ==
  ASSUME NEW n \in Registered
  PROVE  HasChain(n, 1)
<1> DEFINE s == [j \in 1..1 |-> n]
<1>1. s \in [1..1 -> Registered] /\ s[1] = n
  OBVIOUS
<1>2. 1..(1 - 1) = {}
  OBVIOUS
<1> HIDE DEF s
<1> QED BY <1>1, <1>2 DEF HasChain

\* A test before a chain of one of its dependencies makes it one longer.
LEMMA ChainGrows ==
  ASSUME NEW n \in Registered, NEW d \in dependsOn[n], NEW k \in Nat \ {0}, HasChain(d, k)
  PROVE  HasChain(n, k + 1)
<1>1. PICK s \in [1..k -> Registered] :
        s[1] = d /\ \A j \in 1..(k - 1) : s[j + 1] \in dependsOn[s[j]]
  BY DEF HasChain
<1> DEFINE longer == [j \in 1..(k + 1) |-> IF j = 1 THEN n ELSE s[j - 1]]
<1>2. longer \in [1..(k + 1) -> Registered] /\ longer[1] = n
  OBVIOUS
<1>3. ASSUME NEW j \in 1..((k + 1) - 1) PROVE longer[j + 1] \in dependsOn[longer[j]]
  <2>1. longer[j + 1] = s[j]
    OBVIOUS
  <2>2. CASE j = 1
    BY <2>1, <2>2, <1>1, <1>2
  <2>3. CASE j # 1
    <3>1. longer[j] = s[j - 1] /\ j - 1 \in 1..(k - 1)
      BY <2>3
    <3>2. s[(j - 1) + 1] \in dependsOn[s[j - 1]] /\ (j - 1) + 1 = j
      BY <3>1, <1>1
    <3> QED BY <2>1, <3>1, <3>2
  <2> QED BY <2>2, <2>3
<1> HIDE DEF longer
<1> QED BY <1>2, <1>3 DEF HasChain

\* A chain of two tests or more goes on with a chain of a dependency.
LEMMA ChainTail ==
  ASSUME NEW n, NEW k \in Nat \ {0}, HasChain(n, k + 1)
  PROVE  \E d \in dependsOn[n] : HasChain(d, k)
<1>1. PICK s \in [1..(k + 1) -> Registered] :
        s[1] = n /\ \A j \in 1..((k + 1) - 1) : s[j + 1] \in dependsOn[s[j]]
  BY DEF HasChain
<1> DEFINE tail == [j \in 1..k |-> s[j + 1]]
<1>2. tail \in [1..k -> Registered] /\ tail[1] = s[2] /\ s[2] \in dependsOn[n]
  <2>1. 1 \in 1..((k + 1) - 1) /\ 1 + 1 = 2
    OBVIOUS
  <2> QED BY <1>1, <2>1
<1>3. ASSUME NEW j \in 1..(k - 1) PROVE tail[j + 1] \in dependsOn[tail[j]]
  <2>1. tail[j + 1] = s[(j + 1) + 1] /\ tail[j] = s[j + 1] /\ j + 1 \in 1..((k + 1) - 1)
    OBVIOUS
  <2> QED BY <2>1, <1>1
<1> HIDE DEF tail
<1> QED BY <1>2, <1>3 DEF HasChain

\* The first tests of a chain are a chain.
LEMMA ChainPrefix ==
  ASSUME NEW n, NEW k \in Nat, NEW i \in 1..k, HasChain(n, k)
  PROVE  HasChain(n, i)
<1>1. PICK s \in [1..k -> Registered] :
        s[1] = n /\ \A j \in 1..(k - 1) : s[j + 1] \in dependsOn[s[j]]
  BY DEF HasChain
<1> DEFINE first == [j \in 1..i |-> s[j]]
<1>2. first \in [1..i -> Registered] /\ first[1] = n
  BY <1>1
<1>3. \A j \in 1..(i - 1) : first[j + 1] \in dependsOn[first[j]]
  <2>1. \A j \in 1..(i - 1) : j \in 1..(k - 1) /\ j \in 1..i /\ j + 1 \in 1..i
    OBVIOUS
  <2> QED BY <2>1, <1>1
<1> HIDE DEF first
<1> QED BY <1>2, <1>3 DEF HasChain

------------------------------------------------------------------------------
(* The level of a test is its depth *)

\* A test that is still pending was not ready for the last level: one of its
\* dependencies is in no level before that one.
HeldBack ==
  main # "idle" /\ levels # <<>> =>
    \A n \in pending : ~ dependsOn[n] \subseteq LevelsUpTo(Len(levels) - 1)

NoEmptyLevel == \A i \in 1..Len(levels) : levels[i] # {}

\* The inductive invariant.
LevelInv ==
  /\ SuiteTypeOK /\ LevelsOrdered
  /\ HeldBack /\ NoEmptyLevel /\ LevelsAreDepths
  /\ thrown = "unknown dependency" => Dangling # {}
  /\ thrown = "dependency cycle" => Dangling = {} /\ HasCycle

LEMMA RoundKeepsDepths ==
  ASSUME LevelInv, Round
  PROVE  LevelsAreDepths' /\ HeldBack' /\ NoEmptyLevel'
<1>0. PICK k \in Nat : k = Len(levels)
  <2>1. levels \in Seq(SUBSET Names)
    BY DEF LevelInv, SuiteTypeOK
  <2> QED BY <2>1
<1>1. /\ levels \in Seq(SUBSET Names) /\ Ready \in SUBSET Names /\ Ready # {}
      /\ levels' = Append(levels, Ready) /\ pending' = pending \ Ready
      /\ Ready \subseteq pending /\ main # "idle" /\ dependsOn' = dependsOn
      /\ UNCHANGED suiteVars
  BY ReadyIsPending DEF LevelInv, SuiteTypeOK, Round, suiteVars
<1>2. /\ \A i \in 0..k : LevelsUpTo(i)' = LevelsUpTo(i)
      /\ Len(levels') = k + 1 /\ levels' # <<>>
      /\ \A i \in 1..k : levels'[i] = levels[i]
      /\ levels'[k + 1] = Ready
  BY <1>0, <1>1, LevelsUpToAppend
<1>3. /\ done = LevelsUpTo(k) /\ pending \subseteq Registered
      /\ \A n \in Registered : dependsOn[n] \subseteq Registered
  BY <1>0, <1>1 DEF LevelInv, LevelsOrdered
<1>4. ASSUME NEW n \in Ready PROVE HasChain(n, k + 1)
  <2>1. n \in pending /\ n \in Registered /\ dependsOn[n] \subseteq LevelsUpTo(k)
    BY <1>1, <1>3 DEF Ready
  <2>2. CASE k = 0
    BY <2>1, <2>2, ChainOfOne
  <2>3. CASE k # 0
    <3>1. levels # <<>> /\ k \in 1..k
      BY <2>3, <1>0, <1>1
    <3>2. PICK d \in dependsOn[n] : d \notin LevelsUpTo(k - 1)
      BY <2>1, <3>1, <1>0, <1>1 DEF LevelInv, HeldBack
    <3>3. PICK j \in 1..k : d \in levels[j]
      BY <2>1, <3>2 DEF LevelsUpTo
    <3>4. j = k
      <4>1. j \notin 1..(k - 1)
        BY <3>2, <3>3 DEF LevelsUpTo
      <4> QED BY <4>1, <2>3
    <3>5. HasChain(d, k)
      BY <3>1, <3>3, <3>4, <1>0, <1>1 DEF LevelInv, LevelsAreDepths
    <3> QED BY <2>1, <2>3, <3>5, ChainGrows
  <2> QED BY <2>2, <2>3
<1>5. ASSUME NEW n \in Ready, HasChain(n, k + 2) PROVE FALSE
  <2>1. PICK d \in dependsOn[n] : HasChain(d, k + 1)
    <3>1. HasChain(n, (k + 1) + 1)
      BY <1>5
    <3> QED BY <3>1, ChainTail
  <2>2. PICK j \in 1..k : d \in levels[j]
    BY <2>1, <1>3 DEF Ready, LevelsUpTo
  <2>3. HasChain(d, j + 1)
    BY <2>1, ChainPrefix
  <2> QED BY <2>2, <2>3, <1>0, <1>1 DEF LevelInv, LevelsAreDepths
<1>6. LevelsAreDepths'
  <2>1. ASSUME NEW i \in 1..(k + 1), NEW n \in levels'[i]
        PROVE  HasChain(n, i) /\ ~ HasChain(n, i + 1)
    <3>1. CASE i = k + 1
      <4>1. n \in Ready /\ i + 1 = k + 2
        BY <3>1, <1>2
      <4> QED BY <3>1, <4>1, <1>4, <1>5
    <3>2. CASE i \in 1..k
      BY <3>2, <2>1, <1>0, <1>1, <1>2 DEF LevelInv, LevelsAreDepths
    <3> QED BY <3>1, <3>2
  <2> QED BY <2>1, <1>1, <1>2, ChainsUnchanged DEF LevelsAreDepths
<1>7. HeldBack'
  <2>1. LevelsUpTo(Len(levels) - 1)' = LevelsUpTo(k)
    <3>1. LevelsUpTo(Len(levels) - 1)' = LevelsUpTo((k + 1) - 1)'
      BY <1>2 DEF LevelsUpTo
    <3> QED BY <3>1, <1>2
  <2>2. \A n \in pending \ Ready : ~ dependsOn[n] \subseteq LevelsUpTo(k)
    BY <1>3 DEF Ready
  <2> QED BY <2>1, <2>2, <1>1 DEF HeldBack
<1>8. NoEmptyLevel'
  <2>1. ASSUME NEW i \in 1..(k + 1) PROVE levels'[i] # {}
    <3>1. CASE i = k + 1
      BY <3>1, <1>1, <1>2
    <3>2. CASE i \in 1..k
      BY <3>2, <1>0, <1>2 DEF NoEmptyLevel, LevelInv
    <3> QED BY <3>1, <3>2
  <2> QED BY <2>1, <1>2 DEF NoEmptyLevel
<1> QED BY <1>6, <1>7, <1>8

\* When no pending test is ready, each waits for a pending one: chains of
\* every length start from them.
LEMMA StuckMeansCycle ==
  ASSUME LevelInv, RejectCycle
  PROVE  Dangling = {} /\ HasCycle
<1>1. /\ main # "idle" /\ pending # {} /\ Ready = {}
      /\ pending \subseteq Registered /\ Registered = pending \cup done
      /\ \A n \in Registered : dependsOn[n] \subseteq Registered
  BY DEF RejectCycle, LevelInv, LevelsOrdered
<1>2. \A n \in pending : \E d \in dependsOn[n] : d \in pending
  BY <1>1 DEF Ready
<1> DEFINE K == {k \in Nat : \A n \in pending : HasChain(n, k + 1)}
<1>3. 0 \in K
  BY <1>1, ChainOfOne
<1>4. ASSUME NEW k \in K PROVE k + 1 \in K
  <2>1. ASSUME NEW n \in pending PROVE HasChain(n, (k + 1) + 1)
    <3>1. PICK d \in dependsOn[n] : d \in pending
      BY <1>2
    <3>2. HasChain(d, k + 1)
      BY <3>1
    <3> QED BY <3>2, <1>1, ChainGrows
  <2> QED BY <2>1
<1>5. K = Nat
  <2>1. K \in SUBSET Nat
    OBVIOUS
  <2> HIDE DEF K
  <2> QED BY <1>3, <1>4, <2>1, InductionOnNat
<1>6. Cardinality(Registered) \in Nat
  BY NamesAssumption, RegisteredType, FS_Subset, FS_CardinalityType DEF LevelInv
<1>7. PICK n \in pending : TRUE
  BY <1>1
<1>8. HasChain(n, Cardinality(Registered) + 1)
  BY <1>5, <1>6
<1>9. Dangling = {}
  BY <1>1 DEF Dangling
<1> QED BY <1>1, <1>8, <1>9 DEF HasCycle

\* Levels are disjoint and none is empty: there are no more than tests.
LEMMA LevelsBounded ==
  ASSUME LevelInv, main # "idle"
  PROVE  Len(levels) <= Cardinality(Registered) /\ Cardinality(Registered) \in Nat
<1>0. Len(levels) \in Nat
  <2>1. levels \in Seq(SUBSET Names)
    BY DEF LevelInv, SuiteTypeOK
  <2> QED BY <2>1
<1>1. IsFiniteSet(Registered) /\ Cardinality(Registered) \in Nat
  BY NamesAssumption, RegisteredType, FS_Subset, FS_CardinalityType DEF LevelInv
<1> DEFINE f == [i \in 1..Len(levels) |-> CHOOSE n \in levels[i] : TRUE]
<1>2. \A i \in 1..Len(levels) : f[i] \in levels[i]
  BY DEF LevelInv, NoEmptyLevel
<1> HIDE DEF f
<1>3. f \in Injection(1..Len(levels), Registered)
  <2>1. f \in [1..Len(levels) -> Registered]
    BY <1>2, LevelFacts DEF LevelInv, f
  <2>2. \A i, j \in 1..Len(levels) : f[i] = f[j] => i = j
    BY <1>2, LevelFacts DEF LevelInv
  <2> QED BY <2>1, <2>2 DEF Injection, IsInjective
<1>4. Cardinality(1..Len(levels)) = Len(levels) /\ IsFiniteSet(1..Len(levels))
  BY <1>0, FS_Interval
<1> QED BY <1>1, <1>3, <1>4, FS_Injection

\* Once every test has a level there is no cycle: a chain is no longer than
\* there are levels.
LEMMA LevelledMeansAcyclic ==
  ASSUME LevelInv, main # "idle", pending = {}
  PROVE  Dangling = {} /\ ~ HasCycle
<1>1. Dangling = {}
  BY DEF LevelInv, LevelsOrdered, Dangling
<1>2. ASSUME NEW n \in Registered, HasChain(n, Cardinality(Registered) + 1)
      PROVE  FALSE
  <2>1. PICK i \in 1..Len(levels) : n \in levels[i]
    BY LevelFacts DEF LevelInv
  <2>2. i + 1 \in 1..(Cardinality(Registered) + 1)
    <3>1. Len(levels) \in Nat
      <4>1. levels \in Seq(SUBSET Names)
        BY DEF LevelInv, SuiteTypeOK
      <4> QED BY <4>1
    <3> QED BY <3>1, LevelsBounded
  <2>3. HasChain(n, i + 1)
    BY <1>2, <2>2, LevelsBounded, ChainPrefix
  <2> QED BY <2>1, <2>3 DEF LevelInv, LevelsAreDepths
<1> QED BY <1>1, <1>2 DEF HasCycle

\* A step outside Levels(), which neither adds a test nor touches a level.
LEMMA LevelInvUnchanged ==
  ASSUME LevelInv, SuiteTypeOK', main # "idle" \/ main' = "idle",
         thrown' \in {thrown, "none", "empty name", "duplicate name", "thread launch"},
         UNCHANGED <<suiteVars, levelVars>>
  PROVE  LevelInv'
<1>1. LevelsOrdered'
  BY OrderUnchanged DEF LevelInv
<1>2. /\ Registered' = Registered /\ Dangling' = Dangling /\ HasCycle' = HasCycle
      /\ \A i : LevelsUpTo(i)' = LevelsUpTo(i)
  BY ChainsUnchanged DEF Registered, Dangling, HasCycle, LevelsUpTo, suiteVars, levelVars
<1>3. HeldBack' /\ NoEmptyLevel'
  BY <1>2 DEF LevelInv, HeldBack, NoEmptyLevel, suiteVars, levelVars
<1>4. LevelsAreDepths'
  BY ChainsUnchanged DEF LevelInv, LevelsAreDepths, suiteVars, levelVars
<1> QED BY <1>1, <1>2, <1>3, <1>4 DEF LevelInv

LEMMA LevelInvInit == SuiteInit => LevelInv
BY SuiteInitTypeOK
DEF SuiteInit, LevelInv, LevelsOrdered, HeldBack, NoEmptyLevel, LevelsAreDepths

LEMMA LevelInvStep ==
  ASSUME LevelInv, SuiteNext \/ CallLevels("run")
  PROVE  LevelInv'
<1>0. SuiteTypeOK' /\ LevelsOrdered'
  BY SuiteStepTypeOK, SuiteStepOrdered DEF LevelInv
<1>1. CASE Client
  <2>1. /\ main' = "idle" /\ levels' = levels
        /\ thrown' \in {"none", "empty name", "duplicate name"}
    BY <1>1 DEF Client, Add, AddRejected, levelVars
  <2> QED BY <1>0, <2>1 DEF LevelInv, HeldBack, NoEmptyLevel, LevelsAreDepths
<1>2. ASSUME NEW next, CallLevels(next) PROVE LevelInv'
  <2>1. /\ levels' = <<>> /\ UNCHANGED suiteVars
        /\ thrown' \in {"none", "unknown dependency"}
        /\ thrown' = "unknown dependency" => Dangling # {}
    BY <1>2 DEF CallLevels
  <2>2. Dangling' = Dangling
    <3>1. declared' = declared /\ dependsOn' = dependsOn
      BY <2>1 DEF suiteVars
    <3>2. Registered' = Registered
      BY <3>1 DEF Registered
    <3> QED BY <3>1, <3>2 DEF Dangling
  <2>3. 1..Len(levels') = {}
    <3>1. levels' = <<>>
      BY <2>1
    <3>2. Len(levels') = 0 /\ 1..0 = {}
      BY <3>1
    <3> QED BY <3>2
  <2> QED BY <1>0, <2>1, <2>2, <2>3 DEF LevelInv, HeldBack, NoEmptyLevel, LevelsAreDepths
<1>3. CASE Round
  <2>1. thrown' = thrown /\ Dangling' = Dangling /\ HasCycle' = HasCycle
    BY <1>3, ChainsUnchanged DEF Round, Dangling, Registered, HasCycle, suiteVars
  <2> QED BY <1>0, <1>3, <2>1, RoundKeepsDepths DEF LevelInv
<1>4. CASE RejectCycle
  <2>1. Dangling' = Dangling /\ HasCycle' = HasCycle
    BY <1>4, ChainsUnchanged DEF RejectCycle, Dangling, Registered, HasCycle, suiteVars
  <2>2. main' = "idle" /\ levels' = levels /\ thrown' = "dependency cycle"
    BY <1>4 DEF RejectCycle, levelVars
  <2> QED BY <1>0, <1>4, <2>1, <2>2, StuckMeansCycle
          DEF LevelInv, HeldBack, NoEmptyLevel, LevelsAreDepths
<1>5. CASE LevelsReturn
  BY <1>0, <1>5, LevelInvUnchanged DEF LevelsReturn
<1> QED BY <1>1, <1>2, <1>3, <1>4, <1>5 DEF SuiteNext, LevelsStep

LEMMA LevelInvInvariant == SuiteSpec => []LevelInv
<1>1. LevelInv /\ UNCHANGED sVars => LevelInv'
  <2> SUFFICES ASSUME LevelInv, UNCHANGED sVars PROVE LevelInv'
    OBVIOUS
  <2>1. /\ UNCHANGED <<suiteVars, levelVars>> /\ main' = main /\ thrown' = thrown
        /\ SuiteTypeOK'
    BY DEF sVars, suiteVars, levelVars, LevelInv, SuiteTypeOK
  <2> QED BY <2>1, LevelInvUnchanged
<1> QED BY <1>1, LevelInvInit, LevelInvStep, PTL DEF SuiteSpec

\* Levels() gives a test the length of its longest chain of dependencies as
\* its level, for any suite: no test is held back, and none comes early.
THEOREM LevelsAreTheDepths == SuiteSpec => []LevelsAreDepths
<1>1. LevelInv => LevelsAreDepths
  BY DEF LevelInv
<1> QED BY <1>1, LevelInvInvariant, PTL

\* Levels() rejects a suite for the right reason, and levels only suites that
\* can be ordered.
THEOREM VerdictsAreRight == SuiteSpec => []VerdictIsRight
<1>1. LevelInv => VerdictIsRight
  BY LevelledMeansAcyclic DEF LevelInv, VerdictIsRight
<1> QED BY <1>1, LevelInvInvariant, PTL
==============================================================================
