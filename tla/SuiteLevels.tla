----------------------------- MODULE SuiteLevels -----------------------------
(***************************************************************************)
(* Sequencer::Add and Sequencer::Levels (src/src/sequencer.cpp).           *)
(*                                                                         *)
(* A caller registers tests, each with the names of the tests it depends   *)
(* on, and asks for the topological levels.  Levels() peels the dependency *)
(* graph: one iteration of its loop is one Round here.                     *)
(*                                                                         *)
(* A test name is a positive number and < is the order std::string gives   *)
(* names; 0 is the empty string.  A level is the set of its names: the     *)
(* code keeps it as the vector of these names in increasing order.         *)
(***************************************************************************)
EXTENDS Naturals, Sequences, FiniteSets

CONSTANTS
  Names,      \* the names a caller gives its tests
  DepLists    \* DepLists[n]: the depends_on lists, as sets, test n may be added with

EmptyName == 0

ASSUME NamesAssumption == Names \subseteq Nat \ {EmptyName} /\ IsFiniteSet(Names)
ASSUME DepListsAssumption == DepLists \in [Names -> SUBSET (SUBSET Names)]

VARIABLES
  declared,   \* the names in tests_, in declaration order
  dependsOn,  \* depends_on of every test in tests_ ({} for a name not in tests_)
  main,       \* where the calling thread is: "idle" (no call), "levels", ...
  after,      \* what main does when Levels() returns: "idle", or "run" inside Run()
  pending,    \* the keys of Levels()' map `pending`
  done,       \* Levels()' set `done`
  levels,     \* Levels()' result so far
  thrown      \* how the last call ended: "none" or the exception it threw

suiteVars == <<declared, dependsOn>>
levelVars == <<pending, done, levels>>
sVars == <<declared, dependsOn, main, after, pending, done, levels, thrown>>

Registered == {declared[i] : i \in 1..Len(declared)}

SuiteInit ==
  /\ declared = <<>>
  /\ dependsOn = [n \in Names |-> {}]
  /\ main = "idle"
  /\ after = "idle"
  /\ pending = {}
  /\ done = {}
  /\ levels = <<>>
  /\ thrown = "none"

------------------------------------------------------------------------------
(* Sequencer::Add: the two rejections leave tests_ alone. *)

Add(n, deps) ==
  /\ main = "idle"
  /\ n # EmptyName
  /\ n \notin Registered
  /\ declared' = Append(declared, n)
  /\ dependsOn' = [dependsOn EXCEPT ![n] = deps]
  /\ thrown' = "none"
  /\ UNCHANGED <<main, after, levelVars>>

\* A slip: the name is checked after the test was stored.
AddThenReject(n) ==
  /\ main = "idle"
  /\ n = EmptyName
  /\ declared' = Append(declared, n)
  /\ thrown' = "empty name"
  /\ UNCHANGED <<dependsOn, main, after, levelVars>>

AddRejected(n) ==
  /\ main = "idle"
  /\ n = EmptyName \/ n \in Registered
  /\ thrown' = IF n = EmptyName THEN "empty name" ELSE "duplicate name"
  /\ UNCHANGED <<suiteVars, main, after, levelVars>>

------------------------------------------------------------------------------
(* Sequencer::Levels *)

\* A slip: no dependency is ever found unknown.
UnknownIgnored == {}

\* The registered tests that name a dependency nobody registered.
Dangling == {n \in Registered : ~ dependsOn[n] \subseteq Registered}

CallLevels(next) ==
  /\ main = "idle"
  /\ pending' = Registered
  /\ done' = {}
  /\ levels' = <<>>
  /\ IF Dangling = {}
       THEN main' = "levels" /\ after' = next /\ thrown' = "none"
       ELSE main' = "idle" /\ after' = "idle" /\ thrown' = "unknown dependency"
  /\ UNCHANGED suiteVars

\* Slips in the test of readiness: any_of for all_of; a level that also takes
\* the tests whose dependencies are in the level being built.
ReadyOnAny == {n \in pending : dependsOn[n] = {} \/ dependsOn[n] \cap done # {}}
ReadyInPlace ==
  LET first == {n \in pending : dependsOn[n] \subseteq done}
  IN  {n \in pending : dependsOn[n] \subseteq done \cup first}

Ready == {n \in pending : dependsOn[n] \subseteq done}

Round ==
  /\ main = "levels"
  /\ pending # {}
  /\ Ready # {}
  /\ pending' = pending \ Ready
  /\ done' = done \cup Ready
  /\ levels' = Append(levels, Ready)
  /\ UNCHANGED <<suiteVars, main, after, thrown>>

\* A slip: with no test of an empty `ready` the loop spins on a cycle.
SpinOnCycle ==
  /\ main = "levels"
  /\ pending # {}
  /\ Ready = {}
  /\ UNCHANGED sVars

RejectCycle ==
  /\ main = "levels"
  /\ pending # {}
  /\ Ready = {}
  /\ main' = "idle"
  /\ after' = "idle"
  /\ thrown' = "dependency cycle"
  /\ UNCHANGED <<suiteVars, levelVars>>

LevelsReturn ==
  /\ main = "levels"
  /\ pending = {}
  /\ main' = after
  /\ after' = "idle"
  /\ UNCHANGED <<suiteVars, levelVars, thrown>>

LevelsStep == Round \/ RejectCycle \/ LevelsReturn

Client ==
  \/ \E n \in Names : \E deps \in DepLists[n] : Add(n, deps)
  \/ \E n \in Names \cup {EmptyName} : AddRejected(n)

SuiteNext == Client \/ CallLevels("idle") \/ LevelsStep

SuiteSpec == SuiteInit /\ [][SuiteNext]_sVars

(* The thread inside Levels() is not stopped. *)
FairSuiteSpec == SuiteSpec /\ WF_sVars(LevelsStep)

------------------------------------------------------------------------------
(* Properties *)

\* Everything stays in its type.
SuiteTypeOK ==
  /\ declared \in Seq(Names)
  /\ dependsOn \in [Names -> SUBSET Names]
  /\ main \in {"idle", "levels", "run", "unwind"}
  /\ after \in {"idle", "run"}
  /\ pending \subseteq Names
  /\ done \subseteq Names
  /\ levels \in Seq(SUBSET Names)
  /\ thrown \in {"none", "empty name", "duplicate name", "unknown dependency",
                 "dependency cycle", "thread launch"}

LevelsUpTo(i) == UNION {levels[j] : j \in 1..i}

\* The levels computed so far and the tests still pending: the two sides of
\* the loop of Levels().  Nothing is in two levels, and whatever a test of a
\* level depends on is in an earlier level.
LevelsOrdered ==
  main # "idle" =>
    /\ pending \cup done = Registered
    /\ pending \cap done = {}
    /\ done = LevelsUpTo(Len(levels))
    /\ \A n \in Registered : dependsOn[n] \subseteq Registered
    /\ \A i \in 1..Len(levels) : \A n \in levels[i] :
         /\ n \notin LevelsUpTo(i - 1)
         /\ dependsOn[n] \subseteq LevelsUpTo(i - 1)

\* There are k tests, the first of them n, each depending on the next.
HasChain(n, k) ==
  \E s \in [1..k -> Registered] :
    /\ s[1] = n
    /\ \A j \in 1..(k - 1) : s[j + 1] \in dependsOn[s[j]]

\* The level of a test is its depth: the length of its longest chain of
\* dependencies (TestResult::level, "topological depth").  A test is thus
\* never held back behind a level it does not depend on.
LevelsAreDepths ==
  main # "idle" =>
    \A i \in 1..Len(levels) : \A n \in levels[i] :
      HasChain(n, i) /\ ~ HasChain(n, i + 1)

HasCycle == \E n \in Registered : HasChain(n, Cardinality(Registered) + 1)

\* Levels() rejects exactly the suites that cannot be ordered: a dangling
\* dependency is reported as such, a cycle as a cycle, and a suite whose
\* levels are complete has neither.
VerdictIsRight ==
  /\ thrown = "unknown dependency" => Dangling # {}
  /\ thrown = "dependency cycle" => Dangling = {} /\ HasCycle
  /\ main # "idle" /\ pending = {} => Dangling = {} /\ ~ HasCycle

\* Levels() comes back for every suite, a cyclic one too.
LevelsComesBack == main = "levels" ~> main = "idle"
==============================================================================
