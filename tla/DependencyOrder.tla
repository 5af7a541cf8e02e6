--------------------------- MODULE DependencyOrder ---------------------------
(***************************************************************************)
(* What the sequencer promises about when tests run, with no levels, no    *)
(* batches and no threads: a test runs at most once between two restarts,  *)
(* only after all tests it needs have finished, never with more than       *)
(* Width - 1 others, and a restart waits until nothing runs.               *)
(***************************************************************************)
EXTENDS Naturals, FiniteSets

CONSTANTS
  Test,   \* the tests there may be
  Width   \* how many of them may run together

VARIABLES
  needs,  \* needs[t]: the tests that must finish before t starts
  stage   \* stage[t]: "waiting", "running" or "finished"

orderVars == <<needs, stage>>

Running == {t \in Test : stage[t] = "running"}

Init ==
  /\ needs = [t \in Test |-> {}]
  /\ stage = [t \in Test |-> "waiting"]

Declare(t, D) ==
  /\ Running = {} /\ stage[t] = "waiting"
  /\ needs' = [needs EXCEPT ![t] = D]
  /\ UNCHANGED stage

Restart ==
  /\ Running = {}
  /\ stage' = [t \in Test |-> "waiting"]
  /\ UNCHANGED needs

Start(t) ==
  /\ stage[t] = "waiting"
  /\ \A d \in needs[t] : stage[d] = "finished"
  /\ Cardinality(Running) < Width
  /\ stage' = [stage EXCEPT ![t] = "running"]
  /\ UNCHANGED needs

Finish(t) ==
  /\ stage[t] = "running"
  /\ stage' = [stage EXCEPT ![t] = "finished"]
  /\ UNCHANGED needs

Next ==
  \/ Restart
  \/ \E t \in Test :
       Start(t) \/ Finish(t) \/ \E D \in SUBSET Test : Declare(t, D)

Spec == Init /\ [][Next]_orderVars
==============================================================================
