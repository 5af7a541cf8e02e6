----------------------------- MODULE MCSequencer -----------------------------
(* Suites of up to three tests that share levels and depend on one another. *)
EXTENDS Sequencer, TLC

MCNames == {1, 2, 3}
MCDepLists == 1 :> {{}} @@ 2 :> {{}, {1}} @@ 3 :> {{}, {1, 2}}

\* Two tests, where hooks also differ in what they throw and access.
MCTwoNames == {1, 2}
MCTwoDepLists == 1 :> {{}} @@ 2 :> {{}, {1}}
==============================================================================
