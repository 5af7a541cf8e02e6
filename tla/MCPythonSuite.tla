----------------------------- MODULE MCPythonSuite -----------------------------
(* The example's three tests; wait_for_done may also be left to run beside
   start_transfer. *)
EXTENDS PythonSuite

MCScript == <<"reset_values", "start_transfer", "wait_for_done">>
MCDepLists == <<{{}}, {{1}}, {{1}, {2}}>>
==============================================================================
