---------------------------- MODULE MCSuiteLevels ----------------------------
(* Every suite of up to three tests: any declaration order, any dependencies. *)
EXTENDS SuiteLevels

MCNames == {1, 2, 3}
MCDepLists == [n \in MCNames |-> SUBSET MCNames]
==============================================================================
