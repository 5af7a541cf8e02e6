----------------------------- MODULE MCBusSession -----------------------------
(* Two links that fill the log, and a third that regions are mapped through. *)
EXTENDS BusSession

MCKinds == [a |-> {"spi"}, b |-> {"emulated"}, c |-> {"jtag"}]
MCTestNames == [a |-> {"t"}, b |-> {}, c |-> {}]
MCRequests ==
  [a |-> {[op |-> "read32", words |-> 1]},
   b |-> {[op |-> "write32", words |-> 1], [op |-> "write_block", words |-> 2]},
   c |-> {}]

\* Traffic on a and b; a longer stream of a; two mappings; a mapping beside
\* another caller of the log.
MCBudgets ==
  {[a |-> 2, b |-> 1, c |-> 0], [a |-> 3, b |-> 0, c |-> 0],
   [a |-> 0, b |-> 0, c |-> 2], [a |-> 0, b |-> 1, c |-> 1]}
==============================================================================
