------------------------------ MODULE DmaEngine ------------------------------
(***************************************************************************)
(* What the emulated device promises to software that drives its DMA       *)
(* engine: a transfer is started when none runs, it is busy until it is    *)
(* done, done is only ever reached from busy, and being done raises an     *)
(* interrupt that stays up until somebody takes it down.                   *)
(*                                                                         *)
(* Time passes only with accesses, and within one access first time passes *)
(* and then the access takes effect: one step may both finish a transfer   *)
(* and start the next, or finish it and take its interrupt down.           *)
(***************************************************************************)

VARIABLES
  engine,  \* "idle", "busy" or "done"
  irq      \* the completion interrupt is up

engineVars == <<engine, irq>>

Init == engine = "idle" /\ irq = FALSE

\* How time passing may leave the engine: as it was, or done.
Elapse(e, i) ==
  \/ e = engine /\ i = irq
  \/ engine = "busy" /\ e = "done" /\ i = TRUE

Access ==
  \E e \in {"idle", "busy", "done"}, i \in BOOLEAN :
    /\ Elapse(e, i)
    /\ \/ engine' = e /\ irq' = i
       \/ engine' = e /\ irq' = FALSE
       \/ e # "busy" /\ engine' = "busy" /\ irq' = i

Reset == engine' = "idle" /\ irq' = FALSE

Next == Access \/ Reset

Spec == Init /\ [][Next]_engineVars
==============================================================================
