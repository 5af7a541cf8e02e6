--------------------------- MODULE MCEmulatedDevice ---------------------------
(***************************************************************************)
(* Words that tell the bits apart: GO on and off, attempts to forge STATUS *)
(* and LINK_STATUS, an interrupt cleared or left alone, and transfer       *)
(* lengths that differ in a bit BEATS shows and in one it cuts off.        *)
(***************************************************************************)
EXTENDS BlockAccess

MCInputs ==
  [r \in Registers |->
     CASE r = "CTRL"       -> {{}, {GO}}
       [] r = "STATUS"     -> {{DONE}}
       [] r = "IRQ_STATUS" -> {{3}, {DONE_IRQ}}
       [] r = "XFER_LEN"   -> {{2}, {2, 18}}
       [] r = "LINK_STATUS" -> {{0}}
       [] r = "LINK_CTRL"  -> {{RETRAIN, 2}}
       [] OTHER            -> {{}}]
==============================================================================
