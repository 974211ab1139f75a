----------------------------- MODULE MCSlotGrid -----------------------------
(***************************************************************************)
(* Four slots of 15 units.  Slot 0 may overrun slot 1 entirely and reach   *)
(* into slot 2; the handlers of slots 1 and 3 fit their slots.             *)
(***************************************************************************)
EXTENDS SlotGrid

MCEnabled == {0, 1, 3}
MCHandlerNs == [s \in Slots |->
  CASE s = 0 -> {1, 13, 20} [] s = 1 -> {0, 7} [] s = 3 -> {2, 9} [] OTHER -> {}]
MCLatencyNs == {0, 1, 3}
MCStartLags == {-20, -4, 0, 5, 100}

=============================================================================
