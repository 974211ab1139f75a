-------------------------- MODULE MCControllerStep --------------------------
(***************************************************************************)
(* Small instances of ControllerStep for TLC: three slots of 15 ns in      *)
(* seconds of 21 ns and microseconds of 3 ns, so that deadlines cross the  *)
(* second at every phase and the jitter rounds both ways.  Slot 0 may      *)
(* overrun into slot 1 and as far as slot 2, slot 1 has no handler; one    *)
(* nanosecond more in either handler, and slot 0 could be late as well.    *)
(***************************************************************************)
EXTENDS ControllerStep

MCEnabled == {0, 2}
MCHandlerNs == [s \in Slots |-> CASE s = 0 -> {1, 22, 33} [] s = 2 -> {0, 9} [] OTHER -> {}]
MCMaxHandlerNs == 33
MCLatencyNs == {0, 2, 3}
MCMaxLatencyNs == 3
MCStartNs == {43}
MCStartEpochs == {0, 1}

Stamp(s, ns) == [tv_sec |-> s, tv_nsec |-> ns]

(* Punctual, long past, a slot early, in the ambiguous microsecond, and    *)
(* three values no clock_gettime returns, one of which the first slot makes*)
(* a time and two of which take two broken-off epochs.                     *)
MCStartTimes ==
  {Stamp(2, 1), Stamp(0, 5), Stamp(2, 16), Stamp(1, 17),
   Stamp(1, 44), Stamp(1, -20), Stamp(-1, 3)}

(* A handler of the last slot that overruns the end of the epoch.          *)
MCEndOverrun == [s \in Slots |-> IF s = 2 THEN {22} ELSE {1}]

(* A loop that was anchored on time, for the runs about later epochs.      *)
MCPunctual == {Stamp(2, 1)}

=============================================================================
