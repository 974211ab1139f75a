---------------------------- MODULE MCAhrsImu ----------------------------
(***************************************************************************)
(* A small fixed-point world: samples of four bits, Q15_ONE = 4, one       *)
(* accelerometer and one gyroscope channel.  The readings include both     *)
(* ends of the sample range, so corrections clamp; the factors include     *)
(* one ahrs_init refuses, the smallest, a middle one and one that rounds   *)
(* up to 1.0 and is clamped.                                               *)
(***************************************************************************)
EXTENDS AhrsImu

MCReadings == {[ax |-> 7, gx |-> -8], [ax |-> -8, gx |-> 3], [ax |-> 2, gx |-> 3]}
MCAlphas == {0, 1, 4, 7}
============================================================================
