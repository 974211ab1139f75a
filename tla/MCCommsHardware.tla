--------------------------- MODULE MCCommsHardware ---------------------------
(***************************************************************************)
(* A device of three one-bit registers, a buffer of two bytes, requests on *)
(* both sides of its limits, and a table with room for the bus and the log *)
(* or, when it is nearly full, for one of them.                            *)
(***************************************************************************)
EXTENDS CommsHardware

MCSizes == 0 .. COMMS_BUFFER_SIZE + 1

=============================================================================
