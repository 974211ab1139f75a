----------------------------- MODULE MCCommsSim -----------------------------
(***************************************************************************)
(* An "imu" with frames of two bytes and a "mag" with frames of one, at    *)
(* most two frames in a playable file, counters that wrap at three.  The   *)
(* files are missing, ragged, empty, of one frame, full, and one frame too *)
(* long; a register lies below the device.                                 *)
(***************************************************************************)
EXTENDS CommsSim

MCDevices == {"imu", "mag"}
MCFrameLen == [d \in MCDevices |-> IF d = "imu" THEN 2 ELSE 1]

Whole(frames) == [kind |-> "whole", frames |-> frames]
Ragged(frames) == [kind |-> "ragged", frames |-> frames]
Missing == [kind |-> "missing", frames |-> <<>>]

Pair(a, b) == [i \in 0 .. 1 |-> IF i = 0 THEN a ELSE b]
One(a) == [i \in {0} |-> a]

MCRegisters == -1 .. 1

MCFiles == [d \in MCDevices |->
    IF d = "imu"
      THEN {Missing, Ragged(<<Pair(0, 1)>>), Whole(<<Pair(0, 1), Pair(1, 1)>>),
            Whole(<<Pair(0, 1), Pair(1, 0), Pair(0, 0)>>)}
      ELSE {Whole(<<>>), Whole(<<One(1)>>), Whole(<<One(0), One(1)>>)}]
============================================================================
