--------------------------- MODULE MCAhrsCompass ---------------------------
(***************************************************************************)
(* A sensor of five bits in samples of six.  The samples reach both ends   *)
(* of the range, give odd and even spans, turns too small to complete, and *)
(* a small turn in one corner after which the other corner is clamped.     *)
(***************************************************************************)
EXTENDS AhrsPublic

Sample(x, y, z) == [a \in Axes |-> IF a = "x" THEN x ELSE IF a = "y" THEN y ELSE z]

MCSamples == {Sample(-15, -4, 3), Sample(15, 1, 6), Sample(11, -4, 2), Sample(14, 2, 5)}

\* Accelerations in all directions, none, and on the seams of atan2_rad.
Imu(s, x, y, z) == [state |-> s, x |-> x, y |-> y, z |-> z]
MCImuReadings ==
    {Imu("ACTIVE", 0, 0, 0), Imu("ACTIVE", 3, -2, 9), Imu("ACTIVE", -9, 0, -5),
     Imu("ACTIVE", 7, 7, 0), Imu("CALIBRATING", 1, 2, 3), Imu("INITIALIZING", 0, 0, 0)}
============================================================================
