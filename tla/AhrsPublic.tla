----------------------------- MODULE AhrsPublic -----------------------------
(***************************************************************************)
(* What the AHRS publishes (ahrs_get_data) and what the server makes of it *)
(* (DecodeAHRSPublicV1), over the states of AhrsCompass.                   *)
(*                                                                         *)
(* Radians are counted in units of 1/10000, rounded down where the C       *)
(* constants have more digits, and degrees in hundredths.  A ratio stays a *)
(* fraction, so the polynomial of atan2_rad is cut off once, not at every  *)
(* operation.  A byte of memory is <<value, k>>, the k-th byte of a value. *)
(***************************************************************************)
EXTENDS AhrsCompass

CONSTANT ImuReadings  \* [state, x, y, z]: the IMU's state and smoothed acceleration

MATH_PI_4 == 7853
MATH_PI_3_4 == 3 * MATH_PI_4
MATH_PI == 4 * MATH_PI_4
MATH_ATAN2_A == 1963
MATH_ATAN2_B == 9817
MATH_DEG_PER_CIRCLE == 36000
NaN == 1000000    \* no angle is that large

fabs(v) == IF v < 0 THEN -v ELSE v

rad_to_deg(rad) == (rad * (MATH_DEG_PER_CIRCLE \div 2)) \div MATH_PI

normalize_deg_0_360(deg) ==
    LET up == IF deg < 0 THEN deg + MATH_DEG_PER_CIRCLE ELSE deg
    IN  IF up >= MATH_DEG_PER_CIRCLE THEN up - MATH_DEG_PER_CIRCLE ELSE up

\* (A ratio^2 - B) ratio, for the ratio p / n.
Polynomial(p, n) == CDiv((MATH_ATAN2_A * p * p - MATH_ATAN2_B * n * n) * p, n * n * n)

\* Faulty variant of Magnitude: the branch for x < 0 is that for x >= 0.
MagnitudeOneBranch(y, x) ==
    MATH_PI_4 + Polynomial(fabs(x) - fabs(y), fabs(x) + fabs(y))

Magnitude(y, x) ==
    IF x >= 0 THEN MATH_PI_4 + Polynomial(x - fabs(y), x + fabs(y))
              ELSE MATH_PI_3_4 + Polynomial(x + fabs(y), fabs(y) - x)

atan2_rad(y, x) ==
    IF x = 0 /\ y = 0 THEN NaN ELSE IF y < 0 THEN -Magnitude(y, x) ELSE Magnitude(y, x)

Degrees(y, x) == IF atan2_rad(y, x) = NaN THEN 0 ELSE rad_to_deg(atan2_rad(y, x))

Heading ==
    IF mag_state = "ACTIVE" THEN normalize_deg_0_360(Degrees(smoothed["y"], smoothed["x"])) ELSE 0

(***************************************************************************)
(* ahrs_public_t, its members by their position; no rate is ever computed. *)
(***************************************************************************)
Enumerators == <<"INITIALIZING", "CALIBRATING", "ACTIVE", "DISABLED", "FAILED">>
Members == 1 .. 9

ASSUME ReadingAssumption ==
    ImuReadings \subseteq [state : {Enumerators[i] : i \in 1 .. 5}, x : I16, y : I16, z : I16]

StateNumber(s) == (CHOOSE i \in 1 .. 5 : Enumerators[i] = s) - 1

ahrs_get_data(imu) ==
    LET tilt(y, x) == IF imu.state = "ACTIVE" THEN Degrees(y, x) ELSE 0
    IN  <<StateNumber(imu.state), StateNumber(mag_state),
          Heading, tilt(imu.y, imu.z), tilt(imu.x, imu.z), Heading, 0, 0, 0>>

\* Faulty variant of Size: enumerations as small as they can be.
ShortEnums(i) == IF i <= 2 THEN 1 ELSE 8

\* The size of a member, which is its alignment too, and where it is then.
Size(i) == IF i <= 2 THEN 4 ELSE 8
Offset[i \in Members] ==
    IF i = 1 THEN 0 ELSE LET free == Offset[i - 1] + Size(i - 1)
                         IN  Size(i) * ((free + Size(i) - 1) \div Size(i))

\* Which byte of which member a byte of the struct is; padding is of none.
Layout ==
    [b \in 0 .. Offset[9] + Size(9) - 1 |->
       IF \E i \in Members : b \in Offset[i] .. Offset[i] + Size(i) - 1
         THEN LET i == CHOOSE i \in Members : b \in Offset[i] .. Offset[i] + Size(i) - 1
              IN  <<i, b - Offset[i]>>
         ELSE <<1, -1>>]

Blob(data) == [b \in DOMAIN Layout |-> <<data[Layout[b][1]], Layout[b][2]>>]

(***************************************************************************)
(* The server reads little-endian values at its own offsets.               *)
(***************************************************************************)
DoubleOffsets == <<8, 16, 24, 32, 40, 48, 56>>

LittleEndian(page, off, n) ==
    IF \A k \in 0 .. n - 1 : page[off + k] = <<page[off][1], k>> THEN page[off][1] ELSE NaN

DecodeAHRSPublicV1(page) ==
    [i \in Members |-> IF i = 1 THEN LittleEndian(page, 0, 4)
                       ELSE IF i = 2 THEN LittleEndian(page, 4, 4)
                       ELSE LittleEndian(page, DoubleOffsets[i - 2], 8)]

stateLabel == <<"INITIALIZING", "CALIBRATING", "ACTIVE", "DISABLED", "FAILED">>
----------------------------------------------------------------------------
(***************************************************************************)
(* What a page shows is what the AHRS computed: the struct as a C compiler *)
(* lays it out and the offsets and numbers the Go decoder has of its own   *)
(* agree on every member, in every state (ahrs_public_v1.go: "Decoded      *)
(* layout matches controller ahrs_public_t").                              *)
(***************************************************************************)
DecodedIsPublished ==
    \A imu \in ImuReadings :
      LET page == DecodeAHRSPublicV1(Blob(ahrs_get_data(imu)))
      IN  /\ page = ahrs_get_data(imu)
          /\ stateLabel[page[1] + 1] = imu.state
          /\ stateLabel[page[2] + 1] = mag_state

HALF == MATH_DEG_PER_CIRCLE \div 2
Turn == ((Heading' - Heading + HALF) % MATH_DEG_PER_CIRCLE) - HALF
Cross == smoothed["x"] * smoothed'["y"] - smoothed["y"] * smoothed'["x"]
Dot == smoothed["x"] * smoothed'["x"] + smoothed["y"] * smoothed'["y"]

(***************************************************************************)
(* The heading turns with the field: when a sample turns the averaged      *)
(* field by less than a quarter, the published heading turns the same way  *)
(* by less than a quarter, across the branches of atan2_rad, its change of *)
(* sign and north.  SEAM is how far the branches fail to meet there, and   *)
(* what the units of this module cut off.                                  *)
(***************************************************************************)
SEAM == 1
QUARTER == MATH_DEG_PER_CIRCLE \div 4

HeadingTurnsWithField ==
    [][mag_state = "ACTIVE" /\ mag_state' = "ACTIVE" /\ Dot > 0 =>
         /\ Cross >= 0 => Turn \in -SEAM .. QUARTER + SEAM
         /\ Cross <= 0 => Turn \in -QUARTER - SEAM .. SEAM]_vars
============================================================================
