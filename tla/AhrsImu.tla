------------------------------ MODULE AhrsImu ------------------------------
(***************************************************************************)
(* The IMU half of the AHRS (controller/src/ahrs.c, ahrs_calibration.c):   *)
(* the smoothing filter, its life cycle, and the capture of the            *)
(* accelerometer bias.                                                     *)
(*                                                                         *)
(* The sensor is the environment: it shows a reading, which may move       *)
(* between two samples.  The owner of the module (the AHRS slot handler,   *)
(* the unit tests) calls the operations in any order.  Calls other than    *)
(* the periodic sample, and movements, are counted by "requests" and stop  *)
(* at MAX_REQUESTS.  Calls the code refuses with an error code change      *)
(* nothing and are not steps of the model.                                 *)
(***************************************************************************)
EXTENDS Q15Filter

CONSTANTS
    Accel,          \* the accelerometer channels, corrected by a bias
    Gyro,           \* the gyroscope channels, only smoothed
    Readings,       \* the samples the sensor may deliver
    Alphas,         \* the values ema_alpha may be given (see float_to_q15)
    MAX_REQUESTS    \* bound: calls and movements besides the samples

Channels == Accel \cup Gyro

ASSUME ImuAssumption ==
    /\ Accel \cap Gyro = {}
    /\ Readings \subseteq [Channels -> I16]
    /\ Alphas \subseteq Int
    /\ MAX_REQUESTS \in Nat

VARIABLES
    ema_alpha,      \* g_ahrs.config.ema_alpha
    imu_state,      \* g_ahrs.imu_state
    smoothed,       \* g_ahrs.smoothed_imu_value
    bias,           \* g_ahrs.imu_calibration.bias
    reading,        \* what the sensor shows
    requests,       \* bound counter
    still,          \* history: the filter was seeded with the present reading,
                    \* under a zero bias, and the sensor has not moved since
    captures        \* history: bias captures since the bias was last zeroed, up to 2

vars == <<ema_alpha, imu_state, smoothed, bias, reading, requests, still, captures>>
history == <<still, captures>>

ImuStates == {"INITIALIZING", "CALIBRATING", "ACTIVE"}

Zero == [c \in Accel |-> 0]
aq == float_to_q15(ema_alpha)

Init ==
    /\ ema_alpha \in {a \in Alphas : 0 < a /\ a < 2 * Q15_ONE}
    /\ imu_state = "INITIALIZING"
    /\ smoothed = [c \in Channels |-> 0]
    /\ bias = Zero
    /\ reading \in Readings
    /\ requests = 0
    /\ still = FALSE
    /\ captures = 0

Request == requests < MAX_REQUESTS /\ requests' = requests + 1

(***************************************************************************)
(* Environment: the sensor moves; the owner sets a smoothing factor.       *)
(***************************************************************************)
Move ==
    /\ Request
    /\ \E r \in Readings \ {reading} : reading' = r
    /\ still' = FALSE
    /\ UNCHANGED <<ema_alpha, imu_state, smoothed, bias, captures>>

Configure ==
    /\ Request
    /\ \E a \in Alphas \ {ema_alpha} : ema_alpha' = a
    /\ UNCHANGED <<imu_state, smoothed, bias, reading, history>>

(***************************************************************************)
(* ahrs_init refuses a factor outside (0, 1).  It restarts the filter but  *)
(* leaves the bias alone.                                                  *)
(***************************************************************************)
ahrs_init ==
    /\ Request
    /\ 0 < ema_alpha /\ ema_alpha < 2 * Q15_ONE
    /\ imu_state' = "INITIALIZING"
    /\ smoothed' = [c \in Channels |-> 0]
    /\ still' = FALSE
    /\ UNCHANGED <<ema_alpha, bias, reading, captures>>

(***************************************************************************)
(* What a channel is corrected to before it is blended.                    *)
(***************************************************************************)
Corrected(c) == IF c \in Accel THEN clamp_i16(reading[c] - bias[c]) ELSE reading[c]

Blended == [c \in Channels |-> ema_blend_i16_q15(smoothed[c], Corrected(c), aq)]

BiasFrom(value) == [c \in Accel |-> value[c]]

Capture(value) ==
    /\ bias' = BiasFrom(value)
    /\ captures' = IF captures < 2 THEN captures + 1 ELSE 2

\* Faulty variant of SeedFilter: the first sample is blended with zero.
SeedByBlending ==
    /\ imu_state = "INITIALIZING"
    /\ smoothed' = Blended
    /\ imu_state' = "ACTIVE"
    /\ still' = (captures = 0)
    /\ UNCHANGED <<ema_alpha, bias, reading, requests, captures>>

(***************************************************************************)
(* ahrs_update_imu: the first sample seeds the filter as it is; later ones *)
(* are corrected and blended, and the one that arrives while calibrating   *)
(* is blended first and then copied into the bias.                         *)
(***************************************************************************)
SeedFilter ==
    /\ imu_state = "INITIALIZING"
    /\ smoothed' = reading
    /\ imu_state' = "ACTIVE"
    /\ still' = (captures = 0)
    /\ UNCHANGED <<ema_alpha, bias, reading, requests, captures>>

BlendSample ==
    /\ imu_state = "ACTIVE"
    /\ smoothed' = Blended
    /\ UNCHANGED <<ema_alpha, imu_state, bias, reading, requests, history>>

\* Faulty variant of CaptureSample: the completed calibration is not left.
CaptureAndStay ==
    /\ imu_state = "CALIBRATING"
    /\ smoothed' = Blended
    /\ Capture(Blended)
    /\ UNCHANGED <<ema_alpha, imu_state, reading, requests, still>>

CaptureSample ==
    /\ imu_state = "CALIBRATING"
    /\ smoothed' = Blended
    /\ Capture(Blended)
    /\ imu_state' = "ACTIVE"
    /\ UNCHANGED <<ema_alpha, reading, requests, still>>

ahrs_update_imu == SeedFilter \/ BlendSample \/ CaptureSample

(***************************************************************************)
(* ahrs_calibrate_imu called by the owner: begins a calibration, or, while *)
(* one is under way, captures the bias at once and leaves the state to the *)
(* next sample, which captures again.  Refused in any other state.         *)
(***************************************************************************)
BeginCalibration ==
    /\ Request
    /\ imu_state = "ACTIVE"
    /\ imu_state' = "CALIBRATING"
    /\ UNCHANGED <<ema_alpha, smoothed, bias, reading, history>>

CaptureNow ==
    /\ Request
    /\ imu_state = "CALIBRATING"
    /\ Capture(smoothed)
    /\ UNCHANGED <<ema_alpha, imu_state, smoothed, reading, still>>

(***************************************************************************)
(* ahrs_reset_imu_calibration.  The filter has drifted under the old bias, *)
(* so it no longer holds the reading.                                      *)
(***************************************************************************)
ahrs_reset_imu_calibration ==
    /\ Request
    /\ bias' = Zero
    /\ captures' = 0
    /\ still' = (still /\ captures = 0)
    /\ UNCHANGED <<ema_alpha, imu_state, smoothed, reading>>

Next ==
    \/ Move \/ Configure
    \/ ahrs_init \/ ahrs_update_imu
    \/ BeginCalibration \/ CaptureNow \/ ahrs_reset_imu_calibration

(***************************************************************************)
(* The AHRS slot comes round in every epoch, so samples keep arriving.     *)
(***************************************************************************)
Spec == Init /\ [][Next]_vars /\ WF_vars(ahrs_update_imu)
----------------------------------------------------------------------------
(***************************************************************************)
(* Type invariant: the state of the IMU filter, the bias and the histories *)
(* have their types; what is stored in an int16_t fits it without          *)
(* wrapping.                                                               *)
(***************************************************************************)
TypeOK ==
    /\ ema_alpha \in Alphas
    /\ imu_state \in ImuStates
    /\ smoothed \in [Channels -> I16]
    /\ bias \in [Accel -> I16]
    /\ reading \in Readings
    /\ requests \in 0 .. MAX_REQUESTS
    /\ still \in BOOLEAN
    /\ captures \in 0 .. 2

(***************************************************************************)
(* A blended sample lies between the old average and the corrected input,  *)
(* whatever rounding and clamping do, and it never moves past either       *)
(* (ema_blend_i16_q15 as ahrs_update_imu uses it).                         *)
(***************************************************************************)
NoOvershoot ==
    [][ahrs_update_imu /\ imu_state # "INITIALIZING" =>
         \A c \in Channels : Between(smoothed'[c], smoothed[c], Corrected(c))]_vars

(***************************************************************************)
(* The average stalls in the dead band below its input and nowhere else:   *)
(* from above it reaches the input exactly, from further below it is still *)
(* on its way, for every factor ahrs_init accepts.  With NoOvershoot this  *)
(* is why the filter settles (the right shift in ema_blend_i16_q15).       *)
(***************************************************************************)
StallsInDeadBand ==
    \A c \in Channels :
      Blended[c] = smoothed[c] <=> Corrected(c) - smoothed[c] \in 0 .. DeadBand(aq)

(***************************************************************************)
(* The first calibration of a sensor that has not moved since ahrs_init's  *)
(* filter was seeded under a zero bias is exact: the bias it captures is   *)
(* the reading, through any number of samples, changes of the smoothing    *)
(* factor and ways of calling ahrs_calibrate_imu.  A sensor that moved and *)
(* came to rest may be off by the dead band.                               *)
(***************************************************************************)
FirstCaptureIsExact ==
    still /\ captures = 1 => bias = BiasFrom(reading)

(***************************************************************************)
(* When the sensor comes to rest and the owner stops calling, the filter   *)
(* leaves INITIALIZING and CALIBRATING for good and the output stays       *)
(* within the rounding dead band below the corrected reading, never above. *)
(***************************************************************************)
Settles ==
    <>[](/\ imu_state = "ACTIVE"
         /\ \A c \in Channels : Corrected(c) - smoothed[c] \in 0 .. DeadBand(aq))

(***************************************************************************)
(* What the header and the calibration test say of a sensor at rest: once  *)
(* calibrated, raw minus bias is zero (the test allows 50 counts).  A      *)
(* second calibration copies the already corrected average and loses it.   *)
(***************************************************************************)
CalibratedReadsZero ==
    still /\ captures >= 1 /\ imu_state = "ACTIVE"
      => \A c \in Accel : reading[c] - bias[c] \in -1 .. 1
============================================================================
