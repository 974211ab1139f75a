---------------------------- MODULE AhrsCompass ----------------------------
(***************************************************************************)
(* The magnetometer half of the AHRS (controller/src/ahrs.c,               *)
(* ahrs_calibration.c): correction by bias and per-axis scale, smoothing,  *)
(* and the calibration that records the extremes of each axis while the    *)
(* vessel turns.                                                           *)
(*                                                                         *)
(* Any sample of the sensor's range may arrive at any time.  The other     *)
(* calls of the owner are counted by "requests" and stop at MAX_REQUESTS.  *)
(* Requests the code refuses change nothing and are not steps of the       *)
(* model; a refused sample is a step that changes nothing.                 *)
(***************************************************************************)
EXTENDS Q15Filter

CONSTANTS
    ALPHA_Q15,      \* the smoothing factor, after float_to_q15
    MAG_MEAS_MAX,   \* MAG_MEAS_MAX_DEC: the sensor's range is -MAX .. MAX
    MIN_SAMPLES,    \* AHRS_MAG_CAL_MIN_SAMPLES
    MAX_SAMPLES,    \* AHRS_MAG_CAL_MAX_SAMPLES
    MIN_SPAN,       \* AHRS_MAG_CAL_MIN_SPAN
    UINT16_MAX,     \* where mag_cal_sample_count saturates
    Samples,        \* the samples the sensor may deliver
    MAX_REQUESTS    \* bound: calls other than periodic samples

Axes == {"x", "y", "z"}
MagRange == -MAG_MEAS_MAX .. MAG_MEAS_MAX

ASSUME CompassAssumption ==
    /\ ALPHA_Q15 \in 1 .. Q15_ONE - 1
    /\ MAG_MEAS_MAX \in Nat /\ 2 * MAG_MEAS_MAX <= I16_MAX
    /\ MIN_SAMPLES \in Nat /\ MAX_SAMPLES \in Nat /\ UINT16_MAX \in Nat
    /\ MAX_SAMPLES <= UINT16_MAX
    /\ MIN_SPAN \in Nat /\ MIN_SPAN >= 2
    /\ Samples \subseteq [Axes -> MagRange]
    /\ MAX_REQUESTS \in Nat

VARIABLES
    mag_state,              \* g_ahrs.magnetometer_state
    smoothed,               \* g_ahrs.smoothed_magnetometer_value
    bias, scale_num, scale_den,     \* g_ahrs.magnetometer_calibration
    mag_cal_min, mag_cal_max, sample_count, have_bounds,
    requests,               \* bound counter
    heard                   \* history: the samples noted since the count was reset

calibration == <<bias, scale_num, scale_den>>
collected == <<mag_cal_min, mag_cal_max, sample_count, have_bounds, heard>>
vars == <<mag_state, smoothed, calibration, collected, requests>>

MagStates == {"INITIALIZING", "CALIBRATING", "ACTIVE", "FAILED"}
AllAxes(n) == [a \in Axes |-> n]

Init ==
    /\ mag_state = "INITIALIZING"
    /\ smoothed = AllAxes(0)
    /\ bias = AllAxes(0) /\ scale_num = AllAxes(0) /\ scale_den = AllAxes(0)
    /\ mag_cal_min = AllAxes(0) /\ mag_cal_max = AllAxes(0)
    /\ sample_count = 0 /\ have_bounds = FALSE
    /\ requests = 0
    /\ heard = {}

Request == requests < MAX_REQUESTS /\ requests' = requests + 1

(***************************************************************************)
(* C's division truncates toward zero; storing to int16_t wraps.           *)
(***************************************************************************)
CDiv(n, d) == IF n < 0 THEN -((-n) \div d) ELSE n \div d
ToI16(v) == ((v + I16_MAX + 1) % (2 * I16_MAX + 2)) - I16_MAX - 1

\* Faulty variant of mag_apply_axis_scale: the result is not clamped.
scale_unclamped(centered, num, den) ==
    IF den = 0 THEN centered ELSE CDiv(centered * num, den)

mag_apply_axis_scale(centered, num, den) ==
    clamp_i32(IF den = 0 THEN centered ELSE CDiv(centered * num, den),
              -MAG_MEAS_MAX, MAG_MEAS_MAX)

CorrectedAxis(a, v) == mag_apply_axis_scale(v - bias[a], scale_num[a], scale_den[a])

ahrs_mag_corrected(v) == [a \in Axes |-> CorrectedAxis(a, v[a])]

\* Faulty variant of ForgetSamples: have_bounds is not reset.
ForgetCountOnly ==
    /\ sample_count' = 0
    /\ heard' = {}
    /\ UNCHANGED <<mag_cal_min, mag_cal_max, have_bounds>>

(***************************************************************************)
(* ahrs_init restarts the filter and the collection of extremes, and       *)
(* keeps the calibration.                                                  *)
(***************************************************************************)
ForgetSamples ==
    /\ sample_count' = 0
    /\ have_bounds' = FALSE
    /\ heard' = {}
    /\ UNCHANGED <<mag_cal_min, mag_cal_max>>

ahrs_init ==
    /\ Request
    /\ mag_state' = "INITIALIZING"
    /\ smoothed' = AllAxes(0)
    /\ ForgetSamples
    /\ UNCHANGED calibration

ResetCalibration ==
    /\ ForgetSamples
    /\ bias' = AllAxes(0) /\ scale_num' = AllAxes(1) /\ scale_den' = AllAxes(1)

ahrs_reset_compass_calibration ==
    /\ Request
    /\ ResetCalibration
    /\ UNCHANGED <<mag_state, smoothed>>

(***************************************************************************)
(* mag_cal_note_sample: widen the bounds, or start them, and count.        *)
(***************************************************************************)
NoteSample(v) ==
    /\ mag_cal_min' = [a \in Axes |->
         IF ~have_bounds \/ v[a] < mag_cal_min[a] THEN v[a] ELSE mag_cal_min[a]]
    /\ mag_cal_max' = [a \in Axes |->
         IF ~have_bounds \/ v[a] > mag_cal_max[a] THEN v[a] ELSE mag_cal_max[a]]
    /\ have_bounds' = TRUE
    /\ sample_count' = IF sample_count < UINT16_MAX THEN sample_count + 1 ELSE sample_count
    /\ heard' = heard \cup {v}

(***************************************************************************)
(* The sample just noted decides: too many samples fail the calibration,   *)
(* before the spans are looked at; enough samples with enough excursion on *)
(* every axis complete it, and set the calibration (mag_cal_try_finish).   *)
(***************************************************************************)
Span(a) == mag_cal_max[a] - mag_cal_min[a]
AvgSpan == (Span("x") + Span("y") + Span("z")) \div 3
\* Faulty variants of Middle and EnoughTurned: half the span for the middle,
\* and any axis for all axes.
HalfSpan(a) == CDiv(mag_cal_max[a] - mag_cal_min[a], 2)
TurnedOnSomeAxis == sample_count >= MIN_SAMPLES /\ \E a \in Axes : Span(a) >= MIN_SPAN

Middle(a) == CDiv(mag_cal_min[a] + mag_cal_max[a], 2)

Exhausted == sample_count >= MAX_SAMPLES
EnoughTurned == sample_count >= MIN_SAMPLES /\ \A a \in Axes : Span(a) >= MIN_SPAN

\* Faulty variant of Verdict: the last sample completes whatever it finds.
AcceptExhausted == IF (Exhausted \/ EnoughTurned)' THEN "COMPLETED" ELSE "IN_PROGRESS"

Verdict ==
    IF Exhausted' THEN "FAILED" ELSE IF EnoughTurned' THEN "COMPLETED" ELSE "IN_PROGRESS"

Finish ==
    /\ bias' = [a \in Axes |-> ToI16(Middle(a)')]
    /\ scale_num' = [a \in Axes |-> ToI16(AvgSpan')]
    /\ scale_den' = [a \in Axes |-> ToI16(Span(a)')]

Collect(v) ==
    /\ mag_state = "CALIBRATING"
    /\ NoteSample(v)
    /\ \/ Verdict = "COMPLETED" /\ Finish
       \/ Verdict # "COMPLETED" /\ UNCHANGED calibration

(***************************************************************************)
(* ahrs_calibrate_compass called by the owner: without a sample it begins  *)
(* a calibration; with one it collects it, and may even complete, but the  *)
(* state waits for the next periodic sample.                               *)
(***************************************************************************)
BeginCalibration ==
    /\ Request
    /\ mag_state = "ACTIVE"
    /\ ResetCalibration
    /\ mag_state' = "CALIBRATING"
    /\ UNCHANGED smoothed

CollectNow ==
    /\ Request
    /\ \E v \in Samples : Collect(v)
    /\ UNCHANGED <<mag_state, smoothed>>

\* Faulty variant of CollectSample: a failed calibration is not left.
CollectUntilCompleted(v) ==
    /\ Collect(v)
    /\ mag_state' = IF Verdict = "COMPLETED" THEN "ACTIVE" ELSE mag_state
    /\ UNCHANGED <<smoothed, requests>>

(***************************************************************************)
(* ahrs_update_magnetometer.                                               *)
(***************************************************************************)
CollectSample(v) ==
    /\ Collect(v)
    /\ mag_state' = IF Verdict = "COMPLETED" THEN "ACTIVE"
                    ELSE IF Verdict = "FAILED" THEN "FAILED" ELSE mag_state
    /\ UNCHANGED <<smoothed, requests>>

SeedFilter(v) ==
    /\ mag_state = "INITIALIZING"
    /\ smoothed' = ahrs_mag_corrected(v)
    /\ mag_state' = "ACTIVE"
    /\ UNCHANGED <<calibration, collected, requests>>

BlendSample(v) ==
    /\ mag_state = "ACTIVE"
    /\ smoothed' = [a \in Axes |->
         ema_blend_i16_q15(smoothed[a], ahrs_mag_corrected(v)[a], ALPHA_Q15)]
    /\ UNCHANGED <<mag_state, calibration, collected, requests>>

RefuseSample == mag_state = "FAILED" /\ UNCHANGED vars

ahrs_update_magnetometer ==
    \/ \E v \in Samples : CollectSample(v) \/ SeedFilter(v) \/ BlendSample(v)
    \/ RefuseSample

Next ==
    \/ ahrs_init \/ ahrs_reset_compass_calibration
    \/ BeginCalibration \/ CollectNow
    \/ ahrs_update_magnetometer

(***************************************************************************)
(* The AHRS slot comes round in every epoch, so samples keep arriving.     *)
(***************************************************************************)
Spec == Init /\ [][Next]_vars /\ WF_vars(ahrs_update_magnetometer)
----------------------------------------------------------------------------
(***************************************************************************)
(* Type invariant: the filter and the extremes stay inside the sensor's    *)
(* range and nothing that is stored in an int16_t needs more than its      *)
(* width.                                                                  *)
(***************************************************************************)
TypeOK ==
    /\ mag_state \in MagStates
    /\ smoothed \in [Axes -> MagRange]
    /\ bias \in [Axes -> I16] /\ scale_num \in [Axes -> I16] /\ scale_den \in [Axes -> I16]
    /\ mag_cal_min \in [Axes -> MagRange] /\ mag_cal_max \in [Axes -> MagRange]
    /\ sample_count \in 0 .. UINT16_MAX
    /\ have_bounds \in BOOLEAN
    /\ requests \in 0 .. MAX_REQUESTS
    /\ heard \subseteq Samples

Identity == \A a \in Axes : bias[a] = 0 /\ scale_num[a] = scale_den[a] /\ scale_den[a] \in {0, 1}

Measured ==
    /\ \A a \in Axes : scale_den[a] >= MIN_SPAN
    /\ \E n \in MIN_SPAN .. I16_MAX : scale_num = AllAxes(n)
    /\ \E a \in Axes : scale_den[a] <= scale_num[a]
    /\ \E a \in Axes : scale_den[a] >= scale_num[a]

(***************************************************************************)
(* The correction is that of no calibration on every axis, or of one       *)
(* completed calibration on every axis: never a mixture of two, never a    *)
(* wrapped or a negative scale, and the common numerator is an average of  *)
(* the denominators (mag_cal_try_finish, ahrs_reset_compass_calibration).  *)
(***************************************************************************)
WholeCalibration == Identity \/ Measured

(***************************************************************************)
(* The recorded extremes are those of the samples of this calibration      *)
(* alone: nothing of an earlier one is left in them, and none is missed.   *)
(***************************************************************************)
BoundsAreHeard ==
    /\ have_bounds <=> heard # {}
    /\ \A v \in heard, a \in Axes : mag_cal_min[a] <= v[a] /\ v[a] <= mag_cal_max[a]
    /\ heard # {} => \A a \in Axes : /\ \E v \in heard : v[a] = mag_cal_min[a]
                                     /\ \E v \in heard : v[a] = mag_cal_max[a]

(***************************************************************************)
(* A calibration ends well only if enough samples were collected since it  *)
(* was begun, among them two that lie MIN_SPAN apart on each axis, and it  *)
(* ends badly only for the number of samples.                              *)
(***************************************************************************)
VerdictIsDeserved ==
    [][mag_state = "CALIBRATING" =>
         /\ mag_state' = "ACTIVE" =>
              /\ sample_count' >= MIN_SAMPLES
              /\ \A a \in Axes : \E u, v \in heard' : u[a] - v[a] >= MIN_SPAN
         /\ mag_state' = "FAILED" => sample_count' >= MAX_SAMPLES]_vars

(***************************************************************************)
(* A new calibration centres the turn it was measured from: the two        *)
(* extremes of an axis are corrected to opposite values, but for the half  *)
(* unit lost in the middle, which the scale may magnify, and for less than *)
(* the one unit that two truncating divisions lose.                        *)
(***************************************************************************)
CentresTheTurn ==
    [][UNCHANGED calibration \/ ~Measured' \/
         \A a \in Axes :
           LET s == (CorrectedAxis(a, mag_cal_min[a]) + CorrectedAxis(a, mag_cal_max[a]))'
               lost == (scale_num[a] + scale_den[a])'
           IN  -lost < s * scale_den'[a] /\ s * scale_den'[a] < lost]_vars

(***************************************************************************)
(* A calibration does not go on for ever, even if the vessel never turns:  *)
(* the limit on samples ends it.                                           *)
(***************************************************************************)
CalibrationEnds == []<>(mag_state # "CALIBRATING")
============================================================================
