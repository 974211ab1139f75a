------------------------- MODULE AhrsCompassProofs -------------------------
(***************************************************************************)
(* Theorems about the compass, from its samples to the published page, for *)
(* every sensor range, sample limit, minimum span, smoothing factor and    *)
(* set of samples.                                                         *)
(*                                                                         *)
(* The calibration: three invariants hold together.  The recorded extremes *)
(* are readings, hence the spans fit the calibration's integers; a         *)
(* completed calibration divides by such spans, hence the corrected        *)
(* readings stay in the range.  That it is centred is arithmetic on its    *)
(* two extremes.                                                           *)
(*                                                                         *)
(* The heading: the cubic of atan2_rad falls over its range, the branches  *)
(* join to one angle that advances with the field.                         *)
(*                                                                         *)
(* The page: each byte belongs to one member, where the decoder reads it.  *)
(***************************************************************************)
EXTENDS AhrsPublic, Q15FilterProofs

CompassInv == TypeOK /\ WholeCalibration /\ BoundsAreHeard

(* A reading fits the integers it is stored in, and so does a span.        *)
LEMMA RangeFacts ==
    /\ I16_MAX \in Nat /\ MAG_MEAS_MAX \in Nat /\ 2 * MAG_MEAS_MAX <= I16_MAX
    /\ MagRange \subseteq I16 /\ MagRange \subseteq Int /\ I16 \subseteq Int
    /\ 0 \in MagRange /\ 0 \in I16 /\ 1 \in I16
    /\ MIN_SPAN \in Nat /\ MIN_SPAN >= 2
  <1>1. I16_MAX \in Nat /\ MAG_MEAS_MAX \in Nat /\ 2 * MAG_MEAS_MAX <= I16_MAX
    BY WidthAssumption, CompassAssumption
  <1>2. MagRange \subseteq Int /\ I16 \subseteq Int
    BY <1>1 DEF MagRange, I16
  <1>3. MagRange \subseteq I16 /\ 0 \in MagRange /\ 0 \in I16
    BY <1>1 DEF MagRange, I16
  <1>4. MIN_SPAN \in Nat /\ MIN_SPAN >= 2
    BY CompassAssumption
  <1>5. 1 <= I16_MAX
    BY WidthAssumption
  <1> QED
    BY <1>1, <1>2, <1>3, <1>4, <1>5 DEF I16

LEMMA AxisRange ==
    ASSUME NEW f \in [Axes -> MagRange], NEW a \in Axes
    PROVE  f[a] \in Int /\ -MAG_MEAS_MAX <= f[a] /\ f[a] <= MAG_MEAS_MAX
  BY RangeFacts DEF MagRange

LEMMA StoredAsIs ==
    ASSUME NEW v \in I16
    PROVE  ToI16(v) = v
  <1>1. /\ v \in Int /\ I16_MAX \in Nat
        /\ v + I16_MAX + 1 \in 0 .. 2 * I16_MAX + 1
    BY RangeFacts DEF I16
  <1>2. (v + I16_MAX + 1) % (2 * I16_MAX + 2) = v + I16_MAX + 1
    BY <1>1
  <1> QED
    BY <1>1, <1>2 DEF ToI16

LEMMA CDivIsInt ==
    ASSUME NEW n \in Int, NEW d \in Nat \ {0}
    PROVE  CDiv(n, d) \in Int
  BY DEF CDiv

(***************************************************************************)
(* What the divisions of a whole calibration divide by.                    *)
(***************************************************************************)
LEMMA ScaleIsUsable ==
    ASSUME WholeCalibration, scale_den \in [Axes -> I16], NEW a \in Axes
    PROVE  scale_den[a] \in Nat
  <1>1. scale_den[a] \in Int
    BY RangeFacts
  <1>2. CASE Identity
    BY <1>2 DEF Identity
  <1>3. CASE Measured
    <2>1. scale_den[a] >= MIN_SPAN
      BY <1>3 DEF Measured
    <2> QED
      BY <1>1, <2>1, RangeFacts
  <1> QED
    BY <1>2, <1>3 DEF WholeCalibration

LEMMA CorrectedInRange ==
    ASSUME TypeOK, WholeCalibration, NEW v \in [Axes -> MagRange]
    PROVE  ahrs_mag_corrected(v) \in [Axes -> MagRange]
  <1>1. SUFFICES ASSUME NEW a \in Axes PROVE CorrectedAxis(a, v[a]) \in MagRange
    BY DEF ahrs_mag_corrected
  <1>2. /\ v[a] \in Int /\ bias[a] \in Int /\ scale_num[a] \in Int
        /\ scale_den[a] \in Nat
    BY RangeFacts, ScaleIsUsable DEF TypeOK
  <1> DEFINE c == v[a] - bias[a]
             w == IF scale_den[a] = 0 THEN c ELSE CDiv(c * scale_num[a], scale_den[a])
  <1>3. w \in Int
    BY <1>2, CDivIsInt
  <1> HIDE DEF w
  <1>4. clamp_i32(w, -MAG_MEAS_MAX, MAG_MEAS_MAX) \in MagRange
    BY <1>3, RangeFacts DEF clamp_i32, MagRange
  <1> QED
    BY <1>4 DEF w, CorrectedAxis, mag_apply_axis_scale

LEMMA BlendedInRange ==
    ASSUME NEW c \in MagRange, NEW r \in MagRange
    PROVE  ema_blend_i16_q15(c, r, ALPHA_Q15) \in MagRange
  <1> DEFINE e == ema_blend_i16_q15(c, r, ALPHA_Q15)
  <1>1. e \in I16 /\ Between(e, c, r)
    BY EmaBetween, RangeFacts, CompassAssumption
  <1> HIDE DEF e
  <1>2. e \in Int /\ ((c <= e /\ e <= r) \/ (r <= e /\ e <= c))
    BY <1>1, RangeFacts DEF Between
  <1>3. e \in MagRange
    BY <1>2, RangeFacts DEF MagRange
  <1> QED
    BY <1>3 DEF e

(***************************************************************************)
(* Three spans that are wide enough have an average between the narrowest  *)
(* and the widest, and everything try_finish stores fits.                  *)
(***************************************************************************)
LEMMA AverageOfThree ==
    ASSUME NEW p \in Nat, NEW q \in Nat, NEW r \in Nat, NEW lo \in Nat, NEW hi \in Nat,
           lo <= p, lo <= q, lo <= r, p <= hi, q <= hi, r <= hi
    PROVE  LET avg == (p + q + r) \div 3
           IN  /\ avg \in lo .. hi
               /\ p <= avg \/ q <= avg \/ r <= avg
               /\ p >= avg \/ q >= avg \/ r >= avg
  OBVIOUS

LEMMA MiddleInRange ==
    ASSUME NEW p \in MagRange, NEW q \in MagRange
    PROVE  CDiv(p + q, 2) \in I16
  <1>1. /\ p + q \in Int /\ MAG_MEAS_MAX \in Nat
        /\ -(2 * MAG_MEAS_MAX) <= p + q /\ p + q <= 2 * MAG_MEAS_MAX
    BY RangeFacts DEF MagRange
  <1>2. CDiv(p + q, 2) \in -MAG_MEAS_MAX .. MAG_MEAS_MAX
    BY <1>1 DEF CDiv
  <1> QED
    BY <1>2, RangeFacts DEF MagRange

LEMMA FinishMeasures ==
    ASSUME mag_cal_min' \in [Axes -> MagRange], mag_cal_max' \in [Axes -> MagRange],
           EnoughTurned', Finish
    PROVE  /\ Measured'
           /\ bias' \in [Axes -> I16] /\ scale_num' \in [Axes -> I16]
           /\ scale_den' \in [Axes -> I16]
  <1> DEFINE p == Span("x")'
             q == Span("y")'
             r == Span("z")'
             avg == AvgSpan'
  <1>1. \A a \in Axes : Span(a)' \in Nat /\ Span(a)' >= MIN_SPAN /\ Span(a)' <= I16_MAX
    <2> TAKE a \in Axes
    <2>1. Span(a)' = mag_cal_max'[a] - mag_cal_min'[a] /\ Span(a)' >= MIN_SPAN
      BY DEF Span, EnoughTurned
    <2> QED
      BY <2>1, AxisRange, RangeFacts
  <1>2. /\ p \in Nat /\ q \in Nat /\ r \in Nat
        /\ MIN_SPAN <= p /\ MIN_SPAN <= q /\ MIN_SPAN <= r
        /\ p <= I16_MAX /\ q <= I16_MAX /\ r <= I16_MAX
    BY <1>1 DEF Axes
  <1>3. avg = (p + q + r) \div 3
    BY DEF AvgSpan
  <1> HIDE DEF p, q, r, avg
  <1>4. /\ avg \in MIN_SPAN .. I16_MAX
        /\ p <= avg \/ q <= avg \/ r <= avg
        /\ p >= avg \/ q >= avg \/ r >= avg
    BY <1>2, <1>3, AverageOfThree, RangeFacts
  <1>5. avg \in I16 /\ ToI16(avg) = avg
    BY <1>4, RangeFacts, StoredAsIs DEF I16
  <1>6. \A a \in Axes : Span(a)' \in I16 /\ ToI16(Span(a)') = Span(a)'
    BY <1>1, RangeFacts, StoredAsIs DEF I16
  <1>7. \A a \in Axes : Middle(a)' \in I16 /\ ToI16(Middle(a)') = Middle(a)'
    BY MiddleInRange, StoredAsIs DEF Middle
  <1>8. scale_num' = AllAxes(avg) /\ scale_den' = [a \in Axes |-> Span(a)']
    BY <1>5, <1>6 DEF Finish, AllAxes, avg
  <1>9. bias' \in [Axes -> I16]
    BY <1>7 DEF Finish
  <1>10. scale_num' \in [Axes -> I16] /\ scale_den' \in [Axes -> I16]
    BY <1>5, <1>6, <1>8 DEF AllAxes
  <1>11. \E a \in Axes : scale_den'[a] <= scale_num'[a]
    BY <1>4, <1>8 DEF Axes, AllAxes, p, q, r
  <1>12. \E a \in Axes : scale_den'[a] >= scale_num'[a]
    BY <1>4, <1>8 DEF Axes, AllAxes, p, q, r
  <1>13. \A a \in Axes : scale_den'[a] >= MIN_SPAN
    BY <1>1, <1>8
  <1>14. \E n \in MIN_SPAN .. I16_MAX : scale_num' = AllAxes(n)
    BY <1>4, <1>8
  <1> QED
    BY <1>9, <1>10, <1>11, <1>12, <1>13, <1>14 DEF Measured, AllAxes

----------------------------------------------------------------------------
(* Noting a sample keeps the bounds those of the samples heard. *)

LEMMA BoundsAreTyped ==
    ASSUME TypeOK, NEW v \in Samples, NoteSample(v)
    PROVE  /\ mag_cal_min' \in [Axes -> MagRange]
           /\ mag_cal_max' \in [Axes -> MagRange]
  <1>1. v \in [Axes -> MagRange]
    BY CompassAssumption
  <1> QED
    BY <1>1 DEF TypeOK, NoteSample

LEMMA NotedIsBound ==
    ASSUME TypeOK, BoundsAreHeard, NEW v \in Samples, NoteSample(v)
    PROVE  BoundsAreHeard'
  <1> USE DEF NoteSample
  <1>1. v \in [Axes -> MagRange] /\ heard \subseteq [Axes -> MagRange]
    BY CompassAssumption DEF TypeOK
  <1>2. have_bounds' /\ heard' = heard \cup {v} /\ v \in heard'
    BY Zenon
  <1>3. CASE heard = {}
    <2>1. ~have_bounds
      BY <1>3 DEF BoundsAreHeard
    <2>2. \A a \in Axes : mag_cal_min'[a] = v[a] /\ mag_cal_max'[a] = v[a]
      BY <2>1
    <2>3. \A a \in Axes : v[a] \in Int
      BY <1>1, AxisRange
    <2> QED
      BY <1>2, <1>3, <2>2, <2>3 DEF BoundsAreHeard
  <1>4. CASE heard # {}
    <2>1. have_bounds
      BY <1>4 DEF BoundsAreHeard
    <2>2. \A a \in Axes :
            /\ mag_cal_min'[a] = IF v[a] < mag_cal_min[a] THEN v[a] ELSE mag_cal_min[a]
            /\ mag_cal_max'[a] = IF v[a] > mag_cal_max[a] THEN v[a] ELSE mag_cal_max[a]
      BY <2>1
    <2>3. \A a \in Axes : v[a] \in Int /\ mag_cal_min[a] \in Int /\ mag_cal_max[a] \in Int
      BY <1>1, AxisRange DEF TypeOK
    <2>4. \A u \in heard, a \in Axes :
            u[a] \in Int /\ mag_cal_min[a] <= u[a] /\ u[a] <= mag_cal_max[a]
      BY <1>1, AxisRange DEF BoundsAreHeard
    <2>5. \A u \in heard', a \in Axes : mag_cal_min'[a] <= u[a] /\ u[a] <= mag_cal_max'[a]
      <3>1. ASSUME NEW u \in heard', NEW a \in Axes
            PROVE  mag_cal_min'[a] <= u[a] /\ u[a] <= mag_cal_max'[a]
        <4>1. CASE u = v
          BY <4>1, <2>2, <2>3
        <4>2. CASE u \in heard
          BY <4>2, <2>2, <2>3, <2>4
        <4> QED
          BY <4>1, <4>2, <1>2
      <3> QED
        BY <3>1
    <2>6. \A a \in Axes : /\ \E u \in heard' : u[a] = mag_cal_min'[a]
                          /\ \E u \in heard' : u[a] = mag_cal_max'[a]
      <3> TAKE a \in Axes
      <3>1. /\ \E u \in heard : u[a] = mag_cal_min[a]
            /\ \E u \in heard : u[a] = mag_cal_max[a]
        BY <1>4 DEF BoundsAreHeard
      <3> QED
        BY <3>1, <2>2, <1>2
    <2> QED
      BY <1>2, <2>5, <2>6 DEF BoundsAreHeard
  <1> QED
    BY <1>3, <1>4

(***************************************************************************)
(* One sample collected while calibrating, whoever delivers it.            *)
(***************************************************************************)
LEMMA CountStep ==
    ASSUME TypeOK, NEW v \in Samples, NoteSample(v)
    PROVE  sample_count' \in 0 .. UINT16_MAX
  BY CompassAssumption DEF TypeOK, NoteSample

LEMMA CollectStep ==
    ASSUME CompassInv, NEW v \in Samples, Collect(v)
    PROVE  /\ bias' \in [Axes -> I16] /\ scale_num' \in [Axes -> I16]
           /\ scale_den' \in [Axes -> I16]
           /\ mag_cal_min' \in [Axes -> MagRange] /\ mag_cal_max' \in [Axes -> MagRange]
           /\ sample_count' \in 0 .. UINT16_MAX
           /\ have_bounds' \in BOOLEAN /\ heard' \subseteq Samples
           /\ WholeCalibration' /\ BoundsAreHeard'
  <1>1. NoteSample(v) /\ TypeOK /\ WholeCalibration /\ BoundsAreHeard
    BY DEF Collect, CompassInv
  <1>2. mag_cal_min' \in [Axes -> MagRange] /\ mag_cal_max' \in [Axes -> MagRange]
    BY <1>1, BoundsAreTyped
  <1>3. sample_count' \in 0 .. UINT16_MAX
    BY <1>1, CountStep
  <1>4. have_bounds' \in BOOLEAN /\ heard' \subseteq Samples
    BY <1>1, Zenon DEF NoteSample, TypeOK
  <1>5. BoundsAreHeard'
    BY <1>1, NotedIsBound
  <1>6. CASE Verdict = "COMPLETED"
    <2>1. EnoughTurned' /\ Finish
      BY <1>6 DEF Collect, Verdict
    <2> QED
      BY <1>2, <1>3, <1>4, <1>5, <2>1, FinishMeasures DEF WholeCalibration
  <1>7. CASE Verdict # "COMPLETED"
    <2>1. bias' = bias /\ scale_num' = scale_num /\ scale_den' = scale_den
      BY <1>7 DEF Collect, calibration
    <2>2. WholeCalibration'
      BY <1>1, <2>1 DEF WholeCalibration, Identity, Measured
    <2> QED
      BY <1>1, <1>2, <1>3, <1>4, <1>5, <2>1, <2>2 DEF TypeOK
  <1> QED
    BY <1>6, <1>7

(***************************************************************************)
(* Starting the collection again.                                          *)
(***************************************************************************)
LEMMA ForgetStep ==
    ASSUME TypeOK, ForgetSamples
    PROVE  /\ mag_cal_min' \in [Axes -> MagRange] /\ mag_cal_max' \in [Axes -> MagRange]
           /\ sample_count' \in 0 .. UINT16_MAX
           /\ have_bounds' \in BOOLEAN /\ heard' \subseteq Samples
           /\ BoundsAreHeard'
  <1>1. /\ mag_cal_min' \in [Axes -> MagRange] /\ mag_cal_max' \in [Axes -> MagRange]
        /\ have_bounds' \in BOOLEAN /\ heard' \subseteq Samples
    BY Zenon DEF TypeOK, ForgetSamples
  <1>2. sample_count' \in 0 .. UINT16_MAX
    BY CompassAssumption DEF ForgetSamples
  <1>3. BoundsAreHeard'
    BY DEF ForgetSamples, BoundsAreHeard
  <1> QED
    BY <1>1, <1>2, <1>3

LEMMA ConstantAxes ==
    ASSUME NEW S, NEW n \in S
    PROVE  AllAxes(n) \in [Axes -> S] /\ \A a \in Axes : AllAxes(n)[a] = n
  BY DEF AllAxes

LEMMA ResetStep ==
    ASSUME TypeOK, ResetCalibration
    PROVE  /\ bias' \in [Axes -> I16] /\ scale_num' \in [Axes -> I16]
           /\ scale_den' \in [Axes -> I16]
           /\ WholeCalibration'
  <1>1. bias' = AllAxes(0) /\ scale_num' = AllAxes(1) /\ scale_den' = AllAxes(1)
    BY DEF ResetCalibration
  <1>2. Identity'
    BY <1>1, ConstantAxes, RangeFacts DEF Identity
  <1> QED
    BY <1>1, <1>2, ConstantAxes, RangeFacts DEF WholeCalibration

LEMMA RequestIsBounded == TypeOK /\ Request => requests' \in 0 .. MAX_REQUESTS
  BY CompassAssumption DEF TypeOK, Request

----------------------------------------------------------------------------
LEMMA InvInit == Init => CompassInv
  <1> SUFFICES ASSUME Init PROVE CompassInv
    OBVIOUS
  <1>1. TypeOK
    <2>1. requests \in 0 .. MAX_REQUESTS /\ sample_count \in 0 .. UINT16_MAX
      BY CompassAssumption DEF Init
    <2>2. have_bounds \in BOOLEAN /\ mag_state \in MagStates /\ heard \subseteq Samples
      BY Zenon DEF Init, MagStates
    <2> QED
      BY <2>1, <2>2, ConstantAxes, RangeFacts, Zenon DEF Init, TypeOK
  <1>2. WholeCalibration
    BY ConstantAxes, RangeFacts DEF Init, WholeCalibration, Identity
  <1>3. BoundsAreHeard
    BY DEF Init, BoundsAreHeard
  <1> QED
    BY <1>1, <1>2, <1>3 DEF CompassInv

LEMMA SameCalibration ==
    ASSUME WholeCalibration, UNCHANGED calibration
    PROVE  WholeCalibration'
  BY DEF WholeCalibration, calibration, Identity, Measured

LEMMA SameBounds ==
    ASSUME BoundsAreHeard, UNCHANGED collected
    PROVE  BoundsAreHeard'
  BY DEF BoundsAreHeard, collected

LEMMA InvStep == CompassInv /\ [Next]_vars => CompassInv'
  <1> SUFFICES ASSUME TypeOK, WholeCalibration, BoundsAreHeard, [Next]_vars
               PROVE  TypeOK' /\ WholeCalibration' /\ BoundsAreHeard'
    BY DEF CompassInv
  <1>1. CASE ahrs_init
    <2>1. requests' \in 0 .. MAX_REQUESTS /\ ForgetSamples /\ WholeCalibration'
      BY <1>1, RequestIsBounded, SameCalibration DEF ahrs_init
    <2>2. mag_state' \in MagStates /\ smoothed' \in [Axes -> MagRange]
      BY <1>1, ConstantAxes, RangeFacts DEF ahrs_init, MagStates
    <2>3. bias' = bias /\ scale_num' = scale_num /\ scale_den' = scale_den
      BY <1>1 DEF ahrs_init, calibration
    <2> QED
      BY <2>1, <2>2, <2>3, ForgetStep, Zenon DEF TypeOK
  <1>2. CASE ahrs_reset_compass_calibration
    <2>1. requests' \in 0 .. MAX_REQUESTS /\ ForgetSamples /\ ResetCalibration
      BY <1>2, RequestIsBounded DEF ahrs_reset_compass_calibration, ResetCalibration
    <2>2. mag_state' = mag_state /\ smoothed' = smoothed
      BY <1>2 DEF ahrs_reset_compass_calibration
    <2> QED
      BY <2>1, <2>2, ForgetStep, ResetStep, Zenon DEF TypeOK
  <1>3. CASE BeginCalibration
    <2>1. requests' \in 0 .. MAX_REQUESTS /\ ForgetSamples /\ ResetCalibration
      BY <1>3, RequestIsBounded DEF BeginCalibration, ResetCalibration
    <2>2. mag_state' \in MagStates /\ smoothed' = smoothed
      BY <1>3 DEF BeginCalibration, MagStates
    <2> QED
      BY <2>1, <2>2, ForgetStep, ResetStep, Zenon DEF TypeOK
  <1>4. CASE CollectNow
    <2>1. PICK v \in Samples : Collect(v)
      BY <1>4 DEF CollectNow
    <2>2. requests' \in 0 .. MAX_REQUESTS /\ mag_state' = mag_state /\ smoothed' = smoothed
      BY <1>4, RequestIsBounded DEF CollectNow
    <2> QED
      BY <2>1, <2>2, CollectStep, Zenon DEF TypeOK, CompassInv
  <1>5. ASSUME NEW v \in Samples, CollectSample(v)
        PROVE  TypeOK' /\ WholeCalibration' /\ BoundsAreHeard'
    <2>1. mag_state' \in MagStates
      <3>1. Verdict \in {"FAILED", "COMPLETED", "IN_PROGRESS"}
        BY DEF Verdict
      <3> QED
        BY <1>5, <3>1 DEF CollectSample, TypeOK, MagStates
    <2>2. Collect(v) /\ requests' = requests /\ smoothed' = smoothed
      BY <1>5 DEF CollectSample
    <2> QED
      BY <2>1, <2>2, CollectStep, Zenon DEF TypeOK, CompassInv
  <1>6. ASSUME NEW v \in Samples, SeedFilter(v)
        PROVE  TypeOK' /\ WholeCalibration' /\ BoundsAreHeard'
    <2>1. smoothed' \in [Axes -> MagRange] /\ mag_state' \in MagStates
      BY <1>6, CorrectedInRange, CompassAssumption DEF SeedFilter, MagStates
    <2>2. WholeCalibration' /\ BoundsAreHeard'
      BY <1>6, SameCalibration, SameBounds DEF SeedFilter
    <2> QED
      BY <1>6, <2>1, <2>2, Zenon DEF SeedFilter, TypeOK, calibration, collected
  <1>7. ASSUME NEW v \in Samples, BlendSample(v)
        PROVE  TypeOK' /\ WholeCalibration' /\ BoundsAreHeard'
    <2>1. ahrs_mag_corrected(v) \in [Axes -> MagRange]
      BY CorrectedInRange, CompassAssumption
    <2>2. \A a \in Axes :
            ema_blend_i16_q15(smoothed[a], ahrs_mag_corrected(v)[a], ALPHA_Q15) \in MagRange
      BY <2>1, BlendedInRange DEF TypeOK
    <2>3. smoothed' \in [Axes -> MagRange]
      BY <1>7, <2>2 DEF BlendSample
    <2>4. WholeCalibration' /\ BoundsAreHeard'
      BY <1>7, SameCalibration, SameBounds DEF BlendSample
    <2> QED
      BY <1>7, <2>3, <2>4, Zenon DEF BlendSample, TypeOK, calibration, collected
  <1>8. CASE UNCHANGED vars
    <2>1. WholeCalibration' /\ BoundsAreHeard'
      BY <1>8, SameCalibration, SameBounds DEF vars
    <2> QED
      BY <1>8, <2>1, Zenon DEF vars, TypeOK, calibration, collected
  <1> QED
    BY <1>1, <1>2, <1>3, <1>4, <1>5, <1>6, <1>7, <1>8
    DEF Next, ahrs_update_magnetometer, RefuseSample

LEMMA CompassIsSound == Spec => []CompassInv
  BY InvInit, InvStep, PTL DEF Spec

(* Every reading the compass publishes, and every number it stores, is     *)
(* within the sensor's range and its C type: nothing wraps.                *)
THEOREM CompassTypeCorrect == Spec => []TypeOK
  BY CompassIsSound, PTL DEF CompassInv

(* The correction is none on all axes or one measured correction on all,   *)
(* with scales wide enough to divide by.                                   *)
THEOREM CalibrationIsWhole == Spec => []WholeCalibration
  BY CompassIsSound, PTL DEF CompassInv

(* The extremes come from the samples of the calibration at hand only.     *)
THEOREM ExtremesAreHeard == Spec => []BoundsAreHeard
  BY CompassIsSound, PTL DEF CompassInv

----------------------------------------------------------------------------
(* Why a calibration that completes deserves to. *)
LEMMA TurnedIsHeard ==
    ASSUME TypeOK', BoundsAreHeard', EnoughTurned', heard' # {}
    PROVE  \A a \in Axes : \E u, v \in heard' : u[a] - v[a] >= MIN_SPAN
  <1> TAKE a \in Axes
  <1>1. PICK u \in heard' : u[a] = mag_cal_max'[a]
    BY DEF BoundsAreHeard
  <1>2. PICK v \in heard' : v[a] = mag_cal_min'[a]
    BY DEF BoundsAreHeard
  <1> QED
    BY <1>1, <1>2 DEF EnoughTurned, Span

(* A calibration completes only on enough samples with enough excursion on *)
(* every axis since it was begun, and fails only for too many samples.     *)
THEOREM VerdictsAreDeserved == Spec => VerdictIsDeserved
  <1> DEFINE Deserved ==
        mag_state = "CALIBRATING" =>
          /\ mag_state' = "ACTIVE" =>
               /\ sample_count' >= MIN_SAMPLES
               /\ \A a \in Axes : \E u, v \in heard' : u[a] - v[a] >= MIN_SPAN
          /\ mag_state' = "FAILED" => sample_count' >= MAX_SAMPLES
  <1>1. CompassInv /\ CompassInv' /\ [Next]_vars => [Deserved]_vars
    <2> SUFFICES ASSUME CompassInv, CompassInv', Next PROVE Deserved
      OBVIOUS
    <2>1. ASSUME NEW v \in Samples, CollectSample(v) PROVE Deserved
      <3>1. heard' # {}
        BY <2>1 DEF CollectSample, Collect, NoteSample
      <3>2. CASE mag_state' = "ACTIVE"
        <4>1. mag_state = "CALIBRATING" => Verdict = "COMPLETED"
          BY <2>1, <3>2 DEF CollectSample
        <4>2. mag_state = "CALIBRATING" => EnoughTurned'
          BY <4>1 DEF Verdict
        <4> QED
          BY <3>1, <3>2, <4>2, TurnedIsHeard DEF CompassInv, EnoughTurned
      <3>3. CASE mag_state' = "FAILED"
        <4>1. mag_state = "CALIBRATING" => Verdict = "FAILED"
          BY <2>1, <3>3 DEF CollectSample
        <4>2. mag_state = "CALIBRATING" => Exhausted'
          BY <4>1 DEF Verdict
        <4> QED
          BY <3>3, <4>2 DEF Exhausted
      <3> QED
        BY <3>2, <3>3
    <2>2. ASSUME NEW v \in Samples, SeedFilter(v) \/ BlendSample(v) PROVE Deserved
      BY <2>2 DEF SeedFilter, BlendSample
    <2>3. CASE ahrs_init \/ ahrs_reset_compass_calibration \/ BeginCalibration \/ CollectNow
      BY <2>3 DEF ahrs_init, ahrs_reset_compass_calibration, BeginCalibration, CollectNow
    <2>4. CASE RefuseSample
      BY <2>4 DEF RefuseSample
    <2> QED
      BY <2>1, <2>2, <2>3, <2>4 DEF Next, ahrs_update_magnetometer
  <1> QED
    BY <1>1, CompassIsSound, PTL DEF Spec, VerdictIsDeserved
----------------------------------------------------------------------------
(* Why the two ends of a turn are corrected to opposite values. *)
LEMMA QuotientBounds ==
    ASSUME NEW n \in Nat, NEW d \in Nat \ {0}
    PROVE  n \div d \in Nat /\ (n \div d) * d <= n /\ n < (n \div d) * d + d
  <1>1. n \div d \in Int /\ n % d \in 0 .. d - 1 /\ n = d * (n \div d) + (n % d)
    OBVIOUS
  <1> DEFINE q == n \div d
             r == n % d
  <1> HIDE DEF q, r
  <1>2. q \in Int /\ r \in 0 .. d - 1 /\ n = d * q + r
    BY <1>1 DEF q, r
  <1>3. ASSUME q <= -1 PROVE FALSE
    <2>1. d * q <= -d
      BY <1>2, <1>3
    <2> QED
      BY <1>2, <2>1
  <1>4. q * d <= n /\ n < q * d + d
    BY <1>2
  <1> QED
    BY <1>2, <1>3, <1>4 DEF q

(* Of two numbers at most one apart, scaled by num / den and rounded down, *)
(* the difference is less than one scaled unit and one unit.               *)
LEMMA ScaledApart ==
    ASSUME NEW p \in Nat, NEW q \in Nat, NEW num \in Nat, NEW den \in Nat \ {0},
           p - q \in {-1, 0, 1}
    PROVE  LET gap == ((p * num) \div den - (q * num) \div den) * den
           IN  -(num + den) < gap /\ gap < num + den
  <1> DEFINE P == (p * num) \div den
             Q == (q * num) \div den
  <1>1. p * num \in Nat /\ q * num \in Nat
    OBVIOUS
  <1>2. P \in Nat /\ P * den <= p * num /\ p * num < P * den + den
    BY <1>1, QuotientBounds
  <1>3. Q \in Nat /\ Q * den <= q * num /\ q * num < Q * den + den
    BY <1>1, QuotientBounds
  <1>4. p * num - q * num \in {-num, 0, num}
    <2>1. p = q - 1 \/ p = q \/ p = q + 1
      OBVIOUS
    <2>2. CASE p = q - 1
      BY <2>2
    <2>3. CASE p = q
      BY <2>3
    <2>4. CASE p = q + 1
      BY <2>4
    <2> QED
      BY <2>1, <2>2, <2>3, <2>4
  <1> HIDE DEF P, Q
  <1> DEFINE Pd == P * den
             Qd == Q * den
             pn == p * num
             qn == q * num
  <1>5. (P - Q) * den = Pd - Qd /\ Pd \in Int /\ Qd \in Int /\ pn \in Nat /\ qn \in Nat
    BY <1>1, <1>2, <1>3
  <1>6. /\ Pd <= pn /\ pn < Pd + den /\ Qd <= qn /\ qn < Qd + den
        /\ pn - qn \in {-num, 0, num}
    BY <1>2, <1>3, <1>4
  <1> HIDE DEF Pd, Qd, pn, qn
  <1>7. -(num + den) < Pd - Qd /\ Pd - Qd < num + den
    BY <1>5, <1>6
  <1> QED
    BY <1>5, <1>7 DEF P, Q

(* The middle of an axis lies between its extremes, in the middle but for  *)
(* the half unit C's division cuts off.                                    *)
LEMMA MiddleBetween ==
    ASSUME NEW lo \in Int, NEW hi \in Int, lo <= hi
    PROVE  LET mid == CDiv(lo + hi, 2)
           IN  /\ mid \in Int /\ mid - lo \in Nat /\ hi - mid \in Nat
               /\ (hi - mid) - (mid - lo) \in {-1, 0, 1}
  BY DEF CDiv

(* What the two ends of an axis are corrected to.                          *)
LEMMA EndsAreOpposite ==
    ASSUME NEW lo \in Int, NEW hi \in Int, lo <= hi,
           NEW num \in Nat, NEW den \in Nat \ {0}
    PROVE  LET mid == CDiv(lo + hi, 2)
               s == mag_apply_axis_scale(lo - mid, num, den)
                      + mag_apply_axis_scale(hi - mid, num, den)
           IN  -(num + den) < s * den /\ s * den < num + den
  <1> DEFINE mid == CDiv(lo + hi, 2)
             p == hi - mid
             q == mid - lo
             P == (p * num) \div den
             Q == (q * num) \div den
             s == mag_apply_axis_scale(lo - mid, num, den)
                    + mag_apply_axis_scale(hi - mid, num, den)
  <1>1. mid \in Int /\ p \in Nat /\ q \in Nat /\ p - q \in {-1, 0, 1}
    BY MiddleBetween
  <1> HIDE DEF mid
  <1>2. p * num \in Nat /\ q * num \in Nat /\ (lo - mid) * num = -(q * num)
    BY <1>1
  <1>3. P \in Nat /\ Q \in Nat
    BY <1>2, QuotientBounds
  <1>4. CDiv((hi - mid) * num, den) = P
    BY <1>2 DEF CDiv
  <1>5. CDiv((lo - mid) * num, den) = -Q
    <2> DEFINE n == q * num
    <2>1. n \in Nat /\ (lo - mid) * num = -n /\ Q = n \div den
      BY <1>2
    <2> HIDE DEF n, Q
    <2>2. CASE n = 0
      <3>1. 0 \div den = 0
        <4>1. 0 \div den \in Nat /\ (0 \div den) * den <= 0
          BY QuotientBounds
        <4> DEFINE z == 0 \div den
        <4> HIDE DEF z
        <4>2. z \in Nat /\ z * den <= 0
          BY <4>1 DEF z
        <4>3. ASSUME z >= 1 PROVE FALSE
          <5>1. z * den >= den
            BY <4>2, <4>3
          <5> QED
            BY <4>2, <5>1
        <4> QED
          BY <4>2, <4>3 DEF z
      <3> QED
        BY <2>1, <2>2, <3>1 DEF CDiv
    <2>3. CASE n # 0
      <3>1. -n < 0 /\ -(-n) = n
        BY <2>1, <2>3
      <3> QED
        BY <2>1, <3>1 DEF CDiv
    <2> QED
      BY <2>2, <2>3
  <1> DEFINE cut(v) == clamp_i32(v, -MAG_MEAS_MAX, MAG_MEAS_MAX)
  <1>6. s = cut(-Q) + cut(P)
    BY <1>4, <1>5 DEF mag_apply_axis_scale
  <1> DEFINE g == P - Q
  <1>7. -(num + den) < g * den /\ g * den < num + den
    BY <1>1, ScaledApart
  <1> HIDE DEF s, P, Q
  <1>8. s \in Int /\ g \in Int /\ ((0 <= s /\ s <= g) \/ (g <= s /\ s <= 0))
    BY <1>3, <1>6, RangeFacts DEF clamp_i32
  <1> HIDE DEF g
  <1>9. (0 <= s * den /\ s * den <= g * den) \/ (g * den <= s * den /\ s * den <= 0)
    <2>1. CASE 0 <= s /\ s <= g
      BY <1>8, <2>1
    <2>2. CASE g <= s /\ s <= 0
      BY <1>8, <2>2
    <2> QED
      BY <1>8, <2>1, <2>2
  <1>10. -(num + den) < s * den /\ s * den < num + den
    <2> DEFINE sd == s * den
               gd == g * den
    <2>1. sd \in Int /\ gd \in Int
      BY <1>8
    <2> HIDE DEF sd, gd
    <2>2. (0 <= sd /\ sd <= gd) \/ (gd <= sd /\ sd <= 0)
      BY <1>9 DEF sd, gd
    <2>3. -(num + den) < gd /\ gd < num + den
      BY <1>7 DEF gd
    <2>4. -(num + den) < sd /\ sd < num + den
      BY <2>1, <2>2, <2>3
    <2> QED
      BY <2>4 DEF sd
  <1> QED
    BY <1>10 DEF s, mid

(* What try_finish stores, it stores without wrapping.                     *)
LEMMA FinishStores ==
    ASSUME mag_cal_min' \in [Axes -> MagRange], mag_cal_max' \in [Axes -> MagRange],
           EnoughTurned', Finish, NEW a \in Axes
    PROVE  /\ mag_cal_min'[a] <= mag_cal_max'[a]
           /\ bias'[a] = CDiv(mag_cal_min'[a] + mag_cal_max'[a], 2)
           /\ scale_num'[a] \in Nat
           /\ scale_den'[a] \in Nat \ {0}
  <1>1. /\ mag_cal_min'[a] \in Int /\ mag_cal_max'[a] \in Int
        /\ mag_cal_max'[a] - mag_cal_min'[a] >= MIN_SPAN
    BY AxisRange DEF EnoughTurned, Span
  <1>2. Middle(a)' \in I16
    BY MiddleInRange DEF Middle
  <1>3. bias'[a] = CDiv(mag_cal_min'[a] + mag_cal_max'[a], 2)
    BY <1>2, StoredAsIs DEF Finish, Middle
  <1>4. Measured' /\ scale_num' \in [Axes -> I16] /\ scale_den' \in [Axes -> I16]
    BY FinishMeasures
  <1>5. scale_den'[a] \in Int /\ scale_den'[a] >= MIN_SPAN
    BY <1>4, RangeFacts DEF Measured
  <1>6. PICK n \in MIN_SPAN .. I16_MAX : scale_num' = AllAxes(n)
    BY <1>4 DEF Measured
  <1>7. scale_num'[a] = n
    BY <1>6, ConstantAxes
  <1> QED
    BY <1>1, <1>3, <1>5, <1>6, <1>7, RangeFacts

(* A new calibration centres the turn it was measured from.                *)
THEOREM TurnsAreCentred == Spec => CentresTheTurn
  <1> DEFINE Centred ==
        \A a \in Axes :
          LET s == (CorrectedAxis(a, mag_cal_min[a]) + CorrectedAxis(a, mag_cal_max[a]))'
              lost == (scale_num[a] + scale_den[a])'
          IN  -lost < s * scale_den'[a] /\ s * scale_den'[a] < lost
  <1>1. CompassInv /\ [Next]_vars => [UNCHANGED calibration \/ ~Measured' \/ Centred]_vars
    <2> SUFFICES ASSUME CompassInv, Next
                 PROVE  UNCHANGED calibration \/ ~Measured' \/ Centred
      OBVIOUS
    <2>1. ASSUME NEW v \in Samples, Collect(v)
          PROVE  UNCHANGED calibration \/ Centred
      <3>1. CASE Verdict = "COMPLETED"
        <4>1. EnoughTurned' /\ Finish
          BY <2>1, <3>1 DEF Collect, Verdict
        <4>2. mag_cal_min' \in [Axes -> MagRange] /\ mag_cal_max' \in [Axes -> MagRange]
          BY <2>1, CollectStep
        <4>3. ASSUME NEW a \in Axes
              PROVE  LET s == (CorrectedAxis(a, mag_cal_min[a])
                                 + CorrectedAxis(a, mag_cal_max[a]))'
                         lost == (scale_num[a] + scale_den[a])'
                     IN  -lost < s * scale_den'[a] /\ s * scale_den'[a] < lost
          <5>1. /\ mag_cal_min'[a] <= mag_cal_max'[a]
                /\ bias'[a] = CDiv(mag_cal_min'[a] + mag_cal_max'[a], 2)
                /\ scale_num'[a] \in Nat /\ scale_den'[a] \in Nat \ {0}
                /\ mag_cal_min'[a] \in Int /\ mag_cal_max'[a] \in Int
            BY <4>1, <4>2, FinishStores, AxisRange
          <5> QED
            BY <5>1, EndsAreOpposite DEF CorrectedAxis
        <4> QED
          BY <4>3
      <3>2. CASE Verdict # "COMPLETED"
        BY <2>1, <3>2 DEF Collect
      <3> QED
        BY <3>1, <3>2
    <2>2. ASSUME ResetCalibration PROVE ~Measured'
      <3>1. scale_den'["x"] = 1
        BY <2>2, ConstantAxes DEF ResetCalibration, Axes
      <3> QED
        BY <3>1, RangeFacts DEF Measured, Axes
    <2>3. CASE ahrs_reset_compass_calibration \/ BeginCalibration
      BY <2>2, <2>3 DEF ahrs_reset_compass_calibration, BeginCalibration
    <2>4. CASE CollectNow
      BY <2>1, <2>4 DEF CollectNow
    <2>5. CASE ahrs_init
      BY <2>5 DEF ahrs_init
    <2>6. ASSUME NEW v \in Samples, CollectSample(v)
          PROVE  UNCHANGED calibration \/ Centred
      <3>1. Collect(v)
        BY <2>6 DEF CollectSample
      <3> QED
        BY <2>1, <3>1
    <2>7. ASSUME NEW v \in Samples, SeedFilter(v) \/ BlendSample(v)
          PROVE  UNCHANGED calibration
      BY <2>7 DEF SeedFilter, BlendSample
    <2>8. CASE RefuseSample
      BY <2>8 DEF RefuseSample, vars
    <2> QED
      BY <2>3, <2>4, <2>5, <2>6, <2>7, <2>8 DEF Next, ahrs_update_magnetometer
  <1> QED
    BY <1>1, CompassIsSound, PTL DEF Spec, CentresTheTurn

(***************************************************************************)
(* The published heading.  The polynomial of atan2_rad falls over the      *)
(* whole of its range (CubicFalls), and a division cut off keeps the order *)
(* of two fractions, so within a quadrant the angle grows with the field's *)
(* (BowFalls); at the four seams between quadrants what is missing is one  *)
(* unit, because only one of the two fields that meet there is on the axis.*)
(***************************************************************************)
(* The numerator of the polynomial of atan2_rad.                           *)
Cubic(p, n) == (MATH_ATAN2_A * p * p - MATH_ATAN2_B * n * n) * p

(* The polynomial falls all the way from one end of its range to the other.*)
LEMMA CubicFalls ==
    ASSUME NEW p \in Int, NEW n \in Nat \ {0}, NEW q \in Int, NEW m \in Nat \ {0},
           -n <= p, p <= n, -m <= q, q <= m
    PROVE  /\ p * m <= q * n => Cubic(q, m) * (n * n * n) <= Cubic(p, n) * (m * m * m)
           /\ p * m < q * n => Cubic(q, m) * (n * n * n) < Cubic(p, n) * (m * m * m)
  <1> DEFINE x == p * m
             y == q * n
             N == n * m
             K == MATH_ATAN2_B * (N * N) - MATH_ATAN2_A * (x * x + x * y + y * y)
  <1>1. /\ Cubic(p, n) * (m * m * m) = (1963 * x * x - 9817 * N * N) * x
        /\ Cubic(q, m) * (n * n * n) = (1963 * y * y - 9817 * N * N) * y
    BY DEF Cubic, MATH_ATAN2_A, MATH_ATAN2_B
  <1>2. /\ x \in Int /\ y \in Int /\ N \in Nat \ {0}
        /\ -N <= x /\ x <= N /\ -N <= y /\ y <= N
    OBVIOUS
  <1> HIDE DEF x, y, N
  <1>3. (1963 * x * x - 9817 * N * N) * x - (1963 * y * y - 9817 * N * N) * y = (y - x) * K
    BY <1>2 DEF MATH_ATAN2_A, MATH_ATAN2_B
  <1>4. x * x <= N * N /\ y * y <= N * N /\ x * y <= N * N /\ 1 <= N * N
    <2>1. 0 <= (N - x) * (N + x) /\ 0 <= (N - y) * (N + y)
      BY <1>2
    <2>2. x * x <= N * N /\ y * y <= N * N
      BY <1>2, <2>1
    <2>3. 0 <= (x - y) * (x - y)
      BY <1>2
    <2>4. 2 * (x * y) <= x * x + y * y
      BY <1>2, <2>3
    <2> QED
      BY <1>2, <2>2, <2>4
  <1>5. K \in Int /\ K >= 1
    <2> DEFINE xx == x * x
               xy == x * y
               yy == y * y
               NN == N * N
    <2>1. xx \in Int /\ xy \in Int /\ yy \in Int /\ NN \in Int
      BY <1>2
    <2> HIDE DEF xx, xy, yy, NN
    <2>2. xx <= NN /\ yy <= NN /\ xy <= NN /\ 1 <= NN
      BY <1>4 DEF xx, xy, yy, NN
    <2>3. K = 9817 * NN - 1963 * (xx + xy + yy)
      BY DEF xx, xy, yy, NN, MATH_ATAN2_A, MATH_ATAN2_B
    <2> HIDE DEF K
    <2> QED
      BY <2>1, <2>2, <2>3
  <1> HIDE DEF K
  <1>6. /\ x <= y => 0 <= (y - x) * K
        /\ x < y => 0 < (y - x) * K
    BY <1>2, <1>5
  <1> DEFINE X == (1963 * x * x - 9817 * N * N) * x
             Y == (1963 * y * y - 9817 * N * N) * y
             D == (y - x) * K
  <1>7. X \in Int /\ Y \in Int /\ D \in Int
    BY <1>2, <1>5
  <1> HIDE DEF X, Y, D
  <1>8. X - Y = D /\ (x <= y => 0 <= D) /\ (x < y => 0 < D)
    BY <1>3, <1>6 DEF X, Y, D
  <1>9. (x <= y => Y <= X) /\ (x < y => Y < X)
    BY <1>7, <1>8
  <1> QED
    BY <1>1, <1>9 DEF X, Y, x, y


(* Rounding down, and truncating, keep the order of two fractions.         *)
LEMMA QuotientsKeepOrder ==
    ASSUME NEW a \in Nat, NEW d \in Nat \ {0}, NEW b \in Nat, NEW e \in Nat \ {0},
           a * e <= b * d
    PROVE  a \div d <= b \div e
  <1> DEFINE q == a \div d
  <1>1. q \in Int /\ d * q <= a /\ b \in Int
    OBVIOUS
  <1> HIDE DEF q
  <1>2. q * e <= b
    <2>1. (d * q) * e <= a * e
      BY <1>1
    <2>2. d * (q * e) <= d * b
      BY <1>1, <2>1
    <2> QED
      BY <1>1, <2>2
  <1>3. q <= b /\ b <= b * e
    BY <1>1, <1>2
  <1>4. b \div e \in q .. b
    BY <1>1, <1>2, <1>3, DivBetween
  <1> QED
    BY <1>1, <1>4 DEF q

LEMMA CDivKeepsOrder ==
    ASSUME NEW a \in Int, NEW d \in Nat \ {0}, NEW b \in Int, NEW e \in Nat \ {0},
           a * e <= b * d
    PROVE  CDiv(a, d) <= CDiv(b, e)
  <1>1. CASE 0 <= a
    <2>1. 0 <= a * e
      BY <1>1
    <2>2. a \in Nat /\ b \in Nat
      BY <1>1, <2>1
    <2>3. a \div d <= b \div e
      BY <2>2, QuotientsKeepOrder, Zenon
    <2> QED
      BY <2>2, <2>3 DEF CDiv
  <1>2. CASE a < 0 /\ 0 <= b
    BY <1>2 DEF CDiv
  <1>3. CASE a < 0 /\ b < 0
    <2>1. -a \in Nat /\ -b \in Nat /\ (-b) * d <= (-a) * e
      BY <1>3
    <2>2. (-b) \div e <= (-a) \div d
      BY <2>1, QuotientsKeepOrder, Zenon
    <2> QED
      BY <1>3, <2>2 DEF CDiv
  <1> QED
    BY <1>1, <1>2, <1>3

(* The numbers of AhrsPublic.                                              *)
LEMMA AngleUnits ==
    /\ MATH_PI_4 = 7853 /\ MATH_PI_3_4 = 23559 /\ MATH_PI = 31412
    /\ MATH_DEG_PER_CIRCLE = 36000 /\ MATH_DEG_PER_CIRCLE \div 2 = 18000
    /\ HALF = 18000 /\ QUARTER = 9000 /\ SEAM = 1 /\ NaN = 1000000
  BY DEF MATH_PI_4, MATH_PI_3_4, MATH_PI, MATH_DEG_PER_CIRCLE, HALF, QUARTER, SEAM, NaN

(* Over a whole quadrant the polynomial falls by a quarter of a turn, and  *)
(* the values at its ends are taken at the ends only.                      *)
LEMMA PolynomialFalls ==
    ASSUME NEW p \in Int, NEW n \in Nat \ {0}, NEW q \in Int, NEW m \in Nat \ {0},
           -n <= p, p <= n, -m <= q, q <= m, p * m <= q * n
    PROVE  Polynomial(q, m) <= Polynomial(p, n)
  <1>1. /\ Cubic(p, n) \in Int /\ Cubic(q, m) \in Int
        /\ n * n * n \in Nat \ {0} /\ m * m * m \in Nat \ {0}
    BY DEF Cubic, MATH_ATAN2_A, MATH_ATAN2_B
  <1>2. Cubic(q, m) * (n * n * n) <= Cubic(p, n) * (m * m * m)
    BY CubicFalls, Zenon
  <1>3. CDiv(Cubic(q, m), m * m * m) <= CDiv(Cubic(p, n), n * n * n)
    BY <1>1, <1>2, CDivKeepsOrder, Zenon
  <1> QED
    BY <1>3 DEF Polynomial, Cubic

LEMMA DivAtMost ==
    ASSUME NEW a \in Nat, NEW d \in Nat \ {0}, NEW k \in Nat, a <= k * d
    PROVE  /\ a \div d \in Nat /\ a \div d <= k
           /\ a < k * d => a \div d < k
  <1> DEFINE q == a \div d
  <1>1. q \in Nat /\ q * d <= a
    BY QuotientBounds
  <1> HIDE DEF q
  <1>2. q * d <= k * d
    BY <1>1
  <1>3. q <= k
    <2> SUFFICES ASSUME q >= k + 1 PROVE FALSE
      BY <1>1
    <2>1. q * d >= (k + 1) * d
      BY <1>1
    <2> QED
      BY <1>1, <1>2, <2>1
  <1>4. ASSUME q = k PROVE a >= k * d
    BY <1>1, <1>4
  <1> QED
    BY <1>1, <1>3, <1>4 DEF q

LEMMA PolynomialEnds ==
    ASSUME NEW n \in Nat \ {0}, NEW p \in Int, -n <= p, p <= n
    PROVE  /\ Polynomial(p, n) \in Int
           /\ -7854 <= Polynomial(p, n) /\ Polynomial(p, n) <= 7854
           /\ p < n => -7853 <= Polynomial(p, n)
           /\ -n < p => Polynomial(p, n) <= 7853
  <1> DEFINE c == Cubic(p, n)
             d == n * n * n
  <1>1. c \in Int /\ d \in Nat \ {0}
    BY DEF Cubic, MATH_ATAN2_A, MATH_ATAN2_B
  <1>2. Cubic(1, 1) = -7854 /\ Cubic(-1, 1) = 7854
    BY DEF Cubic, MATH_ATAN2_A, MATH_ATAN2_B
  <1>3. /\ -7854 * d <= c
        /\ p < n => -7854 * d < c
    <2>1. /\ p * 1 <= 1 * n => Cubic(1, 1) * d <= c * (1 * 1 * 1)
          /\ p * 1 < 1 * n => Cubic(1, 1) * d < c * (1 * 1 * 1)
      BY CubicFalls
    <2> QED
      BY <1>1, <1>2, <2>1
  <1>4. /\ c <= 7854 * d
        /\ -n < p => c < 7854 * d
    <2>1. /\ (-1) * n <= p * 1 => c * (1 * 1 * 1) <= Cubic(-1, 1) * d
          /\ (-1) * n < p * 1 => c * (1 * 1 * 1) < Cubic(-1, 1) * d
      BY CubicFalls
    <2> QED
      BY <1>1, <1>2, <2>1
  <1>5. Polynomial(p, n) = CDiv(c, d)
    BY DEF Polynomial, Cubic
  <1> HIDE DEF c, d
  <1>6. CASE 0 <= c
    <2> DEFINE q == c \div d
    <2>1. q \in Nat /\ q <= 7854 /\ (c < 7854 * d => q < 7854)
      BY <1>1, <1>4, <1>6, DivAtMost
    <2>2. CDiv(c, d) = q
      BY <1>1, <1>6 DEF CDiv
    <2> HIDE DEF q
    <2> QED
      BY <1>4, <1>5, <2>1, <2>2
  <1>7. CASE c < 0
    <2> DEFINE e == -c
               q == e \div d
    <2>1. e \in Nat /\ e <= 7854 * d /\ (p < n => e < 7854 * d)
      BY <1>1, <1>3, <1>7
    <2>2. CDiv(c, d) = -q
      BY <1>1, <1>7 DEF CDiv
    <2> HIDE DEF e
    <2>3. q \in Nat /\ q <= 7854 /\ (e < 7854 * d => q < 7854)
      BY <1>1, <2>1, DivAtMost
    <2> HIDE DEF q
    <2> QED
      BY <1>5, <2>1, <2>2, <2>3
  <1> QED
    BY <1>1, <1>6, <1>7

LEMMA PolynomialIsOdd ==
    ASSUME NEW p \in Int, NEW n \in Nat \ {0}
    PROVE  Polynomial(p, n) \in Int /\ Polynomial(-p, n) = -Polynomial(p, n)
  <1> DEFINE c == Cubic(p, n)
             d == n * n * n
  <1>1. c \in Int /\ d \in Nat \ {0} /\ Cubic(-p, n) = -c
    BY DEF Cubic, MATH_ATAN2_A, MATH_ATAN2_B
  <1>2. Polynomial(p, n) = CDiv(c, d) /\ Polynomial(-p, n) = CDiv(-c, d)
    BY <1>1 DEF Polynomial, Cubic
  <1> HIDE DEF c, d
  <1>3. CDiv(c, d) \in Int /\ CDiv(-c, d) = -CDiv(c, d)
    BY <1>1 DEF CDiv
  <1> QED
    BY <1>2, <1>3

(* The polynomial over a quadrant, for a field with the coordinates u, w   *)
(* in it: it falls by a quarter of a turn as the field turns from u to w.  *)
Bow(u, w) == Polynomial(u - w, u + w)

LEMMA BowFacts ==
    ASSUME NEW u \in Nat, NEW w \in Nat, u + w # 0
    PROVE  /\ Bow(u, w) \in Int
           /\ -7854 <= Bow(u, w) /\ Bow(u, w) <= 7854
           /\ w > 0 => -7853 <= Bow(u, w)
           /\ u > 0 => Bow(u, w) <= 7853
           /\ Bow(w, u) = -Bow(u, w)
  <1> DEFINE p == u - w
             n == u + w
  <1>1. /\ n \in Nat \ {0} /\ p \in Int /\ -n <= p /\ p <= n
        /\ w > 0 => p < n
        /\ u > 0 => -n < p
        /\ w - u = -p /\ w + u = n
    OBVIOUS
  <1>2. Bow(u, w) = Polynomial(p, n) /\ Bow(w, u) = Polynomial(-p, n)
    BY <1>1 DEF Bow
  <1> HIDE DEF p, n
  <1>3. /\ Polynomial(p, n) \in Int
        /\ -7854 <= Polynomial(p, n) /\ Polynomial(p, n) <= 7854
        /\ p < n => -7853 <= Polynomial(p, n)
        /\ -n < p => Polynomial(p, n) <= 7853
    BY <1>1, PolynomialEnds
  <1>4. Polynomial(-p, n) = -Polynomial(p, n)
    BY <1>1, PolynomialIsOdd
  <1> QED
    BY <1>1, <1>2, <1>3, <1>4

LEMMA BowFalls ==
    ASSUME NEW u \in Nat, NEW w \in Nat, NEW U \in Nat, NEW W \in Nat,
           u + w # 0, U + W # 0, U * w <= u * W
    PROVE  Bow(u, w) <= Bow(U, W)
  <1> DEFINE p == U - W
             n == U + W
             q == u - w
             m == u + w
  <1>1. /\ n \in Nat \ {0} /\ p \in Int /\ -n <= p /\ p <= n
        /\ m \in Nat \ {0} /\ q \in Int /\ -m <= q /\ q <= m
    OBVIOUS
  <1>2. p * m - q * n = 2 * (U * w) - 2 * (u * W)
    OBVIOUS
  <1>3. p * m <= q * n
    <2> DEFINE pm == p * m
               qn == q * n
               Uw == U * w
               uW == u * W
    <2>1. pm \in Int /\ qn \in Int /\ Uw \in Int /\ uW \in Int
      BY <1>1
    <2>2. Uw <= uW /\ pm - qn = 2 * Uw - 2 * uW
      BY <1>2
    <2> HIDE DEF pm, qn, Uw, uW
    <2>3. pm <= qn
      BY <2>1, <2>2
    <2> QED
      BY <2>3 DEF pm, qn
  <1>4. Bow(u, w) = Polynomial(q, m) /\ Bow(U, W) = Polynomial(p, n)
    BY DEF Bow
  <1> HIDE DEF p, n, q, m
  <1> QED
    BY <1>1, <1>3, <1>4, PolynomialFalls

(* A turn carries the field through the four quadrants.  Turned back into  *)
(* the first one, it has the coordinates Fore and Side, and its angle,     *)
(* unrolled, is that of the quadrant's middle and Arc for the rest.        *)
Quadrant(y, x) == IF y >= 0 THEN IF x >= 0 THEN 0 ELSE 1 ELSE IF x < 0 THEN 2 ELSE 3
Fore(y, x) == CASE Quadrant(y, x) = 0 -> x [] Quadrant(y, x) = 1 -> y
                [] Quadrant(y, x) = 2 -> -x [] OTHER -> -y
Side(y, x) == CASE Quadrant(y, x) = 0 -> y [] Quadrant(y, x) = 1 -> -x
                [] Quadrant(y, x) = 2 -> -y [] OTHER -> x
Arc(y, x) == Bow(Fore(y, x), Side(y, x))
Unrolled(y, x) == (2 * Quadrant(y, x) + 1) * 7853 + Arc(y, x)

LEMMA QuadrantFacts ==
    ASSUME NEW y \in Int, NEW x \in Int, x # 0 \/ y # 0
    PROVE  /\ Quadrant(y, x) \in 0 .. 3
           /\ Fore(y, x) \in Nat /\ Side(y, x) \in Nat
           /\ Fore(y, x) + Side(y, x) # 0
           /\ Quadrant(y, x) \in {1, 2} => Side(y, x) > 0
           /\ Quadrant(y, x) \in {2, 3} => Fore(y, x) > 0
  BY DEF Quadrant, Fore, Side

(* The two branches of atan2_rad and its change of sign agree with that.   *)
LEMMA AtanUnrolls ==
    ASSUME NEW y \in Int, NEW x \in Int, x # 0 \/ y # 0
    PROVE  /\ Arc(y, x) \in Int
           /\ Quadrant(y, x) \in {0, 1} =>
                /\ -1 <= Unrolled(y, x) /\ Unrolled(y, x) <= 31413
                /\ atan2_rad(y, x) = Unrolled(y, x)
           /\ Quadrant(y, x) \in {2, 3} =>
                /\ 31411 <= Unrolled(y, x) /\ Unrolled(y, x) <= 62824
                /\ atan2_rad(y, x) = Unrolled(y, x) - 62824
  <1> DEFINE u == Fore(y, x)
             w == Side(y, x)
             r == Arc(y, x)
             k == Quadrant(y, x)
  <1>1. /\ u \in Nat /\ w \in Nat /\ u + w # 0
        /\ r = Bow(u, w)
        /\ Unrolled(y, x) = (2 * k + 1) * 7853 + r
        /\ k \in {2, 3} => u > 0
    BY QuadrantFacts DEF Arc, Unrolled
  <1>2. /\ r \in Int /\ -7854 <= r /\ r <= 7854
        /\ u > 0 => r <= 7853
        /\ Bow(w, u) = -r
    <2> HIDE DEF u, w, r, k
    <2> QED
      BY <1>1, BowFacts
  <1>3. ~(x = 0 /\ y = 0)
    OBVIOUS
  <1>4. CASE y >= 0 /\ x >= 0
    <2>1. k = 0 /\ u = x /\ w = y
      BY <1>4 DEF Quadrant, Fore, Side
    <2>2. Magnitude(y, x) = 7853 + Bow(x, y)
      BY <1>4, AngleUnits DEF Magnitude, fabs, Bow
    <2>3. atan2_rad(y, x) = 7853 + Bow(x, y)
      BY <1>3, <1>4, <2>2 DEF atan2_rad
    <2> QED
      BY <1>1, <1>2, <2>1, <2>3
  <1>5. CASE y >= 0 /\ x < 0
    <2>1. k = 1 /\ u = y /\ w = -x
      BY <1>5 DEF Quadrant, Fore, Side
    <2>2. y - (-x) = x + y /\ y + (-x) = y - x
      OBVIOUS
    <2>3. Magnitude(y, x) = 23559 + Bow(y, -x)
      BY <1>5, <2>2, AngleUnits DEF Magnitude, fabs, Bow
    <2>4. atan2_rad(y, x) = 23559 + Bow(y, -x)
      BY <1>3, <1>5, <2>3 DEF atan2_rad
    <2> QED
      BY <1>1, <1>2, <2>1, <2>4
  <1>6. CASE y < 0 /\ x < 0
    <2>1. k = 2 /\ u = -x /\ w = -y
      BY <1>6 DEF Quadrant, Fore, Side
    <2>2. (-y) - (-x) = x + (-y) /\ (-y) + (-x) = (-y) - x
      OBVIOUS
    <2>3. Magnitude(y, x) = 23559 + Bow(-y, -x)
      BY <1>6, <2>2, AngleUnits DEF Magnitude, fabs, Bow
    <2>4. atan2_rad(y, x) = -(23559 + Bow(-y, -x))
      BY <1>3, <1>6, <2>3 DEF atan2_rad
    <2> QED
      BY <1>1, <1>2, <2>1, <2>4
  <1>7. CASE y < 0 /\ x >= 0
    <2>1. k = 3 /\ u = -y /\ w = x
      BY <1>7 DEF Quadrant, Fore, Side
    <2>2. Magnitude(y, x) = 7853 + Bow(x, -y)
      BY <1>7, AngleUnits DEF Magnitude, fabs, Bow
    <2>3. atan2_rad(y, x) = -(7853 + Bow(x, -y))
      BY <1>3, <1>7, <2>2 DEF atan2_rad
    <2> QED
      BY <1>1, <1>2, <2>1, <2>3
  <1> QED
    BY <1>4, <1>5, <1>6, <1>7

(* The field from the coordinates in its quadrant.                         *)
LEMMA Coordinates ==
    ASSUME NEW y \in Int, NEW x \in Int
    PROVE  \/ Quadrant(y, x) = 0 /\ x = Fore(y, x) /\ y = Side(y, x)
           \/ Quadrant(y, x) = 1 /\ x = -Side(y, x) /\ y = Fore(y, x)
           \/ Quadrant(y, x) = 2 /\ x = -Fore(y, x) /\ y = -Side(y, x)
           \/ Quadrant(y, x) = 3 /\ x = Side(y, x) /\ y = -Fore(y, x)
  BY DEF Quadrant, Fore, Side

(* The two products of two fields, from the coordinates in their quadrants.*)
LEMMA ProductsTurned ==
    ASSUME NEW y \in Int, NEW x \in Int, NEW Y \in Int, NEW X \in Int,
           NEW u \in Int, NEW w \in Int, NEW U \in Int, NEW W \in Int,
           NEW k \in 0 .. 3, NEW l \in 0 .. 3,
           k = 0 => x = u /\ y = w, k = 1 => x = -w /\ y = u,
           k = 2 => x = -u /\ y = -w, k = 3 => x = w /\ y = -u,
           l = 0 => X = U /\ Y = W, l = 1 => X = -W /\ Y = U,
           l = 2 => X = -U /\ Y = -W, l = 3 => X = W /\ Y = -U
    PROVE  LET dot == x * X + y * Y
               cross == x * Y - y * X
           IN  /\ l = k => dot = u * U + w * W /\ cross = u * W - w * U
               /\ l = (k + 1) % 4 => dot = w * U - u * W /\ cross = u * U + w * W
               /\ l = (k + 2) % 4 => dot = -(u * U + w * W)
               /\ l = (k + 3) % 4 => dot = u * W - w * U /\ cross = -(u * U + w * W)
               /\ l \in {k, (k + 1) % 4, (k + 2) % 4, (k + 3) % 4}
  <1>1. CASE k = 0
    BY <1>1
  <1>2. CASE k = 1
    BY <1>2
  <1>3. CASE k = 2
    BY <1>3
  <1>4. CASE k = 3
    BY <1>4
  <1> QED
    BY <1>1, <1>2, <1>3, <1>4

(* Less than a quarter of a turn, the way atan2_rad counts it: forward, or *)
(* forward across its change of sign.  SEAM radian units may be lost.      *)
Forward(a, b) == \/ -1 <= b - a /\ b - a <= 15707
                 \/ -1 <= b - a + 62824 /\ b - a + 62824 <= 15707

LEMMA FieldAdvances ==
    ASSUME NEW y \in Int, NEW x \in Int, NEW Y \in Int, NEW X \in Int,
           x * X + y * Y > 0, x * Y - y * X >= 0
    PROVE  /\ atan2_rad(y, x) \in Int /\ atan2_rad(Y, X) \in Int
           /\ -31413 <= atan2_rad(y, x) /\ atan2_rad(y, x) <= 31413
           /\ -31413 <= atan2_rad(Y, X) /\ atan2_rad(Y, X) <= 31413
           /\ Forward(atan2_rad(y, x), atan2_rad(Y, X))
  <1> DEFINE u == Fore(y, x)
             w == Side(y, x)
             k == Quadrant(y, x)
             U == Fore(Y, X)
             W == Side(Y, X)
             l == Quadrant(Y, X)
             dot == x * X + y * Y
             cross == x * Y - y * X
  <1>1. (x # 0 \/ y # 0) /\ (X # 0 \/ Y # 0)
    <2>1. ASSUME x = 0, y = 0 PROVE FALSE
      BY <2>1
    <2>2. ASSUME X = 0, Y = 0 PROVE FALSE
      BY <2>2
    <2> QED
      BY <2>1, <2>2
  <1>2. /\ k \in 0 .. 3 /\ u \in Nat /\ w \in Nat /\ u + w # 0
        /\ k \in {1, 2} => w > 0
        /\ k \in {2, 3} => u > 0
    BY <1>1, QuadrantFacts
  <1>3. /\ l \in 0 .. 3 /\ U \in Nat /\ W \in Nat /\ U + W # 0
        /\ l \in {1, 2} => W > 0
        /\ l \in {2, 3} => U > 0
    BY <1>1, QuadrantFacts
  <1>4. /\ l = k => dot = u * U + w * W /\ cross = u * W - w * U
        /\ l = (k + 1) % 4 => dot = w * U - u * W /\ cross = u * U + w * W
        /\ l = (k + 2) % 4 => dot = -(u * U + w * W)
        /\ l = (k + 3) % 4 => dot = u * W - w * U /\ cross = -(u * U + w * W)
        /\ l \in {k, (k + 1) % 4, (k + 2) % 4, (k + 3) % 4}
    <2>1. /\ k = 0 => x = u /\ y = w
          /\ k = 1 => x = -w /\ y = u
          /\ k = 2 => x = -u /\ y = -w
          /\ k = 3 => x = w /\ y = -u
      BY Coordinates
    <2>2. /\ l = 0 => X = U /\ Y = W
          /\ l = 1 => X = -W /\ Y = U
          /\ l = 2 => X = -U /\ Y = -W
          /\ l = 3 => X = W /\ Y = -U
      BY Coordinates
    <2>3. u \in Int /\ w \in Int /\ U \in Int /\ W \in Int
      BY <1>2, <1>3
    <2> HIDE DEF u, w, k, U, W, l
    <2> QED
      BY <1>2, <1>3, <2>1, <2>2, <2>3, ProductsTurned
  <1> DEFINE r == Bow(u, w)
             R == Bow(U, W)
  <1>5. /\ r \in Int /\ -7854 <= r /\ r <= 7854
        /\ w > 0 => -7853 <= r
        /\ u > 0 => r <= 7853
    BY <1>2, BowFacts
  <1>6. /\ R \in Int /\ -7854 <= R /\ R <= 7854
        /\ W > 0 => -7853 <= R
        /\ U > 0 => R <= 7853
    BY <1>3, BowFacts
  <1>7. /\ U * w <= u * W => r <= R
        /\ u * W <= U * w => R <= r
    <2>1. /\ U * w <= u * W => Bow(u, w) <= Bow(U, W)
      BY <1>2, <1>3, BowFalls
    <2>2. /\ u * W <= U * w => Bow(U, W) <= Bow(u, w)
      BY <1>2, <1>3, BowFalls
    <2> QED
      BY <2>1, <2>2
  <1> DEFINE a == atan2_rad(y, x)
             A == atan2_rad(Y, X)
  <1>8. /\ k \in {0, 1} => a = (2 * k + 1) * 7853 + r
        /\ k \in {2, 3} => a = (2 * k + 1) * 7853 + r - 62824
    <2>1. /\ k \in {0, 1} => a = Unrolled(y, x)
          /\ k \in {2, 3} => a = Unrolled(y, x) - 62824
      BY <1>1, AtanUnrolls
    <2>2. Unrolled(y, x) = (2 * k + 1) * 7853 + r
      BY DEF Unrolled, Arc
    <2> HIDE DEF k, a, r
    <2> QED
      BY <1>2, <1>5, <2>1, <2>2
  <1>9. /\ l \in {0, 1} => A = (2 * l + 1) * 7853 + R
        /\ l \in {2, 3} => A = (2 * l + 1) * 7853 + R - 62824
    <2>1. /\ l \in {0, 1} => A = Unrolled(Y, X)
          /\ l \in {2, 3} => A = Unrolled(Y, X) - 62824
      BY <1>1, AtanUnrolls
    <2>2. Unrolled(Y, X) = (2 * l + 1) * 7853 + R
      BY DEF Unrolled, Arc
    <2> HIDE DEF l, A, R
    <2> QED
      BY <1>3, <1>6, <2>1, <2>2
  <1>10. dot > 0 /\ cross >= 0
    OBVIOUS
  <1> HIDE DEF u, w, k, U, W, l, dot, cross, r, R, a, A
  <1>11. a \in Int /\ A \in Int /\ -31413 <= a /\ a <= 31413 /\ -31413 <= A /\ A <= 31413
    BY <1>2, <1>3, <1>5, <1>6, <1>8, <1>9
  <1>12. CASE l = k
    <2>1. r <= R
      BY <1>2, <1>3, <1>4, <1>7, <1>10, <1>12
    <2>2. w > 0 \/ U > 0
      BY <1>2, <1>3, <1>4, <1>10, <1>12
    <2>3. R - r <= 15707
      BY <1>5, <1>6, <2>2
    <2>4. A - a = R - r
      BY <1>2, <1>5, <1>6, <1>8, <1>9, <1>12
    <2>5. Forward(a, A)
      BY <1>5, <1>6, <2>1, <2>3, <2>4 DEF Forward
    <2> QED
      BY <1>11, <2>5 DEF a, A
  <1>13. CASE l = (k + 1) % 4
    <2>1. u * W < w * U
      <3> DEFINE uW == u * W
                 wU == w * U
      <3>1. uW \in Int /\ wU \in Int /\ wU - uW > 0
        BY <1>2, <1>3, <1>4, <1>10, <1>13
      <3> HIDE DEF uW, wU
      <3>2. uW < wU
        BY <3>1
      <3> QED
        BY <3>2 DEF uW, wU
    <2>2. R <= r /\ u * W >= 0
      <3>1. U * w = w * U /\ u * W \in Nat
        BY <1>2, <1>3
      <3> QED
        BY <1>2, <1>3, <1>7, <2>1, <3>1
    <2>3. w > 0 /\ U > 0
      BY <1>2, <1>3, <2>1, <2>2
    <2>4. W > 0 \/ u > 0
      BY <1>2, <1>3, <1>13
    <2>5. -15707 <= R - r /\ R - r <= 0
      BY <1>5, <1>6, <2>2, <2>3, <2>4
    <2>6. A - a = 15706 + (R - r) \/ A - a = 15706 + (R - r) - 62824
      BY <1>2, <1>5, <1>6, <1>8, <1>9, <1>13
    <2>7. Forward(a, A)
      BY <1>11, <1>5, <1>6, <2>5, <2>6 DEF Forward
    <2> QED
      BY <1>11, <2>7 DEF a, A
  <1>14. u * U \in Nat /\ w * W \in Nat /\ u * W \in Nat /\ w * U \in Nat
    BY <1>2, <1>3
  <1>15. l # (k + 2) % 4
    BY <1>4, <1>10, <1>14
  <1>16. CASE l = (k + 3) % 4
    <2>1. u * W > 0 /\ u * U = 0 /\ w * W = 0
      <3> DEFINE uU == u * U
                 wW == w * W
                 uW == u * W
                 wU == w * U
      <3>1. uW - wU > 0 /\ -(uU + wW) >= 0
        BY <1>4, <1>10, <1>16
      <3>2. uU \in Nat /\ wW \in Nat /\ uW \in Nat /\ wU \in Nat
        BY <1>14
      <3> HIDE DEF uU, wW, uW, wU
      <3>3. uW > 0 /\ uU = 0 /\ wW = 0
        BY <3>1, <3>2
      <3> QED
        BY <3>3 DEF uW, uU, wW
    <2>2. U = 0 /\ w = 0
      BY <1>2, <1>3, <2>1
    <2> QED
      BY <1>2, <1>3, <1>16, <2>2
  <1> QED
    BY <1>4, <1>12, <1>13, <1>15, <1>16

(* A quarter of a turn forward, of two published angles.                   *)
Ahead(h, H) == LET turn == ((H - h + HALF) % MATH_DEG_PER_CIRCLE) - HALF
               IN  -SEAM <= turn /\ turn <= QUARTER + SEAM

LEMMA DegreesAdvance ==
    ASSUME NEW a \in Int, NEW b \in Int,
           -31413 <= a, a <= 31413, -31413 <= b, b <= 31413, Forward(a, b)
    PROVE  LET h == normalize_deg_0_360(rad_to_deg(a))
               H == normalize_deg_0_360(rad_to_deg(b))
           IN  h \in Int /\ H \in Int /\ Ahead(h, H)
  <1> DEFINE d == (a * 18000) \div 31412
             e == (b * 18000) \div 31412
             h == normalize_deg_0_360(rad_to_deg(a))
             H == normalize_deg_0_360(rad_to_deg(b))
  <1>1. d = rad_to_deg(a) /\ e = rad_to_deg(b)
    BY AngleUnits DEF rad_to_deg
  <1>2. /\ d \in Int /\ e \in Int
        /\ -1 <= b - a /\ b - a <= 15707 => -1 <= e - d /\ e - d <= 9001
        /\ -1 <= b - a + 62824 /\ b - a + 62824 <= 15707
             => -1 <= e - d + 36000 /\ e - d + 36000 <= 9001
    OBVIOUS
  <1>3. \/ -1 <= e - d /\ e - d <= 9001
        \/ -1 <= e - d + 36000 /\ e - d + 36000 <= 9001
    BY <1>2 DEF Forward
  <1> HIDE DEF d, e
  <1>4. /\ h \in Int /\ (h = d \/ h = d + 36000 \/ h = d - 36000)
        /\ H \in Int /\ (H = e \/ H = e + 36000 \/ H = e - 36000)
    BY <1>1, <1>2, AngleUnits DEF normalize_deg_0_360
  <1> HIDE DEF h, H
  <1>5. LET turn == ((H - h + 18000) % 36000) - 18000
        IN  -1 <= turn /\ turn <= 9001
    <2> DEFINE t == H - h
    <2>1. /\ t \in Int
          /\ \E i \in -3 .. 3 : -1 <= t + 36000 * i /\ t + 36000 * i <= 9001
      BY <1>2, <1>3, <1>4
    <2> HIDE DEF t
    <2>2. PICK i \in -3 .. 3 : -1 <= t + 36000 * i /\ t + 36000 * i <= 9001
      BY <2>1
    <2>3. (t + 18000) % 36000 = t + 36000 * i + 18000
      BY <2>1, <2>2
    <2> QED
      BY <2>1, <2>2, <2>3 DEF t
  <1>6. Ahead(h, H)
    BY <1>5, AngleUnits DEF Ahead
  <1> QED
    BY <1>4, <1>6 DEF h, H

(* The heading turns with the field, one way and hence the other.          *)
FieldHeading(f) == normalize_deg_0_360(Degrees(f["y"], f["x"]))

LEMMA HeadingAdvances ==
    ASSUME NEW y \in Int, NEW x \in Int, NEW Y \in Int, NEW X \in Int,
           x * X + y * Y > 0, x * Y - y * X >= 0
    PROVE  LET h == normalize_deg_0_360(Degrees(y, x))
               H == normalize_deg_0_360(Degrees(Y, X))
           IN  h \in Int /\ H \in Int /\ Ahead(h, H)
  <1> DEFINE a == atan2_rad(y, x)
             b == atan2_rad(Y, X)
  <1>1. /\ a \in Int /\ b \in Int
        /\ -31413 <= a /\ a <= 31413 /\ -31413 <= b /\ b <= 31413
        /\ Forward(a, b)
    BY FieldAdvances
  <1>2. a # NaN /\ b # NaN
    BY <1>1, AngleUnits
  <1>3. Degrees(y, x) = rad_to_deg(a) /\ Degrees(Y, X) = rad_to_deg(b)
    BY <1>2 DEF Degrees
  <1> HIDE DEF a, b
  <1> QED
    BY <1>1, <1>3, DegreesAdvance

LEMMA TurnIsOdd ==
    ASSUME NEW h \in Int, NEW H \in Int, Ahead(H, h)
    PROVE  LET turn == ((H - h + HALF) % MATH_DEG_PER_CIRCLE) - HALF
           IN  turn \in Int /\ -QUARTER - SEAM <= turn /\ turn <= SEAM
  <1> DEFINE t == h - H
  <1>1. t \in Int /\ H - h = -t
    OBVIOUS
  <1>2. -1 <= ((t + 18000) % 36000) - 18000 /\ ((t + 18000) % 36000) - 18000 <= 9001
    BY AngleUnits DEF Ahead
  <1> HIDE DEF t
  <1>3. /\ -9001 <= ((-t + 18000) % 36000) - 18000
        /\ ((-t + 18000) % 36000) - 18000 <= 1
        /\ (-t + 18000) % 36000 \in Int
    BY <1>1, <1>2
  <1> QED
    BY <1>1, <1>3, AngleUnits

(***************************************************************************)
(* The published heading follows the averaged field: one that turns by     *)
(* less than a quarter turns the heading the same way, by less than a      *)
(* quarter, across both branches of atan2_rad, its change of sign and      *)
(* north, but for the hundredth of a degree the units cut off.             *)
(***************************************************************************)
THEOREM HeadingFollowsField == Spec => HeadingTurnsWithField
  <1> DEFINE A == mag_state = "ACTIVE" /\ mag_state' = "ACTIVE" /\ Dot > 0 =>
                    /\ Cross >= 0 => Turn \in -SEAM .. QUARTER + SEAM
                    /\ Cross <= 0 => Turn \in -QUARTER - SEAM .. SEAM
  <1>1. TypeOK /\ TypeOK' => A
    <2> SUFFICES ASSUME TypeOK, TypeOK', mag_state = "ACTIVE", mag_state' = "ACTIVE", Dot > 0
                 PROVE  /\ Cross >= 0 => Turn \in -SEAM .. QUARTER + SEAM
                        /\ Cross <= 0 => Turn \in -QUARTER - SEAM .. SEAM
      OBVIOUS
    <2> DEFINE f == smoothed
               g == smoothed'
               h == FieldHeading(f)
               H == FieldHeading(g)
    <2>1. f \in [Axes -> Int] /\ g \in [Axes -> Int]
      BY RangeFacts DEF TypeOK
    <2>2. Heading = h /\ Heading' = H
      BY DEF Heading, FieldHeading
    <2>3. /\ f["x"] * g["x"] + f["y"] * g["y"] > 0
          /\ Cross = f["x"] * g["y"] - f["y"] * g["x"]
      BY DEF Dot, Cross
    <2>4. /\ f["x"] \in Int /\ f["y"] \in Int /\ g["x"] \in Int /\ g["y"] \in Int
          /\ SEAM \in Int /\ QUARTER \in Int
      BY <2>1, AngleUnits DEF Axes
    <2>5. Turn = ((H - h + HALF) % MATH_DEG_PER_CIRCLE) - HALF
      BY <2>2 DEF Turn
    <2> HIDE DEF f, g, h, H
    <2>6. ASSUME Cross >= 0 PROVE Turn \in -SEAM .. QUARTER + SEAM
      <3>1. h \in Int /\ H \in Int /\ Ahead(h, H)
        BY <2>3, <2>4, <2>6, HeadingAdvances DEF h, H, FieldHeading
      <3>2. Turn \in Int
        BY <2>5, <3>1, AngleUnits
      <3>3. -SEAM <= Turn /\ Turn <= QUARTER + SEAM
        BY <2>5, <3>1 DEF Ahead
      <3> QED
        BY <2>4, <3>2, <3>3
    <2>7. ASSUME Cross <= 0 PROVE Turn \in -QUARTER - SEAM .. SEAM
      <3>1. /\ g["x"] * f["x"] + g["y"] * f["y"] > 0
            /\ g["x"] * f["y"] - g["y"] * f["x"] >= 0
        BY <2>3, <2>4, <2>7
      <3>2. h \in Int /\ H \in Int /\ Ahead(H, h)
        BY <2>4, <3>1, HeadingAdvances DEF h, H, FieldHeading
      <3>3. Turn \in Int /\ -QUARTER - SEAM <= Turn /\ Turn <= SEAM
        BY <2>5, <3>2, TurnIsOdd
      <3> QED
        BY <2>4, <3>3
    <2> QED
      BY <2>6, <2>7
  <1> QED
    BY <1>1, CompassTypeCorrect, PTL DEF HeadingTurnsWithField

(***************************************************************************)
(* The public struct.  Its members follow one another without a gap, each  *)
(* byte belongs to one of them, and the decoder reads where they are.      *)
(***************************************************************************)
Place(i) == IF i <= 2 THEN 4 * (i - 1) ELSE 8 * (i - 2)

LEMMA OffsetIsPlace == Offset = [i \in Members |-> Place(i)]
  <1> DEFINE F(f) == [i \in Members |->
                        IF i = 1 THEN 0
                        ELSE LET free == f[i - 1] + Size(i - 1)
                             IN  Size(i) * ((free + Size(i) - 1) \div Size(i))]
             P == [i \in Members |-> Place(i)]
  <1>1. ASSUME NEW f, NEW i \in Members, i > 1 => f[i - 1] = Place(i - 1)
        PROVE  F(f)[i] = Place(i)
    <2>1. CASE i = 1
      BY <2>1 DEF Place
    <2>2. CASE i > 1
      <3>1. Place(i - 1) + Size(i - 1) = IF i <= 2 THEN 4 ELSE 8 * (i - 2)
        BY <2>2 DEF Members, Place, Size
      <3> QED
        BY <1>1, <2>2, <3>1 DEF Members, Place, Size
    <2> QED
      BY <2>1, <2>2 DEF Members
  <1>2. P = F(P)
    <2>1. \A i \in Members : i > 1 => i - 1 \in Members
      BY DEF Members
    <2>2. \A i \in Members : F(P)[i] = Place(i)
      BY <1>1, <2>1
    <2> QED
      BY <2>2
  <1>3. Offset = F(Offset)
    <2>1. Offset = CHOOSE f : f = F(f)
      BY DEF Offset
    <2> HIDE DEF F
    <2> QED
      BY <1>2, <2>1
  <1>4. Offset[1] = Place(1)
    BY <1>1, <1>3 DEF Members
  <1>5. ASSUME NEW i \in 1 .. 8, Offset[i] = Place(i) PROVE Offset[i + 1] = Place(i + 1)
    <2> DEFINE j == i + 1
    <2>1. j \in Members /\ Offset[j - 1] = Place(j - 1) /\ j - 1 \in 1 .. 8
      <3>1. j \in Members /\ j - 1 = i
        BY DEF Members
      <3> QED
        BY <1>5, <3>1
    <2> HIDE DEF j, F
    <2>2. F(Offset)[j] = Place(j)
      BY <1>1, <2>1
    <2>3. Offset[j] = F(Offset)[j]
      BY <1>3, Zenon
    <2> QED
      BY <2>2, <2>3 DEF j
  <1>6. \A i \in Members : Offset[i] = Place(i)
    BY <1>4, <1>5 DEF Members
  <1>7. DOMAIN F(Offset) = Members /\ F(Offset) = [i \in Members |-> F(Offset)[i]]
    OBVIOUS
  <1> HIDE DEF F
  <1> QED
    BY <1>3, <1>6, <1>7

LEMMA PlaceFacts ==
    /\ \A i \in Members : Offset[i] = Place(i) /\ Place(i) \in Nat /\ Size(i) \in {4, 8}
    /\ Offset[9] + Size(9) - 1 = 63
    /\ \A i \in Members : Place(i) + Size(i) - 1 \in 0 .. 63
    /\ \A i, j \in Members, b \in Int :
         /\ Place(i) <= b /\ b <= Place(i) + Size(i) - 1
         /\ Place(j) <= b /\ b <= Place(j) + Size(j) - 1
         => i = j
  <1>1. \A i \in Members : Offset[i] = Place(i)
    BY OffsetIsPlace
  <1>2. \A i \in Members : Place(i) \in Nat /\ Size(i) \in {4, 8}
    BY DEF Members, Place, Size
  <1>3. \A i \in Members : Place(i) + Size(i) - 1 \in 0 .. 63
    BY DEF Members, Place, Size
  <1>4. 9 \in Members /\ Place(9) + Size(9) - 1 = 63
    BY DEF Members, Place, Size
  <1>5. Offset[9] + Size(9) - 1 = 63
    BY <1>1, <1>4
  <1>6. ASSUME NEW i \in Members, NEW j \in Members, NEW b \in Int,
               Place(i) <= b, b <= Place(i) + Size(i) - 1,
               Place(j) <= b, b <= Place(j) + Size(j) - 1
        PROVE  i = j
    BY <1>6 DEF Members, Place, Size
  <1> QED
    BY <1>1, <1>2, <1>3, <1>5, <1>6

LEMMA LayoutOfMember ==
    ASSUME NEW i \in Members, NEW k \in Nat, k < Size(i)
    PROVE  Place(i) + k \in DOMAIN Layout /\ Layout[Place(i) + k] = <<i, k>>
  <1> DEFINE b == Place(i) + k
             In(j) == b \in Offset[j] .. Offset[j] + Size(j) - 1
  <1>1. /\ b \in 0 .. 63 /\ Place(i) <= b /\ b <= Place(i) + Size(i) - 1
        /\ b - Place(i) = k
    BY PlaceFacts
  <1> HIDE DEF b
  <1>2. \A j \in Members : In(j) <=> Place(j) <= b /\ b <= Place(j) + Size(j) - 1
    BY <1>1, PlaceFacts
  <1>3. In(i) /\ (\A j \in Members : In(j) => j = i)
    BY <1>1, <1>2, PlaceFacts
  <1>4. (CHOOSE j \in Members : In(j)) = i
    <2> HIDE DEF In
    <2> QED
      BY <1>3
  <1>5. b - Offset[i] = k
    BY <1>1, PlaceFacts
  <1>6. b \in DOMAIN Layout /\ Layout[b] = <<i, b - Offset[i]>>
    BY <1>1, <1>3, <1>4, PlaceFacts DEF Layout
  <1> QED
    BY <1>5, <1>6 DEF b

(* The decoder's offsets are those of the struct.                          *)
LEMMA DecoderReads ==
    ASSUME NEW data, NEW i \in Members
    PROVE  DecodeAHRSPublicV1(Blob(data))[i] = data[i]
  <1> DEFINE page == Blob(data)
  <1>1. \A k \in 0 .. Size(i) - 1 : page[Place(i) + k] = <<data[i], k>>
    <2> TAKE k \in 0 .. Size(i) - 1
    <2>1. k \in Nat /\ k < Size(i)
      BY PlaceFacts
    <2>2. Place(i) + k \in DOMAIN Layout /\ Layout[Place(i) + k] = <<i, k>>
      BY <2>1, LayoutOfMember
    <2> QED
      BY <2>2 DEF Blob
  <1> HIDE DEF page
  <1>2. page[Place(i)] = <<data[i], 0>>
    <2>1. 0 \in 0 .. Size(i) - 1 /\ Place(i) + 0 = Place(i)
      BY PlaceFacts
    <2> QED
      BY <1>1, <2>1
  <1>3. LittleEndian(page, Place(i), Size(i)) = data[i]
    BY <1>1, <1>2 DEF LittleEndian
  <1>4. DecodeAHRSPublicV1(page)[i] = LittleEndian(page, Place(i), Size(i))
    <2>1. CASE i = 1
      BY <2>1 DEF DecodeAHRSPublicV1, Members, Place, Size
    <2>2. CASE i = 2
      BY <2>2 DEF DecodeAHRSPublicV1, Members, Place, Size
    <2>3. CASE i \in 3 .. 9
      <3>1. DoubleOffsets[i - 2] = Place(i) /\ Size(i) = 8 /\ i # 1 /\ i # 2
        BY <2>3 DEF DoubleOffsets, Place, Size
      <3> QED
        BY <3>1 DEF DecodeAHRSPublicV1
    <2> QED
      BY <2>1, <2>2, <2>3 DEF Members
  <1> QED
    BY <1>3, <1>4 DEF page

LEMMA LabelOfState ==
    ASSUME NEW s \in {Enumerators[i] : i \in 1 .. 5}
    PROVE  stateLabel[StateNumber(s) + 1] = s
  <1> DEFINE c == CHOOSE i \in 1 .. 5 : Enumerators[i] = s
  <1>1. c \in 1 .. 5 /\ Enumerators[c] = s
    <2>1. \E i \in 1 .. 5 : Enumerators[i] = s
      OBVIOUS
    <2> QED
      BY <2>1, Zenon
  <1>2. StateNumber(s) + 1 = c
    BY <1>1 DEF StateNumber
  <1>3. stateLabel = Enumerators
    BY DEF stateLabel, Enumerators
  <1> QED
    BY <1>1, <1>2, <1>3

(***************************************************************************)
(* The page the server decodes is the data the AHRS published, member by   *)
(* member, with the names of its two states (ahrs_public_v1.go).           *)
(***************************************************************************)
THEOREM PageShowsTheData == Spec => []DecodedIsPublished
  <1>1. TypeOK => DecodedIsPublished
    <2> SUFFICES ASSUME TypeOK, NEW imu \in ImuReadings
                 PROVE  LET page == DecodeAHRSPublicV1(Blob(ahrs_get_data(imu)))
                        IN  /\ page = ahrs_get_data(imu)
                            /\ stateLabel[page[1] + 1] = imu.state
                            /\ stateLabel[page[2] + 1] = mag_state
      BY DEF DecodedIsPublished
    <2> DEFINE data == ahrs_get_data(imu)
               page == DecodeAHRSPublicV1(Blob(data))
    <2>1. data = [i \in Members |-> data[i]]
      BY DEF ahrs_get_data, Members
    <2>2. page = [i \in Members |-> page[i]]
      BY DEF DecodeAHRSPublicV1
    <2>3. data[1] = StateNumber(imu.state) /\ data[2] = StateNumber(mag_state)
      BY DEF ahrs_get_data
    <2>4. imu.state \in {Enumerators[i] : i \in 1 .. 5}
      BY ReadingAssumption
    <2>5. mag_state \in {Enumerators[i] : i \in 1 .. 5}
      BY DEF TypeOK, MagStates, Enumerators
    <2> HIDE DEF data
    <2>6. \A i \in Members : page[i] = data[i]
      BY DecoderReads
    <2> HIDE DEF page
    <2>7. page = data
      BY <2>1, <2>2, <2>6
    <2>8. /\ stateLabel[page[1] + 1] = imu.state
          /\ stateLabel[page[2] + 1] = mag_state
      BY <2>3, <2>4, <2>5, <2>7, LabelOfState
    <2> QED
      BY <2>7, <2>8 DEF page, data
  <1> QED
    BY <1>1, CompassTypeCorrect, PTL
=============================================================================
