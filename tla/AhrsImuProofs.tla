--------------------------- MODULE AhrsImuProofs ---------------------------
(***************************************************************************)
(* Theorems about the IMU filter and its calibration, for every sample     *)
(* width, fixed-point unit, set of channels, readings and factors.         *)
(***************************************************************************)
EXTENDS AhrsImu, Q15FilterProofs

----------------------------------------------------------------------------
(* Every state is well typed. *)

LEMMA CorrectedIsI16 ==
    ASSUME TypeOK, NEW c \in Channels
    PROVE  Corrected(c) \in I16
  <1>1. reading \in [Channels -> I16]
    BY ImuAssumption DEF TypeOK
  <1>2. CASE c \in Accel
    <2>1. reading[c] - bias[c] \in Int
      BY <1>1, <1>2, WidthAssumption DEF TypeOK, I16
    <2> QED
      BY <1>2, <2>1, ClampIsI16 DEF Corrected
  <1>3. CASE c \notin Accel
    BY <1>1, <1>3 DEF Corrected
  <1> QED
    BY <1>2, <1>3

LEMMA BlendedIsTyped ==
    ASSUME TypeOK
    PROVE  /\ Blended \in [Channels -> I16]
           /\ \A c \in Channels : Between(Blended[c], smoothed[c], Corrected(c))
           /\ \A c \in Channels : Corrected(c) = smoothed[c] => Blended[c] = smoothed[c]
  <1>1. aq \in 1 .. Q15_ONE - 1
    BY AlphaRange, ImuAssumption DEF TypeOK, aq
  <1>2. \A c \in Channels : smoothed[c] \in I16 /\ Corrected(c) \in I16
    BY CorrectedIsI16 DEF TypeOK
  <1>3. \A c \in Channels : Blended[c] = ema_blend_i16_q15(smoothed[c], Corrected(c), aq)
    BY DEF Blended
  <1>4. \A c \in Channels : Blended[c] \in I16
    BY <1>1, <1>2, <1>3, EmaBetween
  <1>5. \A c \in Channels : Between(Blended[c], smoothed[c], Corrected(c))
    BY <1>1, <1>2, <1>3, EmaBetween
  <1>6. \A c \in Channels : Corrected(c) = smoothed[c] => Blended[c] = smoothed[c]
    BY <1>1, <1>2, <1>3, EmaBetween
  <1> QED
    BY <1>4, <1>5, <1>6 DEF Blended

LEMMA ZeroIsTyped == Zero \in [Accel -> I16] /\ [c \in Channels |-> 0] \in [Channels -> I16]
  BY WidthAssumption DEF Zero, I16

LEMMA BiasIsTyped ==
    ASSUME NEW value \in [Channels -> I16]
    PROVE  BiasFrom(value) \in [Accel -> I16]
  BY DEF BiasFrom, Channels

LEMMA RequestIsBounded == TypeOK /\ Request => requests' \in 0 .. MAX_REQUESTS
  BY ImuAssumption DEF TypeOK, Request

LEMMA TypeStep == TypeOK /\ [Next]_vars => TypeOK'
  <1> SUFFICES ASSUME TypeOK, [Next]_vars PROVE TypeOK'
    OBVIOUS
  <1> USE ImuAssumption
  <1>1. CASE Move
    <2>1. requests' \in 0 .. MAX_REQUESTS
      BY <1>1, RequestIsBounded DEF Move
    <2>2. still' \in BOOLEAN /\ reading' \in Readings
      BY <1>1, Zenon DEF Move
    <2> QED
      BY <1>1, <2>1, <2>2, Zenon DEF TypeOK, Move
  <1>2. CASE Configure
    BY <1>2 DEF TypeOK, Configure, Request, history
  <1>3. CASE ahrs_init
    <2>1. requests' \in 0 .. MAX_REQUESTS
      BY <1>3, RequestIsBounded DEF ahrs_init
    <2>2. still' \in BOOLEAN /\ imu_state' \in ImuStates
      BY <1>3, Zenon DEF ahrs_init, ImuStates
    <2> QED
      BY <1>3, <2>1, <2>2, ZeroIsTyped, Zenon DEF TypeOK, ahrs_init
  <1>4. CASE SeedFilter
    BY <1>4 DEF TypeOK, SeedFilter, ImuStates
  <1>5. CASE BlendSample
    BY <1>5, BlendedIsTyped DEF TypeOK, BlendSample, history
  <1>6. CASE CaptureSample
    <2>1. Blended \in [Channels -> I16] /\ BiasFrom(Blended) \in [Accel -> I16]
      BY BlendedIsTyped, BiasIsTyped
    <2> QED
      BY <1>6, <2>1 DEF TypeOK, CaptureSample, Capture, ImuStates
  <1>7. CASE BeginCalibration
    BY <1>7 DEF TypeOK, BeginCalibration, Request, ImuStates, history
  <1>8. CASE CaptureNow
    <2>1. BiasFrom(smoothed) \in [Accel -> I16]
      BY BiasIsTyped DEF TypeOK
    <2> QED
      BY <1>8, <2>1 DEF TypeOK, CaptureNow, Capture, Request
  <1>9. CASE ahrs_reset_imu_calibration
    BY <1>9, ZeroIsTyped DEF TypeOK, ahrs_reset_imu_calibration, Request
  <1>10. CASE UNCHANGED vars
    BY <1>10 DEF TypeOK, vars
  <1> QED
    BY <1>1, <1>2, <1>3, <1>4, <1>5, <1>6, <1>7, <1>8, <1>9, <1>10
    DEF Next, ahrs_update_imu

LEMMA TypeInit == Init => TypeOK
  <1> SUFFICES ASSUME Init PROVE TypeOK
    OBVIOUS
  <1>1. requests \in 0 .. MAX_REQUESTS /\ captures \in 0 .. 2
    BY ImuAssumption DEF Init
  <1>2. still \in BOOLEAN /\ imu_state \in ImuStates /\ ema_alpha \in Alphas
    BY Zenon DEF Init, ImuStates
  <1> QED
    BY <1>1, <1>2, ZeroIsTyped, Zenon DEF Init, TypeOK

(* The filter state, the bias and every sample stay within their C types:  *)
(* no conversion in ahrs_update_imu or ahrs_calibrate_imu loses a bit.     *)
THEOREM TypeCorrect == Spec => []TypeOK
  BY TypeInit, TypeStep, PTL DEF Spec

(* A blended sample never leaves the interval between the old average and  *)
(* the corrected input.                                                    *)
THEOREM FilterNeverOvershoots == Spec => NoOvershoot
  <1>1. TypeOK /\ [Next]_vars =>
          [ahrs_update_imu /\ imu_state # "INITIALIZING" =>
             \A c \in Channels : Between(smoothed'[c], smoothed[c], Corrected(c))]_vars
    BY BlendedIsTyped DEF ahrs_update_imu, SeedFilter, BlendSample, CaptureSample
  <1> QED
    BY <1>1, TypeCorrect, PTL DEF Spec, NoOvershoot

(* The average stalls in the dead band below its input and nowhere else:   *)
(* the right shift of ema_blend_i16_q15 loses less than one unit, downward.*)
THEOREM FilterStallsInDeadBand == Spec => []StallsInDeadBand
  <1>1. TypeOK => StallsInDeadBand
    <2> SUFFICES ASSUME TypeOK, NEW c \in Channels
                 PROVE  Blended[c] = smoothed[c] <=> Corrected(c) - smoothed[c] \in 0 .. DeadBand(aq)
      BY DEF StallsInDeadBand
    <2>1. aq \in 1 .. Q15_ONE - 1
      BY AlphaRange, ImuAssumption DEF TypeOK, aq
    <2>2. smoothed[c] \in I16 /\ Corrected(c) \in I16
      BY CorrectedIsI16 DEF TypeOK
    <2>3. Blended[c] = ema_blend_i16_q15(smoothed[c], Corrected(c), aq)
      BY DEF Blended
    <2> QED
      BY <2>1, <2>2, <2>3, EmaStalls
  <1> QED
    BY <1>1, TypeCorrect, PTL

----------------------------------------------------------------------------
(* Why a first calibration is exact: until a capture the bias is zero, so  *)
(* a filter is at its fixed point from its seed until the sensor moves, and*)
(* holds the reading when it is copied.                                    *)
Resting ==
    /\ still => imu_state # "INITIALIZING"
    /\ captures = 0 => bias = Zero
    /\ still /\ captures = 0 => smoothed = reading

CaptureInv == Resting /\ FirstCaptureIsExact

LEMMA CorrectedByNothing ==
    ASSUME TypeOK, bias = Zero, NEW c \in Channels
    PROVE  Corrected(c) = reading[c]
  <1>1. reading[c] \in I16
    BY ImuAssumption DEF TypeOK
  <1>2. CASE c \in Accel
    <2>1. reading[c] - bias[c] = reading[c]
      BY <1>1, <1>2, WidthAssumption DEF Zero, I16
    <2> QED
      BY <1>1, <1>2, <2>1, ClampIsI16, WidthAssumption DEF Corrected, I16
  <1>3. CASE c \notin Accel
    BY <1>3 DEF Corrected
  <1> QED
    BY <1>2, <1>3

LEMMA RestingIsFixed ==
    ASSUME TypeOK, bias = Zero, smoothed = reading
    PROVE  Blended = reading
  <1>1. \A c \in Channels : Corrected(c) = smoothed[c]
    BY CorrectedByNothing
  <1>2. \A c \in Channels : Blended[c] = reading[c]
    BY <1>1, BlendedIsTyped
  <1>3. Blended \in [Channels -> I16] /\ reading \in [Channels -> I16]
    BY BlendedIsTyped, ImuAssumption DEF TypeOK
  <1> QED
    BY <1>2, <1>3

LEMMA CaptureStep == TypeOK /\ CaptureInv /\ [Next]_vars => CaptureInv'
  <1> SUFFICES ASSUME TypeOK, CaptureInv, [Next]_vars PROVE CaptureInv'
    OBVIOUS
  <1> USE DEF CaptureInv, Resting, FirstCaptureIsExact
  <1>0. captures \in 0 .. 2
    BY DEF TypeOK
  <1>1. CASE Move
    BY <1>1 DEF Move
  <1>2. CASE Configure
    BY <1>2 DEF Configure, history, BiasFrom
  <1>3. CASE ahrs_init
    BY <1>3 DEF ahrs_init
  <1>4. CASE SeedFilter
    <2>1. still' <=> captures = 0
      BY <1>4, Zenon DEF SeedFilter
    <2>2. imu_state' # "INITIALIZING" /\ captures' = captures /\ bias' = bias
          /\ smoothed' = reading /\ reading' = reading
      BY <1>4 DEF SeedFilter
    <2> QED
      BY <2>1, <2>2, <1>0
  <1>5. CASE BlendSample
    BY <1>5, <1>0, RestingIsFixed DEF BlendSample, history, BiasFrom
  <1>6. CASE CaptureSample
    BY <1>6, <1>0, RestingIsFixed DEF CaptureSample, Capture, BiasFrom
  <1>7. CASE BeginCalibration
    BY <1>7 DEF BeginCalibration, history, BiasFrom
  <1>8. CASE CaptureNow
    BY <1>8, <1>0 DEF CaptureNow, Capture, BiasFrom
  <1>9. CASE ahrs_reset_imu_calibration
    BY <1>9 DEF ahrs_reset_imu_calibration
  <1>10. CASE UNCHANGED vars
    BY <1>10 DEF vars, BiasFrom
  <1> QED
    BY <1>1, <1>2, <1>3, <1>4, <1>5, <1>6, <1>7, <1>8, <1>9, <1>10
    DEF Next, ahrs_update_imu

(* The first bias captured from a sensor that has not moved since the      *)
(* filter was seeded under a zero bias is its reading, however many samples*)
(* were blended before and whoever asked for the capture.                  *)
THEOREM FirstCalibrationExact == Spec => []FirstCaptureIsExact
  <1>1. Init => CaptureInv
    BY DEF Init, CaptureInv, Resting, FirstCaptureIsExact
  <1>2. CaptureInv => FirstCaptureIsExact
    BY DEF CaptureInv
  <1> QED
    BY <1>1, <1>2, CaptureStep, TypeCorrect, PTL DEF Spec
============================================================================
