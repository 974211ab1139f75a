----------------------------- MODULE Q15Filter -----------------------------
(***************************************************************************)
(* The fixed-point arithmetic the AHRS filters are built from              *)
(* (controller/src/utils.c): clamping, the Q15 smoothing factor and the    *)
(* exponential moving average.  The width of a sample and the fixed-point  *)
(* unit are parameters: the code has I16_MAX = 32767, Q15_ONE = 32768.     *)
(***************************************************************************)
EXTENDS Integers

CONSTANTS
    I16_MAX,    \* INT16_MAX; INT16_MIN is -I16_MAX - 1
    Q15_ONE     \* MATH_Q15_ONE, the fixed-point 1.0

ASSUME WidthAssumption == I16_MAX \in Nat /\ I16_MAX >= 1 /\ Q15_ONE \in Nat /\ Q15_ONE >= 2

I16 == (-I16_MAX - 1) .. I16_MAX

clamp_i32(v, lo, hi) == IF v > hi THEN hi ELSE IF v < lo THEN lo ELSE v

\* Faulty variant of clamp_i16: no clamping.
keep_i16(v) == v

clamp_i16(v) == clamp_i32(v, -I16_MAX - 1, I16_MAX)

(***************************************************************************)
(* A float v is represented by 2 * Q15_ONE * v, so that adding a half and  *)
(* truncating is exact.                                                    *)
(***************************************************************************)
float_to_q15(v) == clamp_i32((v + 1) \div 2, 1, Q15_ONE - 1)

\* Faulty variant of ema_blend_i16_q15: the weights add up to Q15_ONE - 1.
ema_blend_light(cur, raw, aq) ==
    clamp_i16((raw * aq + cur * (Q15_ONE - 1 - aq)) \div Q15_ONE)

\* Faulty variant of ema_blend_i16_q15: a division, which truncates toward zero.
ema_blend_truncated(cur, raw, aq) ==
    LET acc == raw * aq + cur * (Q15_ONE - aq)
    IN  clamp_i16(IF acc < 0 THEN -((-acc) \div Q15_ONE) ELSE acc \div Q15_ONE)

(***************************************************************************)
(* The right shift of a negative accumulator rounds down, as \div does.    *)
(***************************************************************************)
ema_blend_i16_q15(cur, raw, aq) ==
    clamp_i16((raw * aq + cur * (Q15_ONE - aq)) \div Q15_ONE)

(***************************************************************************)
(* A moving average that rounds down stops short of a larger input when    *)
(* the step it should take is less than one unit.                          *)
(***************************************************************************)
DeadBand(aq) == (Q15_ONE - 1) \div aq

Between(x, a, b) == (a <= x /\ x <= b) \/ (b <= x /\ x <= a)
============================================================================
