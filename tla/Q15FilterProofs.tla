-------------------------- MODULE Q15FilterProofs --------------------------
(***************************************************************************)
(* Facts about the fixed-point arithmetic of utils.c, for every sample     *)
(* width and every fixed-point unit, on which the proofs about both halves *)
(* of the AHRS rest.                                                       *)
(***************************************************************************)
EXTENDS Q15Filter, TLAPS

(* A quotient rounded down stays between the integers its dividend is      *)
(* between multiples of.                                                   *)
LEMMA DivBetween ==
    ASSUME NEW n \in Int, NEW k \in Nat \ {0}, NEW lo \in Int, NEW hi \in Int,
           lo * k <= n, n <= hi * k
    PROVE  n \div k \in lo .. hi
  <1> DEFINE q == n \div k
             r == n % k
  <1>1. /\ q \in Int /\ r \in 0 .. k - 1 /\ n = k * q + r
    OBVIOUS
  <1> HIDE DEF q, r
  <1>2. lo <= q
    <2>1. SUFFICES ASSUME q + 1 <= lo PROVE FALSE
      BY <1>1
    <2>2. k * (q + 1) <= k * lo
      BY <2>1, <1>1
    <2> QED
      BY <2>2, <1>1
  <1>3. q <= hi
    <2>1. SUFFICES ASSUME hi + 1 <= q PROVE FALSE
      BY <1>1
    <2>2. k * (hi + 1) <= k * q
      BY <2>1, <1>1
    <2> QED
      BY <2>2, <1>1
  <1> QED
    BY <1>2, <1>3, <1>1 DEF q

LEMMA ClampIsI16 ==
    ASSUME NEW v \in Int
    PROVE  clamp_i16(v) \in I16 /\ (v \in I16 => clamp_i16(v) = v)
  BY WidthAssumption DEF clamp_i16, clamp_i32, I16

LEMMA AlphaRange ==
    ASSUME NEW v \in Int
    PROVE  float_to_q15(v) \in 1 .. Q15_ONE - 1
  <1>1. (v + 1) \div 2 \in Int
    OBVIOUS
  <1> QED
    BY <1>1, WidthAssumption DEF float_to_q15, clamp_i32

(* The moving average moves toward its input, no further than to it, and   *)
(* an average that has arrived stays.                                      *)
LEMMA EmaBetween ==
    ASSUME NEW cur \in I16, NEW raw \in I16, NEW a \in 1 .. Q15_ONE - 1
    PROVE  /\ ema_blend_i16_q15(cur, raw, a) \in I16
           /\ Between(ema_blend_i16_q15(cur, raw, a), cur, raw)
           /\ raw = cur => ema_blend_i16_q15(cur, raw, a) = cur
  <1> DEFINE num == raw * a + cur * (Q15_ONE - a)
             q == num \div Q15_ONE
  <1>0. /\ cur \in Int /\ raw \in Int /\ a \in Int /\ Q15_ONE \in Nat \ {0}
        /\ num \in Int /\ 1 <= a /\ a <= Q15_ONE
    BY WidthAssumption DEF I16
  <1>1. num = cur * Q15_ONE + (raw - cur) * a
    BY <1>0
  <1>2. CASE cur <= raw
    <2>1. 0 <= (raw - cur) * a /\ (raw - cur) * a <= (raw - cur) * Q15_ONE
      BY <1>0, <1>2
    <2>2. cur * Q15_ONE <= num /\ num <= raw * Q15_ONE
      BY <2>1, <1>0, <1>1
    <2>3. q \in cur .. raw
      BY <2>2, <1>0, DivBetween
    <2>4. q \in I16
      BY <2>3, <1>0, WidthAssumption DEF I16
    <2>5. ema_blend_i16_q15(cur, raw, a) = q
      BY <2>4, <1>0, ClampIsI16 DEF ema_blend_i16_q15, I16
    <2> QED
      BY <2>3, <2>4, <2>5, <1>0 DEF Between
  <1>3. CASE raw <= cur
    <2>1. (raw - cur) * a <= 0 /\ (raw - cur) * Q15_ONE <= (raw - cur) * a
      BY <1>0, <1>3
    <2>2. raw * Q15_ONE <= num /\ num <= cur * Q15_ONE
      BY <2>1, <1>0, <1>1
    <2>3. q \in raw .. cur
      BY <2>2, <1>0, DivBetween
    <2>4. q \in I16
      BY <2>3, <1>0, WidthAssumption DEF I16
    <2>5. ema_blend_i16_q15(cur, raw, a) = q
      BY <2>4, <1>0, ClampIsI16 DEF ema_blend_i16_q15, I16
    <2> QED
      BY <2>3, <2>4, <2>5, <1>0 DEF Between
  <1> QED
    BY <1>0, <1>2, <1>3

(* The average stands still exactly when the step it should take is none,  *)
(* or is upward and less than one unit.                                    *)
LEMMA EmaStalls ==
    ASSUME NEW cur \in I16, NEW raw \in I16, NEW a \in 1 .. Q15_ONE - 1
    PROVE  ema_blend_i16_q15(cur, raw, a) = cur <=> raw - cur \in 0 .. DeadBand(a)
  <1> DEFINE t == raw - cur
             num == raw * a + cur * (Q15_ONE - a)
             q == num \div Q15_ONE
             p == (Q15_ONE - 1) \div a
  <1>1. /\ cur \in Int /\ raw \in Int /\ t \in Int /\ a \in Nat \ {0}
        /\ Q15_ONE \in Nat \ {0} /\ num \in Int
    BY WidthAssumption DEF I16
  <1>2. num = cur * Q15_ONE + t * a
    BY <1>1
  <1>3. q \in Int /\ q * Q15_ONE <= num /\ num < q * Q15_ONE + Q15_ONE
    BY <1>1
  <1>4. p \in Nat /\ p * a <= Q15_ONE - 1 /\ Q15_ONE - 1 < p * a + a
    BY <1>1
  <1>5. ema_blend_i16_q15(cur, raw, a) = clamp_i16(q)
    BY DEF ema_blend_i16_q15
  <1>6. raw \in -I16_MAX - 1 .. I16_MAX /\ cur \in -I16_MAX - 1 .. I16_MAX /\ I16_MAX \in Nat
    BY WidthAssumption DEF I16
  <1> HIDE DEF t, num, q, p
  <1>7. q = cur <=> 0 <= t * a /\ t * a < Q15_ONE
    <2>1. q = cur => 0 <= t * a /\ t * a < Q15_ONE
      BY <1>1, <1>2, <1>3
    <2>2. ASSUME 0 <= t * a, t * a < Q15_ONE
          PROVE  q = cur
      <3>1. cur * Q15_ONE <= num /\ num < (cur + 1) * Q15_ONE
        BY <1>1, <1>2, <2>2
      <3>2. q < cur + 1
        BY <1>1, <1>3, <3>1
      <3>3. cur < q + 1
        BY <1>1, <1>3, <3>1
      <3> QED
        BY <1>1, <1>3, <3>2, <3>3
    <2> QED
      BY <2>1, <2>2
  <1>8. 0 <= t * a /\ t * a < Q15_ONE <=> 0 <= t /\ t <= p
    <2>1. 0 <= t * a <=> 0 <= t
      BY <1>1
    <2>2. ASSUME t <= p PROVE t * a < Q15_ONE
      <3>1. t * a <= p * a
        BY <1>1, <1>4, <2>2
      <3> QED
        BY <1>1, <1>4, <3>1
    <2>3. ASSUME p + 1 <= t PROVE t * a >= Q15_ONE
      <3>1. (p + 1) * a <= t * a
        BY <1>1, <1>4, <2>3
      <3> QED
        BY <1>1, <1>4, <3>1
    <2> QED
      BY <1>1, <1>4, <2>1, <2>2, <2>3
  <1>9. q = cur <=> raw - cur \in 0 .. DeadBand(a)
    BY <1>1, <1>4, <1>7, <1>8 DEF t, p, DeadBand
  <1>10. clamp_i16(q) = cur <=> q = cur
    <2> DEFINE hi == I16_MAX
               lo == -I16_MAX - 1
               b == Q15_ONE - a
    <2>0. hi \in Int /\ lo \in Int /\ b \in Nat /\ a + b = Q15_ONE
      BY <1>1, <1>6
    <2>1. num = raw * a + cur * b
      BY DEF num
    <2>2. lo <= raw /\ raw <= hi /\ lo <= cur /\ cur <= hi
      BY <1>6
    <2>3. lo * a + lo * b = lo * Q15_ONE /\ hi * a + hi * b = hi * Q15_ONE
      BY <1>1, <2>0
    <2>4. q \in I16
      <3> HIDE DEF hi, lo, b
      <3>1. lo * a <= raw * a /\ raw * a <= hi * a
        BY <1>1, <2>0, <2>2
      <3>2. lo * b <= cur * b /\ cur * b <= hi * b
        BY <1>1, <2>0, <2>2
      <3>3. lo * Q15_ONE <= num /\ num <= hi * Q15_ONE
        BY <1>1, <2>0, <2>1, <2>3, <3>1, <3>2
      <3>4. q \in lo .. hi
        BY <1>1, <2>0, <3>3, DivBetween DEF q
      <3> QED
        BY <3>4 DEF lo, hi, I16
    <2> QED
      BY <1>3, <2>4, ClampIsI16
  <1> QED
    BY <1>5, <1>9, <1>10
============================================================================
