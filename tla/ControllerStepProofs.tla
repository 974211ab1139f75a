------------------------ MODULE ControllerStepProofs ------------------------
(***************************************************************************)
(* Proofs about the slot scheduler, for every number of slots, slot length,*)
(* jitter, clock unit, set of handlers, durations and latencies.           *)
(*                                                                         *)
(* The arithmetic comes first: what C's truncating division and the pair   *)
(* of seconds and nanoseconds do to a deadline and to a measured jitter.   *)
(* The invariants then need that arithmetic only through Ns and Lag.       *)
(***************************************************************************)
EXTENDS ControllerStep, TLAPS

(* Euclidean division, as TLA+ defines it.                                 *)
LEMMA DivFacts ==
  ASSUME NEW x \in Int, NEW n \in Nat \ {0}
  PROVE  /\ x \div n \in Int
         /\ x % n \in 0 .. n - 1
         /\ x = (n * (x \div n)) + (x % n)
OBVIOUS

(* Truncation toward zero is off by less than one divisor, either way.     *)
LEMMA CDivBound ==
  ASSUME NEW x \in Int, NEW n \in Nat \ {0}
  PROVE  /\ CDiv(x, n) \in Int
         /\ x - n * CDiv(x, n) < n
         /\ n * CDiv(x, n) - x < n
<1>1. CASE x < 0
  <2> DEFINE y == -x
  <2>1. y \in Int /\ x = -y
    OBVIOUS
  <2>2. CDiv(x, n) = -(y \div n)
    BY <1>1 DEF CDiv
  <2> HIDE DEF y
  <2>3. /\ y \div n \in Int
        /\ y % n \in 0 .. n - 1
        /\ y = (n * (y \div n)) + (y % n)
    BY <2>1, DivFacts
  <2> DEFINE q == y \div n
  <2>4. q \in Int /\ y - n * q \in 0 .. n - 1 /\ n * (-q) = -(n * q)
    BY <2>1, <2>3
  <2> HIDE DEF q
  <2>5. CDiv(x, n) = -q
    BY <2>2 DEF q
  <2>6. QED BY <2>1, <2>4, <2>5
<1>2. CASE x >= 0
  BY <1>2, DivFacts DEF CDiv
<1>3. QED BY <1>1, <1>2

(* A slot is shorter than a second, so one carry is enough.                *)
LEMMA SlotFitsSecond ==
  /\ NS_PER_SEC \in Nat \ {0}
  /\ SLOT_NS \in 1 .. NS_PER_SEC - 1
BY GridAssumption DEF NS_PER_SEC, SLOT_NS

(* Splitting a clock reading into seconds and nanoseconds loses nothing.   *)
LEMMA TimespecFacts ==
  ASSUME NEW t \in Nat
  PROVE  /\ Timespec(t) \in Timespecs
         /\ Ns(Timespec(t)) = t
<1>1. /\ t \div NS_PER_SEC \in Int
      /\ t % NS_PER_SEC \in 0 .. NS_PER_SEC - 1
      /\ t = (NS_PER_SEC * (t \div NS_PER_SEC)) + (t % NS_PER_SEC)
  BY SlotFitsSecond, DivFacts
<1>2. QED BY <1>1, SlotFitsSecond DEF Timespec, Timespecs, Ns

(* Advancing a normalised deadline adds exactly one slot and leaves it     *)
(* normalised: the single carry of controller_step is enough.              *)
LEMMA AdvanceFacts ==
  ASSUME NEW ts \in Timespecs
  PROVE  /\ Advance(ts) \in Timespecs
         /\ Normalised(ts) =>
              /\ Normalised(Advance(ts))
              /\ Ns(Advance(ts)) = Ns(ts) + SLOT_NS
<1> DEFINE nsec == ts.tv_nsec + SLOT_NS
<1>1. nsec \in Int /\ ts.tv_sec \in Int /\ ts.tv_nsec \in Int
  BY SlotFitsSecond DEF Timespecs
<1>2. nsec % NS_PER_SEC \in 0 .. NS_PER_SEC - 1
  BY <1>1, SlotFitsSecond, DivFacts
<1>3. Advance(ts) \in Timespecs
  BY <1>1, <1>2, SlotFitsSecond DEF Advance, Timespecs
<1>4. ASSUME Normalised(ts)
      PROVE  Normalised(Advance(ts)) /\ Ns(Advance(ts)) = Ns(ts) + SLOT_NS
  <2>1. CASE nsec < NS_PER_SEC
    BY <1>1, <1>4, <2>1, SlotFitsSecond DEF Advance, Normalised, Ns
  <2>2. CASE nsec >= NS_PER_SEC
    <3>1. nsec - NS_PER_SEC \in 0 .. NS_PER_SEC - 1
      BY <1>1, <1>4, <2>2, SlotFitsSecond DEF Normalised
    <3>2. nsec % NS_PER_SEC = nsec - NS_PER_SEC
      BY <1>1, <2>2, <3>1, SlotFitsSecond
    <3>3. (ts.tv_sec + 1) * NS_PER_SEC = ts.tv_sec * NS_PER_SEC + NS_PER_SEC
      BY <1>1, SlotFitsSecond
    <3>4. Advance(ts) = [tv_sec |-> ts.tv_sec + 1, tv_nsec |-> nsec - NS_PER_SEC]
      BY <2>2, <3>2 DEF Advance
    <3>5. QED BY <1>1, <1>4, <3>1, <3>3, <3>4, SlotFitsSecond DEF Normalised, Ns
  <2>3. QED BY <1>1, <2>1, <2>2, SlotFitsSecond
<1>5. QED BY <1>3, <1>4

(* The measured jitter is off by less than a microsecond, either way,      *)
(* wherever the second boundary falls between clock and deadline.          *)
LEMMA JitterBounds ==
  ASSUME now \in Nat, NEW ts \in Timespecs
  PROVE  /\ GetAbsTimeDiffUs(ts) \in Nat
         /\ NS_PER_US * GetAbsTimeDiffUs(ts) - AbsInt(now - Ns(ts)) < NS_PER_US
         /\ AbsInt(now - Ns(ts)) - NS_PER_US * GetAbsTimeDiffUs(ts) < NS_PER_US
<1> DEFINE c == Timespec(now)
           n == NS_PER_US
           ds == c.tv_sec - ts.tv_sec
           dn == c.tv_nsec - ts.tv_nsec
           q == CDiv(dn, n)
           us == ds * US_PER_SEC + q
<1>1. /\ n \in Nat \ {0} /\ US_PER_SEC \in Nat
      /\ ds \in Int /\ dn \in Int
      /\ c \in Timespecs /\ Ns(c) = now
      /\ ts.tv_sec \in Int /\ ts.tv_nsec \in Int /\ c.tv_sec \in Int /\ c.tv_nsec \in Int
  BY GridAssumption, TimespecFacts DEF Timespecs
<1>2. q \in Int /\ dn - n * q < n /\ n * q - dn < n
  BY <1>1, CDivBound
<1>3. GetAbsTimeDiffUs(ts) = AbsInt(us)
  BY DEF GetAbsTimeDiffUs
<1>4. now - Ns(ts) = ds * NS_PER_SEC + dn
  <2>1. ds * NS_PER_SEC = c.tv_sec * NS_PER_SEC - ts.tv_sec * NS_PER_SEC
    BY <1>1, SlotFitsSecond
  <2>2. QED BY <1>1, <2>1, SlotFitsSecond DEF Ns
<1>5. n * us = ds * NS_PER_SEC + n * q
  <2>1. ds * NS_PER_SEC = n * (ds * US_PER_SEC)
    BY <1>1 DEF NS_PER_SEC
  <2>2. QED BY <1>1, <1>2, <2>1
<1> HIDE DEF c, n, ds, dn, q
<1>6. us \in Int
  BY <1>1, <1>2
<1> HIDE DEF us
<1>7. ds * NS_PER_SEC \in Int /\ n * q \in Int /\ n * us \in Int
  BY <1>1, <1>2, <1>6, SlotFitsSecond
<1>8. n * us - (now - Ns(ts)) < n /\ (now - Ns(ts)) - n * us < n
  BY <1>1, <1>2, <1>4, <1>5, <1>7
<1>9. n * AbsInt(us) = AbsInt(n * us)
  BY <1>1, <1>6 DEF AbsInt
<1>10. now - Ns(ts) \in Int
  BY <1>1, <1>4, <1>7
<1>11. QED
  BY <1>1, <1>3, <1>6, <1>7, <1>8, <1>9, <1>10 DEF AbsInt, n

-----------------------------------------------------------------------------
(* Type correctness.                                                       *)

LEMMA StartFacts ==
  /\ LatencyNs \subseteq Nat
  /\ \A s \in Slots : HandlerNs[s] \subseteq Nat
  /\ SLOT_COUNT \in Nat \ {0}
  /\ MaxInterrupts \in Nat
BY GridAssumption, HandlerAssumption, LatencyAssumption, StartAssumption

LEMMA NsInt ==
  ASSUME NEW ts \in Timespecs
  PROVE  Ns(ts) \in Int
BY SlotFitsSecond DEF Ns, Timespecs

LEMMA InitType == Init => TypeOK
<1> SUFFICES ASSUME Init
             PROVE  TypeOK
  OBVIOUS
<1>1. now \in Nat /\ next \in Timespecs /\ epoch \in Nat
  BY StartAssumption DEF Init
<1>2. slot \in Slots /\ interrupts \in 0 .. MaxInterrupts
  BY StartFacts DEF Init, Slots
<1>3. anchor \in [now : Nat, next : Timespecs, epoch : Nat, begun : Int]
  BY <1>1 DEF Init
<1>4. QED BY <1>1, <1>2, <1>3 DEF Init, TypeOK

(* A wake-up falls at or after both the present and the deadline.          *)
LEMMA WakeFacts ==
  ASSUME TypeOK, NEW t \in WakeNs
  PROVE  \E l \in LatencyNs : t = Later(now, Ns(next)) + l /\ t \in Nat
<1>1. now \in Nat /\ Ns(next) \in Int
  BY NsInt DEF TypeOK
<1>2. QED BY <1>1, StartFacts DEF WakeNs, Later

(* The tail of a slot: it takes the anchor anew while the anchor is no     *)
(* time, and leaves it alone for good once it is one.                      *)
LEMMA SlotDoneFacts ==
  ASSUME TypeOK, SlotDone, now' \in Nat
  PROVE  /\ next' = Advance(next) /\ next' \in Timespecs
         /\ anchor' \in [now : Nat, next : Timespecs, epoch : Nat, begun : Int]
         /\ anchor'.epoch = anchor.epoch
         /\ Normalised(anchor.next) => anchor' = anchor
         /\ ~Normalised(anchor.next) =>
              anchor'.now = now' /\ anchor'.next = next' /\ anchor'.begun = SlotsBegun + 1
<1>1. next' = Advance(next) /\ next' \in Timespecs
  BY AdvanceFacts DEF TypeOK, SlotDone
<1>2. SlotsBegun + 1 \in Int
  <2>1. /\ epoch \in Int /\ anchor.epoch \in Int /\ SLOT_COUNT \in Int
        /\ cut \in Int /\ slot \in Int
    BY StartFacts DEF TypeOK, Slots
  <2>2. (epoch - anchor.epoch) * SLOT_COUNT \in Int
    BY <2>1
  <2>3. QED BY <2>1, <2>2 DEF SlotsBegun
<1>3. anchor \in [now : Nat, next : Timespecs, epoch : Nat, begun : Int]
  BY DEF TypeOK
<1>4. CASE Normalised(anchor.next)
  <2>1. anchor' = anchor
    BY <1>4 DEF SlotDone
  <2>2. QED BY <1>1, <1>3, <1>4, <2>1
<1>5. CASE ~Normalised(anchor.next)
  <2>1. anchor' = [anchor EXCEPT !.now = now', !.next = next', !.begun = SlotsBegun + 1]
    BY <1>5 DEF SlotDone
  <2>2. QED BY <1>1, <1>2, <1>3, <1>5, <2>1
<1>6. QED BY <1>4, <1>5

LEMMA StepType == TypeOK /\ [Next]_vars => TypeOK'
<1> SUFFICES ASSUME TypeOK, [Next]_vars
             PROVE  TypeOK'
  OBVIOUS
<1> USE DEF TypeOK
<1>1. ASSUME pc = "slot", SlotDone, now' \in Nat
      PROVE  /\ next' \in Timespecs /\ epoch' \in Nat /\ slot' \in Slots
             /\ pc' \in {"init", "main", "slot", "sleep"} /\ initialised' \in BOOLEAN
             /\ interrupts' \in 0 .. MaxInterrupts /\ cut' \in Nat
             /\ anchor' \in [now : Nat, next : Timespecs, epoch : Nat, begun : Int]
  <2>1. UNCHANGED <<epoch, slot, initialised, interrupts, cut>> /\ pc' = "sleep"
    BY <1>1 DEF SlotDone
  <2>2. QED BY <1>1, <2>1, SlotDoneFacts
<1>2. CASE ControllerInit
  BY <1>2 DEF ControllerInit
<1>3. CASE StepBegin
  BY <1>3, StartFacts DEF StepBegin, Slots, history
<1>4. CASE RunHandler
  <2>1. now' \in Nat /\ lateRun' \in Nat
    BY <1>4, StartFacts DEF RunHandler
  <2>2. QED BY <1>1, <1>4, <2>1 DEF RunHandler
<1>5. CASE IdleSlot
  BY <1>1, <1>5 DEF IdleSlot
<1>6. CASE SkipSlot
  BY <1>1, <1>6 DEF SkipSlot
<1>7. CASE WakeInEpoch
  <2>1. now' \in Nat
    BY <1>7, WakeFacts DEF WakeInEpoch
  <2>2. slot' \in Slots
    BY <1>7, StartFacts DEF WakeInEpoch, Slots, LastSlot
  <2>3. QED BY <1>7, <2>1, <2>2 DEF WakeInEpoch, history
<1>8. CASE WakeAtEpochEnd
  <2>1. now' \in Nat
    BY <1>8, WakeFacts DEF WakeAtEpochEnd
  <2>2. QED BY <1>8, <2>1 DEF WakeAtEpochEnd, history
<1>9. CASE SleepInterrupted
  <2>1. now' \in Nat
    BY <1>9, NsInt DEF SleepInterrupted
  <2>2. cut' \in Nat
    BY <1>9, StartFacts DEF SleepInterrupted, SleepFails, LastSlot, Slots
  <2>3. interrupts' \in 0 .. MaxInterrupts
    BY <1>9, StartFacts DEF SleepInterrupted
  <2>4. QED BY <1>9, <2>1, <2>2, <2>3 DEF SleepInterrupted, SleepFails
<1>10. CASE SleepRefused
  <2>1. cut' \in Nat
    BY <1>10, StartFacts DEF SleepRefused, SleepFails, LastSlot, Slots
  <2>2. QED BY <1>10, <2>1 DEF SleepRefused, SleepFails
<1>11. CASE Horizon
  BY <1>11 DEF Horizon, vars
<1>12. CASE UNCHANGED vars
  BY <1>12 DEF vars
<1>13. QED
  BY <1>2, <1>3, <1>4, <1>5, <1>6, <1>7, <1>8, <1>9, <1>10, <1>11, <1>12 DEF Next

(* The fields of the controller and the histories keep their types for     *)
(* every stack content, duration and latency; in particular the index into *)
(* g_slot_handlers stays in bounds.                                        *)
THEOREM TypeCorrect == Spec => []TypeOK
<1>1. QED BY InitType, StepType, PTL DEF Spec

-----------------------------------------------------------------------------
(* The grid.                                                               *)

(* What OnGrid needs to be inductive: until controller_init returns, the   *)
(* loop has not moved from its anchor; and as long as the deadline is no   *)
(* time, it is the anchor, and every epoch breaks off at its first slot.   *)
GridInv ==
  /\ TypeOK
  /\ OnGrid
  /\ ~Normalised(anchor.next) => next = anchor.next /\ slot = 0
  /\ pc = "init" => epoch = anchor.epoch /\ cut = 0 /\ anchor.begun = 0

LEMMA InitGrid == Init => GridInv
<1> SUFFICES ASSUME Init
             PROVE  GridInv
  OBVIOUS
<1>1. TypeOK
  BY InitType
<1>2. SlotsBegun = 0 /\ anchor.begun = 0
  BY <1>1, StartFacts DEF Init, SlotsBegun, TypeOK
<1>3. OnGrid
  BY <1>1, <1>2, NsInt, SlotFitsSecond DEF Init, OnGrid, GridNs, TypeOK
<1>4. QED BY <1>1, <1>2, <1>3 DEF Init, GridInv

(* Every slot adds one to SlotsBegun, and nothing else changes it: waking, *)
(* breaking off and entering the next epoch are different ways to write    *)
(* the same number.                                                        *)
LEMMA BegunFacts ==
  ASSUME TypeOK
  PROVE  /\ SlotsBegun \in Int
         /\ pc = "slot" /\ SlotDone /\ now' \in Nat => SlotsBegun' = SlotsBegun + 1
         /\ StepBegin \/ WakeInEpoch \/ WakeAtEpochEnd => SlotsBegun' = SlotsBegun
         /\ pc = "sleep" /\ SleepFails => SlotsBegun' = SlotsBegun
         /\ pc = "init" /\ epoch = anchor.epoch /\ cut = 0 => SlotsBegun = 0
<1> DEFINE E == (epoch - anchor.epoch) * SLOT_COUNT
<1>1. /\ epoch \in Nat /\ anchor.epoch \in Nat /\ slot \in Nat /\ cut \in Nat
      /\ SLOT_COUNT \in Nat \ {0} /\ slot <= LastSlot
  BY StartFacts DEF TypeOK, Slots, LastSlot
<1>2. E \in Int
  BY <1>1
<1>3. (epoch + 1 - anchor.epoch) * SLOT_COUNT = E + SLOT_COUNT
  BY <1>1
<1>4. SlotsBegun \in Int
  BY <1>1, <1>2 DEF SlotsBegun
<1>5. pc = "slot" /\ SlotDone /\ now' \in Nat => SlotsBegun' = SlotsBegun + 1
  <2> SUFFICES ASSUME pc = "slot", SlotDone, now' \in Nat
               PROVE  SlotsBegun' = SlotsBegun + 1
    OBVIOUS
  <2>1. anchor'.epoch = anchor.epoch
    BY SlotDoneFacts
  <2>2. UNCHANGED <<epoch, slot, cut>> /\ pc' = "sleep"
    BY DEF SlotDone
  <2>3. QED BY <1>1, <1>2, <2>1, <2>2 DEF SlotsBegun
<1>6. StepBegin => SlotsBegun' = SlotsBegun
  BY <1>1, <1>2, <1>3 DEF StepBegin, SlotsBegun, history
<1>7. WakeInEpoch => SlotsBegun' = SlotsBegun
  BY <1>1, <1>2 DEF WakeInEpoch, SlotsBegun, history
<1>8. WakeAtEpochEnd => SlotsBegun' = SlotsBegun
  BY <1>1, <1>2 DEF WakeAtEpochEnd, SlotsBegun, history, LastSlot
<1>9. pc = "sleep" /\ SleepFails => SlotsBegun' = SlotsBegun
  BY <1>1, <1>2 DEF SleepFails, SlotsBegun, LastSlot
<1>10. pc = "init" /\ epoch = anchor.epoch /\ cut = 0 => SlotsBegun = 0
  BY <1>1 DEF SlotsBegun
<1>11. QED
  BY <1>4, <1>5, <1>6, <1>7, <1>8, <1>9, <1>10

LEMMA StepGrid == GridInv /\ [Next]_vars => GridInv'
<1> SUFFICES ASSUME GridInv, [Next]_vars
             PROVE  GridInv'
  OBVIOUS
<1>1. TypeOK /\ TypeOK'
  BY StepType DEF GridInv
<1>2. /\ SlotsBegun \in Int /\ SLOT_NS \in Int
      /\ next \in Timespecs /\ anchor.next \in Timespecs
      /\ Ns(next) \in Int /\ Ns(anchor.next) \in Int
  BY <1>1, BegunFacts, SlotFitsSecond, NsInt DEF TypeOK
<1>3. ASSUME pc = "slot", SlotDone
      PROVE  GridInv'
  <2>1. SlotsBegun' = SlotsBegun + 1 /\ SlotsBegun' \in Int
    BY <1>1, <1>2, <1>3, BegunFacts DEF TypeOK
  <2>2. /\ next' = Advance(next) /\ pc' = "sleep" /\ slot' = slot
    BY <1>3 DEF SlotDone
  <2>3. CASE Normalised(anchor.next)
    <3>1. anchor' = anchor
      BY <1>1, <1>3, <2>3, SlotDoneFacts DEF TypeOK
    <3>2. Normalised(next) /\ Ns(next) = Ns(anchor.next) + (SlotsBegun - anchor.begun) * SLOT_NS
      BY <2>3 DEF GridInv, OnGrid, GridNs
    <3>3. Normalised(next') /\ Ns(next') = Ns(next) + SLOT_NS
      BY <1>2, <2>2, <3>2, AdvanceFacts
    <3>4. anchor.begun \in Int
      BY <1>1 DEF TypeOK
    <3>5. (SlotsBegun' - anchor.begun) * SLOT_NS = (SlotsBegun - anchor.begun) * SLOT_NS + SLOT_NS
      <4> DEFINE n == SlotsBegun - anchor.begun
      <4>1. n \in Int /\ SlotsBegun' - anchor.begun = n + 1
        BY <1>2, <2>1, <3>4
      <4> HIDE DEF n
      <4>2. (n + 1) * SLOT_NS = n * SLOT_NS + SLOT_NS
        BY <1>2, <4>1
      <4>3. QED BY <4>1, <4>2 DEF n
    <3>6. Ns(next') = GridNs'
      <4>1. GridNs' = Ns(anchor.next) + (SlotsBegun' - anchor.begun) * SLOT_NS
        BY <3>1 DEF GridNs
      <4>2. (SlotsBegun - anchor.begun) * SLOT_NS \in Int
        BY <1>2, <3>4
      <4>3. QED BY <1>2, <3>2, <3>3, <3>5, <4>1, <4>2
    <3>7. QED BY <1>1, <2>2, <2>3, <3>1, <3>3, <3>6 DEF GridInv, OnGrid
  <2>4. CASE ~Normalised(anchor.next)
    <3>1. anchor'.next = next' /\ anchor'.begun = SlotsBegun'
      BY <1>1, <1>3, <2>1, <2>4, SlotDoneFacts DEF TypeOK
    <3>2. Ns(next') \in Int
      BY <1>1, NsInt DEF TypeOK
    <3>3. (SlotsBegun' - SlotsBegun') * SLOT_NS = 0
      BY <1>2, <2>1
    <3>4. GridNs' = Ns(next') + (SlotsBegun' - SlotsBegun') * SLOT_NS
      BY <3>1 DEF GridNs
    <3>5. Ns(next') = GridNs'
      BY <3>2, <3>3, <3>4
    <3>6. OnGrid' /\ (~Normalised(anchor.next) => next = anchor.next /\ slot = 0)'
      BY <2>2, <2>4, <3>1, <3>5 DEF GridInv, OnGrid
    <3>7. QED BY <1>1, <2>2, <3>6 DEF GridInv
  <2>5. QED BY <2>3, <2>4
<1>4. ASSUME SlotsBegun' = SlotsBegun, next' = next, pc' # "init",
             anchor'.next = anchor.next, anchor'.begun = anchor.begun,
             ~Normalised(anchor.next) => slot' = 0
      PROVE  GridInv'
  <2>1. GridNs' = GridNs
    BY <1>4 DEF GridNs
  <2>2. OnGrid'
    BY <1>4, <2>1 DEF GridInv, OnGrid
  <2>3. QED BY <1>1, <1>4, <2>2 DEF GridInv
<1>5. CASE ControllerInit
  <2>1. /\ anchor'.next = anchor.next /\ anchor'.epoch = epoch'
        /\ anchor'.begun = anchor.begun
    BY <1>1, <1>5 DEF ControllerInit, TypeOK
  <2>2. SlotsBegun = 0
    BY <1>1, <1>5, BegunFacts DEF ControllerInit, GridInv
  <2>3. SlotsBegun' = 0
    BY <1>1, <1>5, <2>1, StartFacts DEF ControllerInit, GridInv, SlotsBegun, TypeOK
  <2>4. QED BY <1>4, <1>5, <2>1, <2>2, <2>3 DEF ControllerInit, GridInv
<1>6. CASE StepBegin
  BY <1>1, <1>4, <1>6, BegunFacts DEF StepBegin, history
<1>7. CASE RunHandler
  BY <1>3, <1>7 DEF RunHandler
<1>8. CASE IdleSlot
  BY <1>3, <1>8 DEF IdleSlot
<1>9. CASE SkipSlot
  BY <1>3, <1>9 DEF SkipSlot
<1>10. CASE WakeInEpoch
  BY <1>1, <1>4, <1>10, BegunFacts DEF WakeInEpoch, history, GridInv
<1>11. CASE WakeAtEpochEnd
  BY <1>1, <1>4, <1>11, BegunFacts DEF WakeAtEpochEnd, history, GridInv
<1>12. CASE pc = "sleep" /\ SleepFails
  BY <1>1, <1>4, <1>12, BegunFacts DEF SleepFails, GridInv
<1>13. CASE UNCHANGED vars
  BY <1>13 DEF vars, GridInv, TypeOK, OnGrid, GridNs, SlotsBegun
<1>14. QED
  BY <1>5, <1>6, <1>7, <1>8, <1>9, <1>10, <1>11, <1>12, <1>13
  DEF Next, SleepInterrupted, SleepRefused, SleepFails, Horizon

LEMMA GridInvariant == Spec => []GridInv
BY InitGrid, StepGrid, PTL DEF Spec

(* controller_step never drifts: the deadline is the anchor plus one slot  *)
(* for every slot that epoch and current_slot stand for.                   *)
THEOREM NoDrift == Spec => []OnGrid
<1>1. GridInv => OnGrid
  BY DEF GridInv
<1>2. QED BY <1>1, GridInvariant, PTL

LEMMA RunIsOnTime ==
  ASSUME TypeOK, WithinJitter
  PROVE  AbsInt(Lag) < (MAX_SLOT_JITTER_US + 1) * NS_PER_US
<1> DEFINE j == GetAbsTimeDiffUs(next)
           M == MAX_SLOT_JITTER_US
           n == NS_PER_US
<1>1. j \in Nat /\ j <= M /\ M \in Nat /\ n \in Nat \ {0}
  BY JitterBounds, GridAssumption DEF TypeOK, WithinJitter
<1>2. AbsInt(Lag) - n * j < n /\ AbsInt(Lag) \in Int
  BY JitterBounds, NsInt DEF TypeOK, Lag, AbsInt
<1> HIDE DEF j, M, n
<1>3. n * j <= n * M /\ (M + 1) * n = n * M + n /\ n * j \in Int /\ n * M \in Int
  BY <1>1
<1>4. AbsInt(Lag) < (M + 1) * n
  BY <1>1, <1>2, <1>3
<1>5. QED BY <1>4 DEF M, n

LEMMA SkipIsOff ==
  ASSUME TypeOK, ~WithinJitter
  PROVE  AbsInt(Lag) > MAX_SLOT_JITTER_US * NS_PER_US
<1> DEFINE j == GetAbsTimeDiffUs(next)
           M == MAX_SLOT_JITTER_US
           n == NS_PER_US
<1>1. j \in Nat /\ j > M /\ M \in Nat /\ n \in Nat \ {0}
  BY JitterBounds, GridAssumption DEF TypeOK, WithinJitter
<1>2. n * j - AbsInt(Lag) < n /\ AbsInt(Lag) \in Int
  BY JitterBounds, NsInt DEF TypeOK, Lag, AbsInt
<1> HIDE DEF j, M, n
<1>3. n * (M + 1) <= n * j /\ n * (M + 1) = M * n + n /\ n * j \in Int /\ M * n \in Int
  BY <1>1
<1>4. AbsInt(Lag) > M * n
  BY <1>1, <1>2, <1>3
<1>5. QED BY <1>4 DEF M, n

(* A handler starts within its tolerance of its own place on the grid.     *)
THEOREM HandlersOnGrid == Spec => HandlerOnGrid
<1>1. GridInv /\ RunHandler /\ Normalised(anchor.next)
        => AbsInt(now - GridNs) < (MAX_SLOT_JITTER_US + 1) * NS_PER_US
  <2> SUFFICES ASSUME GridInv, RunHandler, Normalised(anchor.next)
               PROVE  AbsInt(now - GridNs) < (MAX_SLOT_JITTER_US + 1) * NS_PER_US
    OBVIOUS
  <2>1. Lag = now - GridNs
    BY DEF GridInv, OnGrid, Lag
  <2>2. QED BY <2>1, RunIsOnTime DEF GridInv, RunHandler
<1>2. QED BY <1>1, GridInvariant, PTL DEF HandlerOnGrid

(* Only a slot that is out of its tolerance is given up.                   *)
THEOREM SkipsAreOff == Spec => SkippedOnlyWhenOff
<1>1. TypeOK /\ SkipSlot => AbsInt(Lag) > MAX_SLOT_JITTER_US * NS_PER_US
  BY SkipIsOff DEF SkipSlot
<1>2. QED BY <1>1, TypeCorrect, PTL DEF SkippedOnlyWhenOff

-----------------------------------------------------------------------------
(* An anchor that is a time never changes again; one that is none changes  *)
(* with a slot only, and then to the present.                              *)
LEMMA AnchorStays ==
  ASSUME TypeOK, [Next]_vars
  PROVE  \/ anchor'.next = anchor.next /\ anchor'.now = anchor.now
         \/ /\ ~Normalised(anchor.next)
            /\ pc = "slot" /\ SlotDone /\ pc' = "sleep"
            /\ (RunHandler \/ IdleSlot \/ SkipSlot)
            /\ anchor'.now = now' /\ anchor'.next = next'
<1> SUFFICES ASSUME ~(anchor'.next = anchor.next /\ anchor'.now = anchor.now)
             PROVE  /\ ~Normalised(anchor.next)
                    /\ pc = "slot" /\ SlotDone /\ pc' = "sleep"
                    /\ (RunHandler \/ IdleSlot \/ SkipSlot)
                    /\ anchor'.now = now' /\ anchor'.next = next'
  OBVIOUS
<1>1. RunHandler \/ IdleSlot \/ SkipSlot
  BY DEF Next, ControllerInit, StepBegin, WakeInEpoch, WakeAtEpochEnd, SleepInterrupted,
     SleepRefused, SleepFails, Horizon, vars, history, TypeOK
<1>2. pc = "slot" /\ SlotDone /\ pc' = "sleep"
  BY <1>1 DEF RunHandler, IdleSlot, SkipSlot, SlotDone
<1>3. now' \in Nat
  BY StepType DEF TypeOK
<1>4. QED BY <1>1, <1>2, <1>3, SlotDoneFacts

-----------------------------------------------------------------------------
(* What each step does to the lag.                                         *)

LEMMA LagFacts ==
  ASSUME GridInv, Normalised(anchor.next), [Next]_vars
  PROVE  /\ Lag \in Int /\ Lag' \in Int /\ Normalised(next)
         /\ SlotDone /\ pc = "slot" => Lag' = Lag + (now' - now) - SLOT_NS
         /\ WakeInEpoch \/ WakeAtEpochEnd =>
              \E l \in LatencyNs : Lag' = Later(0, Lag) + l
         /\ SleepInterrupted => Lag' \in Lag .. -1
         /\ ControllerInit \/ StepBegin \/ Horizon \/ UNCHANGED vars => Lag' = Lag
<1>1. TypeOK /\ TypeOK'
  BY StepType DEF GridInv
<1>2. /\ now \in Nat /\ now' \in Nat /\ next \in Timespecs /\ next' \in Timespecs
      /\ Ns(next) \in Int /\ Ns(next') \in Int /\ SLOT_NS \in Int
  BY <1>1, NsInt, SlotFitsSecond DEF TypeOK
<1>3. Normalised(next)
  BY DEF GridInv, OnGrid
<1>4. Lag' = now' - Ns(next') /\ Lag \in Int /\ Lag' \in Int
  BY <1>2 DEF Lag
<1>5. SlotDone => Lag' = Lag + (now' - now) - SLOT_NS
  <2>1. Ns(Advance(next)) = Ns(next) + SLOT_NS
    BY <1>2, <1>3, AdvanceFacts
  <2>2. QED BY <1>2, <1>4, <2>1 DEF SlotDone, Lag
<1>6. ASSUME WakeInEpoch \/ WakeAtEpochEnd
      PROVE  \E l \in LatencyNs : Lag' = Later(0, Lag) + l
  <2>1. PICK l \in LatencyNs : now' = Later(now, Ns(next)) + l
    BY <1>6 DEF WakeInEpoch, WakeAtEpochEnd, WakeNs
  <2>2. next' = next /\ l \in Nat
    BY <1>6, StartFacts DEF WakeInEpoch, WakeAtEpochEnd
  <2>3. Lag' = Later(0, Lag) + l
    BY <1>2, <2>1, <2>2 DEF Lag, Later
  <2>4. QED BY <2>3
<1>7. SleepInterrupted => Lag' \in Lag .. -1
  BY <1>2 DEF SleepInterrupted, SleepFails, Lag
<1>8. ControllerInit \/ StepBegin \/ Horizon \/ UNCHANGED vars => Lag' = Lag
  BY <1>2 DEF ControllerInit, StepBegin, Horizon, vars, Lag
<1>9. QED BY <1>3, <1>4, <1>5, <1>6, <1>7, <1>8

(* No slot begins before its deadline unless a sleep was interrupted or    *)
(* the first deadline lay in the future.                                   *)
THEOREM PunctualNotEarly == Spec => []NeverEarly
<1>1. Init => NeverEarly
  <2> SUFFICES ASSUME Init, anchor.now >= Ns(anchor.next)
               PROVE  Lag >= 0
    BY DEF NeverEarly
  <2>1. now \in Nat /\ Ns(next) \in Int
    BY InitType, NsInt DEF TypeOK
  <2>2. now >= Ns(next)
    BY DEF Init
  <2>3. QED BY <2>1, <2>2 DEF Lag
<1>2. GridInv /\ NeverEarly /\ [Next]_vars => NeverEarly'
  <2> SUFFICES ASSUME GridInv, NeverEarly, [Next]_vars,
                      Normalised(anchor.next)', (anchor.now >= Ns(anchor.next))',
                      interrupts' = 0, pc' # "sleep"
               PROVE  Lag' >= 0
    BY DEF NeverEarly
  <2>1. TypeOK
    BY DEF GridInv
  <2>2. anchor'.now = anchor.now /\ anchor'.next = anchor.next
    BY <2>1, AnchorStays
  <2>3. Normalised(anchor.next) /\ anchor.now >= Ns(anchor.next)
    BY <2>2
  <2>4. CASE WakeInEpoch \/ WakeAtEpochEnd
    <3>1. PICK l \in LatencyNs : Lag' = Later(0, Lag) + l
      BY <2>3, <2>4, LagFacts
    <3>2. Lag \in Int /\ l \in Nat
      BY <2>3, LagFacts, StartFacts
    <3>3. QED BY <3>1, <3>2 DEF Later
  <2>5. CASE ControllerInit \/ StepBegin \/ Horizon \/ UNCHANGED vars
    <3>1. Lag' = Lag /\ interrupts = 0 /\ pc # "sleep"
      BY <2>3, <2>5, LagFacts DEF ControllerInit, StepBegin, Horizon, vars
    <3>2. QED BY <2>3, <3>1 DEF NeverEarly
  <2>6. CASE SleepInterrupted
    BY <2>1, <2>6 DEF SleepInterrupted, TypeOK
  <2>7. CASE SleepRefused
    BY <2>3, <2>7, LagFacts DEF SleepRefused
  <2>8. QED
    BY <2>4, <2>5, <2>6, <2>7 DEF Next, RunHandler, IdleSlot, SkipSlot, SlotDone
<1>3. QED BY <1>1, <1>2, GridInvariant, PTL DEF Spec

-----------------------------------------------------------------------------
(* Overruns.                                                               *)

Credit == SLOT_NS - MaxLatencyNs

PromptWakes ==
  /\ MaxLatencyNs <= MAX_SLOT_JITTER_US * NS_PER_US
  /\ MaxLatencyNs < SLOT_NS

(* The loop is late by a mere latency, or the slots skipped so far and the *)
(* lateness that is left fit in the budget together, after a sleep with    *)
(* the latency of the wake-up.                                             *)
PaidAtSlot == Lag <= MaxLatencyNs \/ Lag + lateRun * Credit <= LateBudget + MaxLatencyNs
PaidInSleep == Lag <= 0 \/ Lag + lateRun * Credit <= LateBudget

SkipInv ==
  PromptWakes /\ Normalised(anchor.next) =>
    /\ IF pc = "sleep" THEN PaidInSleep ELSE PaidAtSlot
    /\ (lateRun - 1) * Credit < LateBudget

LEMMA BudgetFacts ==
  ASSUME TypeOK, PromptWakes
  PROVE  /\ LateBudget \in Nat \ {0}
         /\ LateBudget >= (MAX_SLOT_JITTER_US + 1) * NS_PER_US + MaxHandlerNs
         /\ LateBudget >= anchor.now - Ns(anchor.next)
         /\ Credit \in Nat \ {0} /\ MaxLatencyNs \in Nat /\ MaxHandlerNs \in Nat
         /\ (MAX_SLOT_JITTER_US + 1) * NS_PER_US \in Nat \ {0}
         /\ SLOT_NS = Credit + MaxLatencyNs
<1>1. (MAX_SLOT_JITTER_US + 1) * NS_PER_US \in Nat \ {0}
  BY GridAssumption
<1>2. MaxHandlerNs \in Nat /\ MaxLatencyNs \in Nat
  BY HandlerAssumption, LatencyAssumption
<1>3. anchor.now - Ns(anchor.next) \in Int
  BY NsInt DEF TypeOK
<1>4. QED
  BY <1>1, <1>2, <1>3, SlotFitsSecond DEF LateBudget, Later, Credit, PromptWakes

LEMMA InitSkip == Init => SkipInv
<1> SUFFICES ASSUME Init, PromptWakes
             PROVE  PaidAtSlot /\ (lateRun - 1) * Credit < LateBudget
  BY DEF Init, SkipInv
<1>1. TypeOK
  BY InitType
<1>2. lateRun = 0 /\ Lag = anchor.now - Ns(anchor.next) /\ Lag \in Int
  BY <1>1, NsInt DEF Init, Lag, TypeOK
<1>3. QED BY <1>1, <1>2, BudgetFacts DEF PaidAtSlot

LEMMA StepSkip == GridInv /\ SkipInv /\ [Next]_vars => SkipInv'
<1> SUFFICES ASSUME GridInv, SkipInv, [Next]_vars, PromptWakes, Normalised(anchor.next)'
             PROVE  /\ (IF pc = "sleep" THEN PaidInSleep ELSE PaidAtSlot)'
                    /\ ((lateRun - 1) * Credit < LateBudget)'
  BY DEF SkipInv
<1>1. TypeOK /\ TypeOK'
  BY StepType DEF GridInv
<1>14. CASE ~Normalised(anchor.next)
  <2>1. /\ RunHandler \/ IdleSlot \/ SkipSlot
        /\ pc' = "sleep" /\ anchor'.now = now' /\ anchor'.next = next'
    BY <1>1, <1>14, AnchorStays
  <2>2. lateRun' = 0
    <3>1. ~Normalised(next)
      BY <1>14 DEF GridInv
    <3>2. QED BY <2>1, <3>1 DEF RunHandler, IdleSlot, SkipSlot
  <2>3. Lag' = anchor'.now - Ns(anchor'.next) /\ Lag' \in Int
    BY <1>1, <2>1, NsInt DEF Lag, TypeOK
  <2>4. /\ LateBudget' \in Nat \ {0} /\ LateBudget' >= anchor'.now - Ns(anchor'.next)
        /\ Credit \in Nat \ {0}
    <3>1. LateBudget' = Later((MAX_SLOT_JITTER_US + 1) * NS_PER_US + MaxHandlerNs,
                              anchor'.now - Ns(anchor'.next))
      BY DEF LateBudget
    <3>2. /\ (MAX_SLOT_JITTER_US + 1) * NS_PER_US + MaxHandlerNs \in Nat \ {0}
          /\ Credit \in Nat \ {0}
      BY <1>1, BudgetFacts
    <3>3. QED BY <2>3, <3>1, <3>2 DEF Later
  <2>5. 0 * Credit = 0 /\ (0 - 1) * Credit < LateBudget'
    BY <2>4
  <2>6. Lag' + 0 * Credit <= LateBudget'
    <3> DEFINE paid == 0 * Credit
    <3>1. paid = 0
      BY <2>5
    <3> HIDE DEF paid
    <3>2. Lag' + paid <= LateBudget'
      BY <2>3, <2>4, <3>1
    <3>3. QED BY <3>2 DEF paid
  <2>7. (lateRun' - 1) * Credit < LateBudget' /\ Lag' + lateRun' * Credit <= LateBudget'
    BY <2>2, <2>5, <2>6
  <2>8. QED BY <2>1, <2>7 DEF PaidInSleep, Credit
<1> SUFFICES ASSUME Normalised(anchor.next)
             PROVE  /\ (IF pc = "sleep" THEN PaidInSleep ELSE PaidAtSlot)'
                    /\ ((lateRun - 1) * Credit < LateBudget)'
  BY <1>14
<1>2. anchor'.now = anchor.now /\ anchor'.next = anchor.next
  BY <1>1, AnchorStays
<1>3. Normalised(anchor.next) /\ LateBudget' = LateBudget
  BY <1>2 DEF LateBudget
<1>4. /\ Lag \in Int /\ Lag' \in Int /\ lateRun \in Nat /\ lateRun' \in Nat
      /\ Normalised(next)
  BY <1>1, <1>3, LagFacts DEF TypeOK
<1>5. /\ pc = "sleep" => PaidInSleep
      /\ pc # "sleep" => PaidAtSlot
      /\ (lateRun - 1) * Credit < LateBudget
  BY <1>3 DEF SkipInv
<1> DEFINE J == (MAX_SLOT_JITTER_US + 1) * NS_PER_US
           L == MaxLatencyNs
           D == MaxHandlerNs
           S == SLOT_NS
           B == LateBudget
           C == Credit
<1>6. /\ B \in Nat \ {0} /\ J \in Nat \ {0} /\ L \in Nat /\ D \in Nat
      /\ C \in Nat \ {0} /\ B >= J + D /\ S = C + L
  BY <1>1, BudgetFacts
<1> HIDE DEF J, L, D, S, B, C
<1>7. CASE RunHandler \/ IdleSlot
  <2>1. Lag < J
    <3>1. AbsInt(Lag) < J
      BY <1>1, <1>7, RunIsOnTime DEF J, RunHandler, IdleSlot
    <3>2. QED BY <1>4, <1>6, <3>1 DEF AbsInt
  <2>2. now' - now \in 0 .. D
    <3>1. PICK d \in 0 .. MaxHandlerNs : now' = now + d
      BY <1>1, <1>7, HandlerAssumption DEF RunHandler, IdleSlot, TypeOK
    <3>2. QED BY <1>1, <1>6, <3>1 DEF TypeOK, D
  <2>3. Lag' = Lag + (now' - now) - S
    BY <1>3, <1>7, LagFacts DEF S, RunHandler, IdleSlot
  <2>4. lateRun' = 0 /\ pc' = "sleep"
    BY <1>7 DEF RunHandler, IdleSlot, SlotDone
  <2>5. Lag' + 0 <= B
    BY <1>4, <1>6, <2>1, <2>2, <2>3
  <2>6. 0 * C = 0 /\ (0 - 1) * C < B
    BY <1>6
  <2>7. Lag' + lateRun' * C <= B
    <3>1. lateRun' * C = 0
      BY <2>4, <2>6
    <3>2. QED BY <2>5, <3>1
  <2>8. (lateRun' - 1) * C < B
    BY <2>4, <2>6
  <2>9. QED BY <1>3, <2>4, <2>7, <2>8 DEF PaidInSleep, B, C, L, Credit
<1>8. CASE SkipSlot
  <2>1. Lag' = Lag - S /\ pc' = "sleep"
    <3>1. pc = "slot" /\ SlotDone /\ now' = now /\ pc' = "sleep"
      BY <1>8 DEF SkipSlot, SlotDone
    <3>2. Lag' = Lag + (now' - now) - S
      BY <1>3, <3>1, LagFacts DEF S
    <3>3. QED BY <1>1, <1>4, <1>6, <3>1, <3>2 DEF TypeOK
  <2>2. CASE Lag > 0
    <3>1. Lag > L
      <4>1. AbsInt(Lag) > MAX_SLOT_JITTER_US * NS_PER_US
        BY <1>1, <1>8, SkipIsOff DEF SkipSlot
      <4>2. MAX_SLOT_JITTER_US * NS_PER_US \in Int
        BY GridAssumption
      <4>3. QED BY <1>4, <1>6, <2>2, <4>1, <4>2 DEF AbsInt, PromptWakes, L
    <3>2. Lag + lateRun * C <= B + L
      BY <1>4, <1>5, <1>6, <1>8, <3>1 DEF PaidAtSlot, SkipSlot, B, C, L
    <3>3. lateRun' = lateRun + 1
      BY <1>4, <1>8, <2>2 DEF SkipSlot
    <3>4. lateRun' * C = lateRun * C + C /\ (lateRun' - 1) * C = lateRun * C /\ lateRun * C \in Int
      BY <1>4, <1>6, <3>3
    <3> DEFINE paid == lateRun * C
    <3> HIDE DEF paid
    <3>5. paid \in Int /\ Lag + paid <= B + L
      BY <3>2, <3>4 DEF paid
    <3>6. Lag' + (paid + C) <= B /\ paid < B
      BY <1>4, <1>6, <2>1, <3>1, <3>5
    <3>7. Lag' + lateRun' * C <= B /\ (lateRun' - 1) * C < B
      BY <3>4, <3>6 DEF paid
    <3>8. QED BY <1>3, <2>1, <3>7 DEF PaidInSleep, B, C, L, Credit
  <2>3. CASE ~(Lag > 0)
    <3>1. lateRun' = 0 /\ Lag' <= 0
      BY <1>4, <1>6, <1>8, <2>1, <2>3 DEF SkipSlot
    <3>2. (0 - 1) * C < B
      BY <1>6
    <3>3. QED BY <1>3, <2>1, <3>1, <3>2 DEF PaidInSleep, B, C, Credit
  <2>4. QED BY <2>2, <2>3
<1>9. CASE WakeInEpoch \/ WakeAtEpochEnd
  <2>1. PICK l \in LatencyNs : Lag' = Later(0, Lag) + l
    BY <1>3, <1>9, LagFacts
  <2>2. l \in 0 .. L
    BY LatencyAssumption DEF L
  <2>3. lateRun' = lateRun /\ pc = "sleep" /\ pc' # "sleep"
    BY <1>9 DEF WakeInEpoch, WakeAtEpochEnd, history
  <2>4. lateRun * C \in Int
    BY <1>4, <1>6
  <2>5. Lag' <= L \/ Lag' + lateRun * C <= B + L
    <3>1. Lag <= 0 \/ Lag + lateRun * C <= B
      BY <1>5, <2>3 DEF PaidInSleep, B, C, L
    <3>2. QED BY <1>4, <1>6, <2>1, <2>2, <2>4, <3>1 DEF Later
  <2>6. QED BY <1>3, <1>5, <2>3, <2>5 DEF PaidAtSlot, B, C, L, Credit
<1>10. CASE SleepInterrupted
  <2>1. Lag' <= L /\ lateRun' = lateRun /\ pc' # "sleep"
    BY <1>3, <1>4, <1>6, <1>10, LagFacts DEF SleepInterrupted, SleepFails
  <2>2. QED BY <1>3, <1>5, <2>1 DEF PaidAtSlot, L, Credit
<1>11. CASE SleepRefused
  BY <1>4, <1>11 DEF SleepRefused
<1>12. CASE ControllerInit \/ StepBegin \/ Horizon \/ UNCHANGED vars
  <2>1. Lag' = Lag /\ lateRun' = lateRun
    BY <1>3, <1>12, LagFacts DEF ControllerInit, StepBegin, Horizon, vars, history
  <2>2. pc' = "sleep" <=> pc = "sleep"
    BY <1>12 DEF ControllerInit, StepBegin, Horizon, vars
  <2>3. QED BY <1>3, <1>5, <2>1, <2>2 DEF PaidAtSlot, PaidInSleep, Credit
<1>13. QED
  BY <1>7, <1>8, <1>9, <1>10, <1>11, <1>12 DEF Next

(* An overrun costs no more slots in a row than its lateness covers,       *)
(* however many handlers overrun and wherever they sit in the epoch.       *)
THEOREM OverrunsCostBounded == Spec => []SkipsBounded
<1>1. SkipInv => SkipsBounded
  BY DEF SkipInv, SkipsBounded, PromptWakes, Credit
<1>2. QED BY <1>1, InitSkip, StepSkip, GridInvariant, PTL DEF Spec

-----------------------------------------------------------------------------
(* The refinement.                                                         *)

LEMMA InitImplements == Init => Grid!Init
<1> SUFFICES ASSUME Init
             PROVE  Grid!Init
  OBVIOUS
<1>1. Lag \in Int
  BY InitType, NsInt DEF TypeOK, Lag
<1>2. QED BY <1>1 DEF Init, Grid!Init, AtLoopHead

LEMMA StepImplements ==
  ASSUME Normalised(anchor.next), GridInv, [Next]_vars
  PROVE  [Grid!Next]_(Grid!vars)
<1>1. TypeOK /\ TypeOK'
  BY StepType DEF GridInv
<1>2. Normalised(anchor.next) /\ Normalised(anchor.next)'
  BY <1>1, AnchorStays
<1>3. Lag \in Int /\ Lag' \in Int /\ Normalised(next)
  BY <1>2, LagFacts
<1>4. /\ MAX_SLOT_JITTER_US * NS_PER_US \in Nat
      /\ slot \in Slots
  BY <1>1, GridAssumption DEF TypeOK
<1>5. Grid!Slots = Slots /\ \A x : Grid!Magnitude(x) = AbsInt(x)
  BY DEF Grid!Slots, Slots, Grid!Magnitude, AbsInt
<1>6. ASSUME pc = "slot", SlotDone, NEW d, now' = now + d, d \in Nat
      PROVE  Grid!Pass(d)
  <2>1. Lag' = Lag + (now' - now) - SLOT_NS
    BY <1>2, <1>6, LagFacts
  <2>2. Lag' = Lag + d - SLOT_NS
    BY <1>1, <1>6, <2>1 DEF TypeOK
  <2>3. QED BY <1>2, <1>6, <2>2 DEF Grid!Pass, SlotDone, AtLoopHead
<1>7. CASE RunHandler
  <2>1. PICK d \in HandlerNs[slot] : now' = now + d
    BY <1>7 DEF RunHandler
  <2>2. Grid!Pass(d)
    BY <1>4, <1>6, <1>7, <2>1, StartFacts DEF RunHandler
  <2>3. AbsInt(Lag) < (MAX_SLOT_JITTER_US + 1) * NS_PER_US
    BY <1>1, <1>7, RunIsOnTime DEF RunHandler
  <2>4. Grid!Run(slot)
    BY <1>2, <1>5, <1>7, <2>2, <2>3 DEF Grid!Run, RunHandler, AtLoopHead
  <2>5. QED BY <1>4, <1>5, <2>4 DEF Grid!Next
<1>8. CASE IdleSlot
  <2>1. Grid!Pass(0)
    BY <1>1, <1>6, <1>8 DEF IdleSlot, TypeOK
  <2>2. AbsInt(Lag) < (MAX_SLOT_JITTER_US + 1) * NS_PER_US
    BY <1>1, <1>8, RunIsOnTime DEF IdleSlot
  <2>3. QED BY <1>2, <1>5, <1>8, <2>1, <2>2 DEF Grid!Next, Grid!Idle, IdleSlot, AtLoopHead
<1>9. CASE SkipSlot
  <2>1. Grid!Pass(0)
    BY <1>1, <1>6, <1>9 DEF SkipSlot, TypeOK
  <2>2. AbsInt(Lag) > MAX_SLOT_JITTER_US * NS_PER_US
    BY <1>1, <1>9, SkipIsOff DEF SkipSlot
  <2>3. QED BY <1>2, <1>5, <2>1, <2>2 DEF Grid!Next, Grid!Skip
<1>10. ASSUME WakeInEpoch \/ WakeAtEpochEnd
       PROVE  Grid!Wake
  <2>1. PICK l \in LatencyNs : Lag' = Later(0, Lag) + l
    BY <1>2, <1>10, LagFacts
  <2>2. Later(0, Lag) = IF Lag < 0 THEN 0 ELSE Lag
    BY <1>3 DEF Later
  <2>3. pc = "sleep" /\ pc' # "sleep" /\ interrupts' = interrupts
    BY <1>10 DEF WakeInEpoch, WakeAtEpochEnd, history
  <2>4. (IF AtLoopHead THEN 0 ELSE slot)' = Grid!Following(slot)
    <3>1. CASE WakeInEpoch
      <4>1. pc' = "slot" /\ slot' = slot + 1 /\ slot # SLOT_COUNT - 1
        BY <1>4, <3>1, StartFacts DEF WakeInEpoch, LastSlot, Slots
      <4>2. QED BY <4>1 DEF AtLoopHead, Grid!Following
    <3>2. CASE WakeAtEpochEnd
      <4>1. pc' = "main" /\ slot = SLOT_COUNT - 1
        BY <3>2 DEF WakeAtEpochEnd, LastSlot
      <4>2. QED BY <4>1 DEF AtLoopHead, Grid!Following
    <3>3. QED BY <1>10, <3>1, <3>2
  <2>5. QED BY <1>2, <2>1, <2>2, <2>3, <2>4 DEF Grid!Wake, AtLoopHead
<1>11. CASE SleepInterrupted
  <2>1. Lag' \in Lag .. -1
    BY <1>2, <1>11, LagFacts
  <2>2. Grid!BreakOff
    BY <1>2, <1>11, <2>1 DEF SleepInterrupted, SleepFails, Grid!BreakOff, AtLoopHead
  <2>3. QED BY <2>2 DEF Grid!Next
<1>12. CASE SleepRefused
  BY <1>3, <1>12 DEF SleepRefused
<1>13. CASE ControllerInit \/ StepBegin \/ Horizon \/ UNCHANGED vars
  <2>1. Lag' = Lag
    BY <1>2, <1>13, LagFacts
  <2>2. UNCHANGED <<IF AtLoopHead THEN 0 ELSE slot, IF pc = "sleep" THEN "sleep" ELSE "due", interrupts>>
    BY <1>13 DEF ControllerInit, StepBegin, Horizon, vars, history, AtLoopHead
  <2>3. QED BY <1>2, <2>1, <2>2 DEF Grid!vars
<1>14. QED
  BY <1>7, <1>8, <1>9, <1>10, <1>11, <1>12, <1>13 DEF Next, Grid!Next

(* As long as the deadline is no time the ring is lost; the slot that makes*)
(* it one is the ring's recovery.                                          *)
LEMMA LostImplements ==
  ASSUME ~Normalised(anchor.next), GridInv, [Next]_vars
  PROVE  [Grid!Next]_(Grid!vars)
<1>1. TypeOK /\ TypeOK' /\ GridInv' /\ slot = 0 /\ ~Normalised(next)
  BY StepType, StepGrid DEF GridInv
<1>2. interrupts' = interrupts
  BY <1>1 DEF Next, ControllerInit, StepBegin, RunHandler, IdleSlot, SkipSlot, SlotDone,
     WakeInEpoch, WakeAtEpochEnd, SleepInterrupted, SleepRefused, SleepFails, Horizon,
     vars, history
<1>3. CASE ~Normalised(anchor'.next)
  <2>1. slot' = 0
    BY <1>1, <1>3 DEF GridInv
  <2>2. QED BY <1>1, <1>2, <1>3, <2>1 DEF Grid!vars, AtLoopHead
<1>4. CASE Normalised(anchor'.next)
  <2>1. pc = "slot" /\ pc' = "sleep" /\ slot' = slot
    BY <1>1, <1>4, AnchorStays DEF SlotDone
  <2>2. Lag' \in Int
    BY <1>1, NsInt DEF TypeOK, Lag
  <2>3. Grid!Recover
    BY <1>1, <1>2, <1>4, <2>1, <2>2 DEF Grid!Recover, AtLoopHead
  <2>4. QED BY <2>3 DEF Grid!Next
<1>5. QED BY <1>3, <1>4

(* controller_step implements the abstract ring of slots, for every clock  *)
(* unit, slot length, set of handlers and stack content.                   *)
THEOREM ControllerImplementsGrid == Spec => ImplementsSlotGrid
<1>1. GridInv /\ [Next]_vars => [Grid!Next]_(Grid!vars)
  BY StepImplements, LostImplements
<1>2. QED
  BY <1>1, InitImplements, GridInvariant, PTL DEF Spec, ImplementsSlotGrid, Grid!Safety

-----------------------------------------------------------------------------
(* Which slots an overrun delays.                                          *)

(* The lateness x of slot s is what is left of the run of some handler     *)
(* when the slots in between have each made up for a slot less a latency.  *)
Overrun(h, d, s) ==
  (MAX_SLOT_JITTER_US + 1) * NS_PER_US + d - Grid!Distance(h, s) * Credit

Covered(s, x) == \E h \in Enabled : \E d \in HandlerNs[h] : x < Overrun(h, d, s)

RingSlot == IF AtLoopHead THEN 0 ELSE slot

(* The loop is not late, or an overrun accounts for its lateness.          *)
DelayInv ==
  /\ Normalised(anchor.next)
  /\ IF pc = "sleep"
       THEN \/ Lag <= 0
            \/ Lag + MaxLatencyNs <= MAX_SLOT_JITTER_US * NS_PER_US
            \/ Covered(Grid!Following(slot), Lag + MaxLatencyNs)
       ELSE Lag <= MAX_SLOT_JITTER_US * NS_PER_US \/ Covered(RingSlot, Lag)

LEMMA DistanceFacts ==
  ASSUME NEW h \in Slots, NEW s \in Slots
  PROVE  /\ Grid!Following(s) \in Slots
         /\ Grid!Distance(h, s) \in Nat \ {0}
         /\ Grid!Distance(h, Grid!Following(s)) <= Grid!Distance(h, s) + 1
         /\ Grid!Distance(h, Grid!Following(h)) = 1
BY StartFacts DEF Slots, Grid!Following, Grid!Distance

LEMMA CreditFacts ==
  ASSUME PromptWakes
  PROVE  /\ Credit \in Nat \ {0} /\ MaxLatencyNs \in Nat /\ SLOT_NS \in Nat
         /\ SLOT_NS = Credit + MaxLatencyNs
         /\ MAX_SLOT_JITTER_US * NS_PER_US \in Nat
         /\ (MAX_SLOT_JITTER_US + 1) * NS_PER_US \in Nat
         /\ MAX_SLOT_JITTER_US * NS_PER_US < (MAX_SLOT_JITTER_US + 1) * NS_PER_US
<1>1. /\ MAX_SLOT_JITTER_US * NS_PER_US \in Nat
      /\ (MAX_SLOT_JITTER_US + 1) * NS_PER_US = MAX_SLOT_JITTER_US * NS_PER_US + NS_PER_US
      /\ NS_PER_US \in Nat \ {0}
  BY GridAssumption
<1>2. MaxLatencyNs \in Nat
  BY LatencyAssumption
<1>3. QED BY <1>1, <1>2, SlotFitsSecond DEF PromptWakes, Credit

(* A slot that passes without a handler makes up for its credit.           *)
LEMMA CoveredMoves ==
  ASSUME PromptWakes, NEW s \in Slots, NEW x \in Int, Covered(s, x)
  PROVE  Covered(Grid!Following(s), x - Credit)
<1>0. PICK h \in Enabled : \E d \in HandlerNs[h] : x < Overrun(h, d, s)
  BY DEF Covered
<1>1. PICK d \in HandlerNs[h] : x < Overrun(h, d, s)
  BY <1>0
<1> DEFINE J == (MAX_SLOT_JITTER_US + 1) * NS_PER_US
           C == Credit
           m == Grid!Distance(h, s)
           n == Grid!Distance(h, Grid!Following(s))
<1>2. h \in Slots /\ d \in Nat
  BY HandlerAssumption, StartFacts
<1>3. m \in Nat /\ n \in Nat /\ n <= m + 1 /\ J \in Nat /\ C \in Nat
  BY <1>2, DistanceFacts, CreditFacts
<1>4. Overrun(h, d, s) = J + d - m * C /\ Overrun(h, d, Grid!Following(s)) = J + d - n * C
  BY DEF Overrun
<1> HIDE DEF J, C, m, n
<1>5. n * C <= m * C + C /\ n * C \in Int /\ m * C \in Int
  BY <1>3
<1>6. x - C < Overrun(h, d, Grid!Following(s))
  BY <1>1, <1>2, <1>3, <1>4, <1>5
<1>7. QED BY <1>6 DEF Covered, C

(* The run of slot h itself, seen from the slot after it.                  *)
LEMMA RunCovers ==
  ASSUME PromptWakes, NEW h \in Enabled, NEW d \in HandlerNs[h], NEW x \in Int,
         x < (MAX_SLOT_JITTER_US + 1) * NS_PER_US
  PROVE  Covered(Grid!Following(h), x + d - Credit)
<1>1. h \in Slots /\ d \in Nat
  BY HandlerAssumption, StartFacts
<1>2. Grid!Distance(h, Grid!Following(h)) = 1
  BY <1>1, DistanceFacts
<1>3. Credit \in Nat /\ (MAX_SLOT_JITTER_US + 1) * NS_PER_US \in Nat
  BY CreditFacts
<1> DEFINE J == (MAX_SLOT_JITTER_US + 1) * NS_PER_US
<1>4. Overrun(h, d, Grid!Following(h)) = J + d - Credit
  BY <1>2, <1>3 DEF Overrun
<1> HIDE DEF J
<1>5. x + d - Credit < Overrun(h, d, Grid!Following(h))
  BY <1>1, <1>3, <1>4 DEF J
<1>6. QED BY <1>5 DEF Covered

(* What accounts for a slot's being late is what exposes it.               *)
LEMMA CoveredIsExposed ==
  ASSUME NEW s \in Slots, NEW x \in Int, Covered(s, x),
         PromptWakes, x > MAX_SLOT_JITTER_US * NS_PER_US
  PROVE  Grid!Exposed(s)
<1>0. PICK h \in Enabled : \E d \in HandlerNs[h] : x < Overrun(h, d, s)
  BY DEF Covered
<1>1. PICK d \in HandlerNs[h] : x < Overrun(h, d, s)
  BY <1>0
<1>2. h \in Slots /\ d \in Nat /\ Grid!Distance(h, s) \in Nat
  BY HandlerAssumption, StartFacts, DistanceFacts
<1>3. MaxLatencyNs \in LatencyNs /\ Overrun(h, d, s) \in Int
  BY <1>2, LatencyAssumption, CreditFacts DEF Overrun
<1>4. Overrun(h, d, s) > MAX_SLOT_JITTER_US * NS_PER_US
  BY <1>1, <1>3, CreditFacts
<1>5. QED BY <1>1, <1>3, <1>4 DEF Grid!Exposed, Grid!OverrunHits, Overrun, Credit

LEMMA StepDelay == GridInv /\ PromptWakes /\ DelayInv /\ [Next]_vars => DelayInv'
<1> SUFFICES ASSUME GridInv, PromptWakes, DelayInv, [Next]_vars
             PROVE  DelayInv'
  OBVIOUS
<1> DEFINE T == MAX_SLOT_JITTER_US * NS_PER_US
           J == (MAX_SLOT_JITTER_US + 1) * NS_PER_US
           L == MaxLatencyNs
<1>1. TypeOK /\ TypeOK'
  BY StepType DEF GridInv
<1>2. Normalised(anchor.next) /\ Normalised(anchor.next)'
  BY <1>1, AnchorStays DEF DelayInv
<1>3. Lag \in Int /\ Lag' \in Int /\ Normalised(next) /\ slot \in Slots
  BY <1>1, <1>2, LagFacts DEF TypeOK
<1>4. /\ T \in Nat /\ J \in Nat /\ L \in Nat /\ Credit \in Nat \ {0}
      /\ SLOT_NS = Credit + L /\ L <= T
  BY CreditFacts DEF PromptWakes
<1>5. /\ pc = "sleep" => Lag <= 0 \/ Lag + L <= T \/ Covered(Grid!Following(slot), Lag + L)
      /\ pc # "sleep" => Lag <= T \/ Covered(RingSlot, Lag)
  BY DEF DelayInv
<1>6. /\ pc' = "sleep" /\ (Lag' <= 0 \/ Lag' + L <= T \/ Covered(Grid!Following(slot'), Lag' + L))
           => DelayInv'
      /\ pc' # "sleep" /\ (Lag' <= T \/ Covered(RingSlot', Lag')) => DelayInv'
  BY <1>2 DEF DelayInv
<1> HIDE DEF T, J, L
<1>7. ASSUME pc = "slot", SlotDone, NEW d \in Nat, now' = now + d
      PROVE  Lag' + L = Lag + d - Credit /\ slot' = slot /\ pc' = "sleep" /\ RingSlot = slot
  <2>1. Lag' = Lag + (now' - now) - SLOT_NS
    BY <1>2, <1>7, LagFacts
  <2>2. now' - now = d
    BY <1>1, <1>7 DEF TypeOK
  <2>3. Lag' + L = Lag + d - Credit
    BY <1>3, <1>4, <2>1, <2>2
  <2>4. QED BY <1>7, <2>3 DEF SlotDone, RingSlot, AtLoopHead
<1>8. CASE RunHandler
  <2>1. PICK d \in HandlerNs[slot] : now' = now + d
    BY <1>8 DEF RunHandler
  <2>2. slot \in Enabled /\ d \in Nat
    BY <1>3, <1>8, <2>1, StartFacts DEF RunHandler
  <2>3. Lag' + L = Lag + d - Credit /\ slot' = slot /\ pc' = "sleep"
    BY <1>7, <1>8, <2>1, <2>2 DEF RunHandler
  <2>4. Lag < J
    <3>1. AbsInt(Lag) < J
      BY <1>1, <1>8, RunIsOnTime DEF J, RunHandler
    <3>2. QED BY <1>3, <1>4, <3>1 DEF AbsInt
  <2>5. Covered(Grid!Following(slot), Lag + d - Credit)
    BY <1>3, <2>2, <2>4, RunCovers DEF J
  <2>6. QED BY <1>6, <2>3, <2>5
<1>9. CASE IdleSlot \/ SkipSlot
  <2>0. PICK d \in Nat : d = 0
    OBVIOUS
  <2>1. pc = "slot" /\ SlotDone /\ now' = now + d
    BY <1>1, <1>9, <2>0 DEF IdleSlot, SkipSlot, TypeOK
  <2>2. Lag' + L = Lag + d - Credit /\ slot' = slot /\ pc' = "sleep" /\ RingSlot = slot
    BY <1>7, <2>1
  <2>3. Lag' + L = Lag - Credit
    <3>1. Lag + d - Credit = Lag - Credit
      BY <1>3, <1>4, <2>0
    <3>2. QED BY <2>2, <3>1
  <2>4. CASE Lag <= T
    <3>1. Lag - Credit <= T
      BY <1>3, <1>4, <2>4
    <3>2. Lag' + L <= T
      BY <2>3, <3>1
    <3>3. QED BY <1>6, <2>2, <3>2
  <2>5. CASE Covered(slot, Lag)
    <3>1. Covered(Grid!Following(slot), Lag - Credit)
      BY <1>3, <2>5, CoveredMoves
    <3>2. QED BY <1>6, <2>2, <2>3, <3>1
  <2>6. QED BY <1>5, <2>1, <2>2, <2>4, <2>5
<1>10. CASE WakeInEpoch \/ WakeAtEpochEnd
  <2>1. PICK l \in LatencyNs : Lag' = Later(0, Lag) + l
    BY <1>2, <1>10, LagFacts
  <2>2. l \in 0 .. L
    BY LatencyAssumption DEF L
  <2>3. pc = "sleep" /\ pc' # "sleep" /\ RingSlot' = Grid!Following(slot)
    <3>1. CASE WakeInEpoch
      BY <1>3, <3>1, StartFacts
      DEF WakeInEpoch, LastSlot, Slots, RingSlot, AtLoopHead, Grid!Following
    <3>2. CASE WakeAtEpochEnd
      BY <3>2 DEF WakeAtEpochEnd, LastSlot, RingSlot, AtLoopHead, Grid!Following
    <3>3. QED BY <1>10, <3>1, <3>2
  <2>4. CASE Lag <= 0 \/ Lag + L <= T
    <3>1. Lag' <= T
      BY <1>3, <1>4, <2>1, <2>2, <2>4 DEF Later
    <3>2. QED BY <1>6, <2>3, <3>1
  <2>5. CASE Lag > 0 /\ Covered(Grid!Following(slot), Lag + L)
    <3>1. Lag' <= Lag + L
      BY <1>3, <1>4, <2>1, <2>2, <2>5 DEF Later
    <3>0. PICK h \in Enabled : \E d \in HandlerNs[h] : Lag + L < Overrun(h, d, Grid!Following(slot))
      BY <2>5 DEF Covered
    <3>2. PICK d \in HandlerNs[h] : Lag + L < Overrun(h, d, Grid!Following(slot))
      BY <3>0
    <3>3. Overrun(h, d, Grid!Following(slot)) \in Int
      <4>1. h \in Slots /\ d \in Nat
        BY HandlerAssumption, StartFacts
      <4>2. Grid!Distance(h, Grid!Following(slot)) \in Nat
        BY <1>3, <4>1, DistanceFacts
      <4>3. QED BY <4>1, <4>2, CreditFacts DEF Overrun
    <3>4. Lag' < Overrun(h, d, Grid!Following(slot))
      BY <1>3, <1>4, <3>1, <3>2, <3>3
    <3>5. Covered(RingSlot', Lag')
      BY <2>3, <3>4 DEF Covered
    <3>6. QED BY <1>6, <2>3, <3>5
  <2>6. QED BY <1>3, <1>5, <2>3, <2>4, <2>5
<1>11. CASE SleepInterrupted
  <2>1. Lag' <= T /\ pc' # "sleep"
    BY <1>2, <1>3, <1>4, <1>11, LagFacts DEF SleepInterrupted, SleepFails
  <2>2. QED BY <1>6, <2>1
<1>12. CASE SleepRefused
  BY <1>3, <1>12 DEF SleepRefused
<1>13. CASE ControllerInit \/ StepBegin \/ Horizon \/ UNCHANGED vars
  <2>1. Lag' = Lag
    BY <1>2, <1>13, LagFacts
  <2>2. (pc' = "sleep" <=> pc = "sleep") /\ RingSlot' = RingSlot
    BY <1>13 DEF ControllerInit, StepBegin, Horizon, vars, RingSlot, AtLoopHead
  <2>3. pc = "sleep" => slot' = slot
    BY <1>13 DEF ControllerInit, StepBegin, Horizon, vars
  <2>4. QED BY <1>5, <1>6, <2>1, <2>2, <2>3
<1>14. QED
  BY <1>8, <1>9, <1>10, <1>11, <1>12, <1>13 DEF Next

(* Once a slot began without being late, only a slot that some handler's   *)
(* longest run can push off its deadline is ever late again, through       *)
(* overruns in a row, skipped slots and epochs that break off.             *)
THEOREM DelaysAreOverruns == Spec => OnlyOverrunsDelay
<1> DEFINE C == PromptWakes
           P == pc = "slot" /\ Normalised(anchor.next) /\ Lag <= MAX_SLOT_JITTER_US * NS_PER_US
           Q == \A s \in Slots : pc = "slot" /\ slot = s /\ ~Grid!Exposed(s)
                  => Lag <= MAX_SLOT_JITTER_US * NS_PER_US
           I == PromptWakes /\ DelayInv
<1>1. C => C'
  BY DEF PromptWakes
<1>2. C /\ P => I
  BY DEF DelayInv
<1>3. GridInv /\ I /\ [Next]_vars => I'
  BY StepDelay
<1>4. GridInv /\ I => Q
  <2> SUFFICES ASSUME GridInv, PromptWakes, DelayInv, NEW s \in Slots,
                      pc = "slot", slot = s, ~Grid!Exposed(s)
               PROVE  Lag <= MAX_SLOT_JITTER_US * NS_PER_US
    OBVIOUS
  <2>1. Lag \in Int
    BY NsInt DEF GridInv, TypeOK, Lag
  <2>2. Lag <= MAX_SLOT_JITTER_US * NS_PER_US \/ Covered(s, Lag)
    BY DEF DelayInv, RingSlot, AtLoopHead
  <2>3. QED BY <2>1, <2>2, CreditFacts, CoveredIsExposed
<1>5. OnlyOverrunsDelay <=> (C => [](P => []Q))
  BY DEF OnlyOverrunsDelay, PromptWakes
<1> HIDE DEF C, P, Q, I
<1>6. QED BY <1>1, <1>2, <1>3, <1>4, <1>5, GridInvariant, PTL DEF Spec

-----------------------------------------------------------------------------
(* The abstract ring by itself.                                            *)

LEMMA RingInit == Grid!Init => Grid!TypeOK
<1> SUFFICES ASSUME Grid!Init
             PROVE  Grid!TypeOK
  OBVIOUS
<1>1. 0 \in Grid!Slots /\ 0 \in 0 .. MaxInterrupts
  BY StartFacts DEF Grid!Slots
<1>2. QED BY <1>1 DEF Grid!Init, Grid!TypeOK

LEMMA RingStep == Grid!TypeOK /\ [Grid!Next]_(Grid!vars) => Grid!TypeOK'
<1> SUFFICES ASSUME Grid!TypeOK, [Grid!Next]_(Grid!vars)
             PROVE  Grid!TypeOK'
  OBVIOUS
<1>1. ASSUME NEW d \in Nat, Grid!Pass(d)
      PROVE  Grid!TypeOK'
  BY <1>1, SlotFitsSecond DEF Grid!Pass, Grid!TypeOK
<1>2. CASE \E s \in Grid!Slots : Grid!Run(s)
  <2>1. PICK s \in Grid!Slots : Grid!Run(s)
    BY <1>2
  <2>2. PICK d \in HandlerNs[s] : Grid!Pass(d)
    BY <2>1 DEF Grid!Run
  <2>3. d \in Nat
    BY StartFacts DEF Grid!Slots, Slots
  <2>4. QED BY <1>1, <2>2, <2>3
<1>3. CASE Grid!Idle \/ Grid!Skip
  BY <1>1, <1>3 DEF Grid!Idle, Grid!Skip
<1>4. CASE Grid!Wake
  BY <1>4, StartFacts DEF Grid!Wake, Grid!TypeOK, Grid!Following, Grid!Slots
<1>5. CASE Grid!BreakOff
  BY <1>5, StartFacts DEF Grid!BreakOff, Grid!TypeOK, Grid!Slots
<1>6. CASE Grid!Recover
  BY <1>6 DEF Grid!Recover, Grid!TypeOK
<1>7. CASE UNCHANGED Grid!vars
  BY <1>7 DEF Grid!vars, Grid!TypeOK
<1>8. QED
  BY <1>2, <1>3, <1>4, <1>5, <1>6, <1>7 DEF Grid!Next

(* The abstract ring never leaves its slots, whatever the handlers and     *)
(* latencies are: it needs no more of the code than that it implements it. *)
THEOREM RingTypeCorrect == ImplementsSlotGrid => []Grid!TypeOK
<1>1. QED BY RingInit, RingStep, PTL DEF ImplementsSlotGrid, Grid!Safety

=============================================================================
