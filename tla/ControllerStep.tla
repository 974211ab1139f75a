--------------------------- MODULE ControllerStep ---------------------------
(***************************************************************************)
(* The cooperative slot scheduler of the controller: main() calls          *)
(* controller_init once and controller_step for ever; controller_step runs *)
(* one epoch of SLOT_COUNT slots on a grid of absolute CLOCK_MONOTONIC     *)
(* deadlines, runs the handler of a slot when the slot begins on time,     *)
(* skips it when it does not, and sleeps until the next deadline.          *)
(*                                                                         *)
(* Time is an integer number of nanoseconds that passes inside the actions *)
(* that take time: a handler, and a sleep with the latency of its wake-up. *)
(* next_slot_start_time stays the pair of C fields the code computes with, *)
(* so the carry into seconds, the truncating division of the jitter and an *)
(* unnormalised value are all in the model.                                *)
(***************************************************************************)
EXTENDS Integers

CONSTANTS
  SLOT_COUNT,          \* slots of an epoch
  SLOT_TIME_US,        \* length of a slot
  MAX_SLOT_JITTER_US,  \* how far from its deadline a slot may still run
  NS_PER_US,           \* 1000 in the code
  US_PER_SEC,          \* 1000000 in the code
  Enabled,             \* slots whose handler is compiled in
  HandlerNs,           \* slot -> the durations its handler may take
  MaxHandlerNs,        \* the longest of them
  LatencyNs,           \* how late clock_nanosleep may return
  MaxLatencyNs,        \* the longest of them
  StartNs,             \* values of the monotonic clock when main starts
  StartTimes,          \* what the stack may hold in next_slot_start_time
  StartEpochs,         \* what the stack may hold in epoch
  MaxEpochs,           \* bound: calls of controller_step
  MaxInterrupts        \* bound: sleeps interrupted by a signal

Slots == 0 .. SLOT_COUNT - 1
SLOT_NS == SLOT_TIME_US * NS_PER_US
NS_PER_SEC == US_PER_SEC * NS_PER_US
Timespecs == [tv_sec : Int, tv_nsec : Int]

ASSUME GridAssumption ==
  /\ SLOT_COUNT \in Nat \ {0}
  /\ SLOT_TIME_US \in Nat \ {0}
  /\ MAX_SLOT_JITTER_US \in Nat
  /\ NS_PER_US \in Nat \ {0}
  /\ US_PER_SEC \in Nat
  /\ SLOT_TIME_US < US_PER_SEC

ASSUME HandlerAssumption ==
  /\ Enabled \subseteq Slots
  /\ MaxHandlerNs \in Nat
  /\ HandlerNs \in [Slots -> SUBSET (0 .. MaxHandlerNs)]

ASSUME LatencyAssumption ==
  /\ MaxLatencyNs \in Nat
  /\ LatencyNs \subseteq 0 .. MaxLatencyNs
  /\ MaxLatencyNs \in LatencyNs

ASSUME StartAssumption ==
  /\ StartNs \subseteq Nat
  /\ StartTimes \subseteq Timespecs
  /\ StartEpochs \subseteq Nat
  /\ MaxEpochs \in Nat
  /\ MaxInterrupts \in Nat

VARIABLES
  now,          \* CLOCK_MONOTONIC
  next,         \* controller->next_slot_start_time
  epoch,        \* controller->epoch
  slot,         \* controller->current_slot, equal to i inside the loop
  pc,           \* where main and controller_step stand
  initialised,  \* controller_init returned OK
  interrupts,   \* sleeps interrupted so far
  anchor,       \* history: the clock, next and epoch when the loop was entered;
                \* as long as next is no time, every slot takes them anew, with
                \* the number of slots begun by then
  cut,          \* history: slots given up by the epochs that broke off
  lateRun       \* history: slots skipped in a row because they came too late

vars == <<now, next, epoch, slot, pc, initialised, interrupts, anchor, cut, lateRun>>
history == <<anchor, cut, lateRun>>

-----------------------------------------------------------------------------
(* C arithmetic and struct timespec.                                       *)

AbsInt(x) == IF x < 0 THEN -x ELSE x
Later(s, t) == IF s < t THEN t ELSE s

(* C's integer division, which truncates toward zero.                      *)
CDiv(x, n) == IF x < 0 THEN -((-x) \div n) ELSE x \div n

Ns(ts) == ts.tv_sec * NS_PER_SEC + ts.tv_nsec
Timespec(t) == [tv_sec |-> t \div NS_PER_SEC, tv_nsec |-> t % NS_PER_SEC]

(* What the kernel asks of a deadline: clock_nanosleep returns EINVAL for  *)
(* any other.                                                              *)
Normalised(ts) == ts.tv_sec >= 0 /\ ts.tv_nsec \in 0 .. NS_PER_SEC - 1

(* Faulty variant of GetAbsTimeDiffUs: only the nanoseconds are compared.  *)
DiffWithinSecond(expected) == AbsInt(CDiv(Timespec(now).tv_nsec - expected.tv_nsec, NS_PER_US))

GetAbsTimeDiffUs(expected) ==
  LET current == Timespec(now)
  IN AbsInt((current.tv_sec - expected.tv_sec) * US_PER_SEC
              + CDiv(current.tv_nsec - expected.tv_nsec, NS_PER_US))

(* Faulty variant of Advance: the carry wraps the nanoseconds only.        *)
AdvanceWithoutCarry(ts) == [ts EXCEPT !.tv_nsec = (@ + SLOT_NS) % NS_PER_SEC]

Advance(ts) ==
  LET nsec == ts.tv_nsec + SLOT_NS
  IN IF nsec >= NS_PER_SEC
       THEN [tv_sec |-> ts.tv_sec + 1, tv_nsec |-> nsec % NS_PER_SEC]
       ELSE [tv_sec |-> ts.tv_sec, tv_nsec |-> nsec]

Lag == now - Ns(next)
(* Faulty variants of WithinJitter and LastSlot: one off at the boundary.  *)
StrictlyWithinJitter == GetAbsTimeDiffUs(next) < MAX_SLOT_JITTER_US
SlotAfterLast == SLOT_COUNT

WithinJitter == GetAbsTimeDiffUs(next) <= MAX_SLOT_JITTER_US
LastSlot == SLOT_COUNT - 1

-----------------------------------------------------------------------------
(* main reserves the controller on its stack and initialises nothing.      *)
Init ==
  /\ now \in StartNs
  /\ next \in StartTimes
  /\ epoch \in StartEpochs
  /\ slot = 0
  /\ pc = "init"
  /\ initialised = FALSE
  /\ interrupts = 0
  /\ anchor = [now |-> now, next |-> next, epoch |-> epoch, begun |-> 0]
  /\ cut = 0
  /\ lateRun = 0

(* controller_init sets epoch, and that only when comms_init succeeded;    *)
(* main enters its loop whatever it returns.                               *)
ControllerInit ==
  /\ pc = "init"
  /\ \E ok \in BOOLEAN :
       /\ initialised' = ok
       /\ epoch' = IF ok THEN 0 ELSE epoch
  /\ anchor' = [anchor EXCEPT !.epoch = epoch']
  /\ pc' = "main"
  /\ UNCHANGED <<now, next, slot, interrupts, cut, lateRun>>

(* main calls controller_step.                                             *)
StepBegin ==
  /\ pc = "main"
  /\ epoch - anchor.epoch < MaxEpochs
  /\ epoch' = epoch + 1
  /\ slot' = 0
  /\ pc' = "slot"
  /\ UNCHANGED <<now, next, initialised, interrupts, history>>

(* Deadlines the grid has passed since the loop was entered: one per slot  *)
(* of every epoch, less the slots of the epochs that broke off.            *)
SlotsBegun ==
  (epoch - anchor.epoch) * SLOT_COUNT - cut
    + CASE pc = "slot"  -> slot - SLOT_COUNT
        [] pc = "sleep" -> slot + 1 - SLOT_COUNT
        [] OTHER        -> 0

(* Where the deadline belongs: the anchor, and a slot for each slot since. *)
GridNs == Ns(anchor.next) + (SlotsBegun - anchor.begun) * SLOT_NS

(* The tail every slot shares: move the deadline on by one slot and call   *)
(* clock_nanosleep.                                                        *)
SlotDone ==
  /\ next' = Advance(next)
  /\ pc' = "sleep"
  /\ anchor' = IF Normalised(anchor.next) THEN anchor
               ELSE [anchor EXCEPT !.now = now', !.next = next', !.begun = SlotsBegun + 1]
  /\ UNCHANGED <<epoch, slot, initialised, interrupts, cut>>

RunHandler ==
  /\ pc = "slot"
  /\ WithinJitter
  /\ slot \in Enabled
  /\ \E d \in HandlerNs[slot] : now' = now + d
  /\ lateRun' = 0
  /\ SlotDone

(* On time, but no handler is compiled into this slot.                     *)
IdleSlot ==
  /\ pc = "slot"
  /\ WithinJitter
  /\ slot \notin Enabled
  /\ UNCHANGED now
  /\ lateRun' = 0
  /\ SlotDone

(* Faulty variant of SkipSlot: "continue" leaves the deadline where it is. *)
SkipWithoutAdvance ==
  /\ pc = "slot"
  /\ ~WithinJitter
  /\ lateRun' = IF Normalised(next) /\ Lag > 0 THEN lateRun + 1 ELSE 0
  /\ pc' = "sleep"
  /\ UNCHANGED <<now, next, epoch, slot, initialised, interrupts, anchor, cut>>

SkipSlot ==
  /\ pc = "slot"
  /\ ~WithinJitter
  /\ lateRun' = IF Normalised(next) /\ Lag > 0 THEN lateRun + 1 ELSE 0
  /\ UNCHANGED now
  /\ SlotDone

(* Faulty variants of WakeNs: the sleep comes before the deadline moves on,*)
(* and the sleep is relative.                                              *)
WakeAtSlotStart == {Later(now, Ns(next) - SLOT_NS) + l : l \in LatencyNs}
WakeRelative == {now + SLOT_NS + l : l \in LatencyNs}

(* clock_nanosleep returns 0, at once when the deadline is already past.   *)
WakeNs == {Later(now, Ns(next)) + l : l \in LatencyNs}

WakeInEpoch ==
  /\ pc = "sleep"
  /\ slot < LastSlot
  /\ Normalised(next)
  /\ now' \in WakeNs
  /\ slot' = slot + 1
  /\ pc' = "slot"
  /\ UNCHANGED <<next, epoch, initialised, interrupts, history>>

WakeAtEpochEnd ==
  /\ pc = "sleep"
  /\ slot = LastSlot
  /\ Normalised(next)
  /\ now' \in WakeNs
  /\ pc' = "main"
  /\ UNCHANGED <<next, epoch, slot, initialised, interrupts, history>>

(* clock_nanosleep fails: controller_step breaks off and returns           *)
(* ERROR_UNKNOWN, which main ignores.  A signal interrupts the sleep before*)
(* its deadline; an unnormalised deadline is refused at once.              *)
SleepFails ==
  /\ pc = "sleep"
  /\ cut' = cut + (LastSlot - slot)
  /\ pc' = "main"
  /\ UNCHANGED <<next, epoch, slot, initialised, anchor, lateRun>>

SleepInterrupted ==
  /\ Normalised(next)
  /\ interrupts < MaxInterrupts
  /\ interrupts' = interrupts + 1
  /\ now' \in now .. Ns(next) - 1
  /\ SleepFails

SleepRefused ==
  /\ ~Normalised(next)
  /\ SleepFails
  /\ UNCHANGED <<now, interrupts>>

(* The bound on controller_step calls, where the model stops looking.      *)
Horizon ==
  /\ pc = "main"
  /\ epoch - anchor.epoch = MaxEpochs
  /\ UNCHANGED vars

Next ==
  \/ ControllerInit
  \/ StepBegin
  \/ RunHandler
  \/ IdleSlot
  \/ SkipSlot
  \/ WakeInEpoch
  \/ WakeAtEpochEnd
  \/ SleepInterrupted
  \/ SleepRefused
  \/ Horizon

Spec == Init /\ [][Next]_vars

-----------------------------------------------------------------------------
(* Type invariant: the fields of controller_t and the histories have their *)
(* types, and the loop index of controller_step stays inside               *)
(* g_slot_handlers.                                                        *)
TypeOK ==
  /\ now \in Nat
  /\ next \in Timespecs
  /\ epoch \in Nat
  /\ slot \in Slots
  /\ pc \in {"init", "main", "slot", "sleep"}
  /\ initialised \in BOOLEAN
  /\ interrupts \in 0 .. MaxInterrupts
  /\ anchor \in [now : Nat, next : Timespecs, epoch : Nat, begun : Int]
  /\ cut \in Nat
  /\ lateRun \in Nat

(* No drift: whatever handlers take and however late sleeps return, the    *)
(* deadline is the anchor plus a whole number of slots, that number is the *)
(* one epoch and current_slot stand for, and the deadline is one the kernel*)
(* accepts.  From stack contents that are no time, this is so from the slot*)
(* on that makes the deadline a time.  (The carry of next_slot_start_time  *)
(* in controller_step.)                                                    *)
OnGrid ==
  Normalised(anchor.next) => Normalised(next) /\ Ns(next) = GridNs

(* controller_step never begins a slot before its deadline unless a sleep  *)
(* was interrupted or the first deadline that is a time lay in the future. *)
NeverEarly ==
  /\ Normalised(anchor.next)
  /\ anchor.now >= Ns(anchor.next)
  /\ interrupts = 0
  /\ pc # "sleep"
  => Lag >= 0

(* How late the loop can ever be: by the longest handler that began within *)
(* the jitter, or by what it was late when it began.                       *)
LateBudget ==
  Later((MAX_SLOT_JITTER_US + 1) * NS_PER_US + MaxHandlerNs,
        anchor.now - Ns(anchor.next))

(* An overrun costs a bounded number of slots: each skipped slot makes up  *)
(* for a slot less a latency, so the slots skipped in a row are at most    *)
(* those the lateness covers, and the handlers run again.  It holds when a *)
(* wake-up is itself never later than the jitter controller_step accepts.  *)
SkipsBounded ==
  /\ Normalised(anchor.next)
  /\ MaxLatencyNs <= MAX_SLOT_JITTER_US * NS_PER_US
  /\ MaxLatencyNs < SLOT_NS
  => (lateRun - 1) * (SLOT_NS - MaxLatencyNs) < LateBudget

(* A handler starts only within MAX_SLOT_JITTER_US, to the microsecond the *)
(* code measures in, of its own place on the absolute grid.                *)
HandlerOnGrid ==
  [][RunHandler /\ Normalised(anchor.next)
       => AbsInt(now - GridNs) < (MAX_SLOT_JITTER_US + 1) * NS_PER_US]_vars

(* A slot is given up only when it truly is out of its tolerance: the      *)
(* truncation in get_abs_time_diff_us never makes a punctual slot late.    *)
SkippedOnlyWhenOff ==
  [][SkipSlot => AbsInt(Lag) > MAX_SLOT_JITTER_US * NS_PER_US]_vars

-----------------------------------------------------------------------------
(* The abstract scheduler, seen through the lag and the slot that is next. *)
(* As long as the deadline is no time the ring is lost.                    *)
AtLoopHead == pc \in {"init", "main"}

Grid == INSTANCE SlotGrid WITH
  lag <- IF Normalised(anchor.next) THEN Lag ELSE 0,
  slot <- IF AtLoopHead THEN 0 ELSE slot,
  phase <- CASE ~Normalised(anchor.next) -> "lost"
             [] Normalised(anchor.next) /\ pc = "sleep" -> "sleep"
             [] OTHER -> "due",
  breaks <- interrupts,
  TightNs <- MAX_SLOT_JITTER_US * NS_PER_US,
  LooseNs <- (MAX_SLOT_JITTER_US + 1) * NS_PER_US,
  StartLags <- Int,
  MaxBreaks <- MaxInterrupts

(* An overrun delays the slots it reaches and no other: once a slot began  *)
(* without being late, only a slot some handler's longest run can push off *)
(* its deadline is ever late again, however overruns follow one another    *)
(* and whatever breaks off.  As above, wake-ups are within the jitter.     *)
OnlyOverrunsDelay ==
  /\ MaxLatencyNs <= MAX_SLOT_JITTER_US * NS_PER_US
  /\ MaxLatencyNs < SLOT_NS
  => [](pc = "slot" /\ Normalised(anchor.next) /\ Lag <= MAX_SLOT_JITTER_US * NS_PER_US
          => [](\A s \in Slots : pc = "slot" /\ slot = s /\ ~Grid!Exposed(s)
                  => Lag <= MAX_SLOT_JITTER_US * NS_PER_US))

(* controller_step implements SlotGrid: the timespec arithmetic adds       *)
(* nothing to and takes nothing from the abstract ring of deadlines,       *)
(* through interrupts, epochs that break off, and the broken-off epochs by *)
(* which stack contents that are no time become one.                       *)
ImplementsSlotGrid == Grid!Safety

-----------------------------------------------------------------------------
(* What the documents say of the loop.                                     *)

(* controller/README.md: when an epoch begins next_slot_start_time "was t0 *)
(* (from previous epoch or init)".  A grid anchored by controller_init     *)
(* makes the first slot of the first epoch punctual.                       *)
AnchoredAtInit ==
  initialised /\ pc = "slot" /\ slot = 0 /\ epoch = 1 => WithinJitter

(* controller/README.md: an epoch takes SLOT_COUNT * SLOT_TIME_US per      *)
(* controller_step "independent of how long handlers take": the next epoch *)
(* begins at its own deadline, give or take the latency of a sleep.        *)
EpochDuration ==
  pc = "slot" /\ slot = 0 /\ initialised /\ epoch > 1 => Lag <= MaxLatencyNs

=============================================================================
