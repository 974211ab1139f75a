------------------------------ MODULE SlotGrid ------------------------------
(***************************************************************************)
(* What the slot scheduler promises, without clocks, seconds or epochs: a  *)
(* ring of slots, and the lag of the present moment behind the deadline of *)
(* the slot at hand.  A handler runs only when its slot is nearly on time, *)
(* a slot is given up only when it is off, every slot moves the deadline   *)
(* by exactly one slot, and a sleep ends no earlier than its deadline      *)
(* unless it is broken off.  The microsecond in which the code may round   *)
(* either way is left open.  A ring that starts from no deadline at all is *)
(* lost until a slot 0 finds one.                                          *)
(*                                                                         *)
(* The lag is bounded although the clock is not, so the liveness of the    *)
(* scheduler is checked here, and ControllerStep is shown to implement it. *)
(***************************************************************************)
EXTENDS Integers

CONSTANTS
  SLOT_COUNT, SLOT_NS,
  TightNs,       \* a lag up to this one is always accepted
  LooseNs,       \* a lag from this one on is never accepted
  Enabled, HandlerNs, LatencyNs,
  StartLags,     \* the lag when the loop is entered, or finds its deadline
  MaxBreaks      \* bound: sleeps that are broken off

Slots == 0 .. SLOT_COUNT - 1

VARIABLES
  lag,    \* the clock less the deadline of the slot at hand, or slept for
  slot,   \* the slot at hand
  phase,  \* "due" when the slot is at hand, "sleep" after it, or "lost"
  breaks  \* sleeps broken off so far

vars == <<lag, slot, phase, breaks>>

Magnitude(x) == IF x < 0 THEN -x ELSE x

\* Faulty variant of Following: the ring does not close.
FollowingStays(s) == IF s = SLOT_COUNT - 1 THEN s ELSE s + 1

Following(s) == IF s = SLOT_COUNT - 1 THEN 0 ELSE s + 1

Init ==
  /\ lag \in StartLags
  /\ slot = 0
  /\ phase \in {"due", "lost"}
  /\ breaks = 0

(* A slot 0 of a lost ring moves to the first deadline that is a time.     *)
Recover ==
  /\ phase = "lost"
  /\ lag' \in StartLags
  /\ phase' = "sleep"
  /\ UNCHANGED <<slot, breaks>>

Pass(d) ==
  /\ phase = "due"
  /\ lag' = lag + d - SLOT_NS
  /\ phase' = "sleep"
  /\ UNCHANGED <<slot, breaks>>

Run(s) ==
  /\ slot = s
  /\ s \in Enabled
  /\ Magnitude(lag) < LooseNs
  /\ \E d \in HandlerNs[s] : Pass(d)

Idle ==
  /\ slot \notin Enabled
  /\ Magnitude(lag) < LooseNs
  /\ Pass(0)

Skip ==
  /\ Magnitude(lag) > TightNs
  /\ Pass(0)

(* Faulty variant of Wake: a late loop still sleeps for a whole slot.      *)
WakeRelative ==
  /\ phase = "sleep"
  /\ \E l \in LatencyNs : lag' = IF lag < 0 THEN l ELSE lag + SLOT_NS
  /\ slot' = Following(slot)
  /\ phase' = "due"
  /\ UNCHANGED breaks

Wake ==
  /\ phase = "sleep"
  /\ \E l \in LatencyNs : lag' = (IF lag < 0 THEN 0 ELSE lag) + l
  /\ slot' = Following(slot)
  /\ phase' = "due"
  /\ UNCHANGED breaks

(* A sleep is interrupted before its deadline and the epoch breaks off:    *)
(* the ring starts over at slot 0.                                         *)
BreakOff ==
  /\ phase = "sleep"
  /\ breaks < MaxBreaks
  /\ breaks' = breaks + 1
  /\ lag' \in lag .. -1
  /\ slot' = 0
  /\ phase' = "due"

Next ==
  \/ \E s \in Slots : Run(s)
  \/ Idle
  \/ Skip
  \/ Wake
  \/ BreakOff
  \/ Recover

Safety == Init /\ [][Next]_vars

(* main calls controller_step in an endless loop and handlers return: the  *)
(* loop always takes its next step; and as every call that is broken off   *)
(* adds a slot to the deadline, it is a time after finitely many of them.  *)
(* Nothing is promised about interrupts.                                   *)
Fairness ==
  /\ WF_vars((\E s \in Slots : Run(s)) \/ Idle \/ Skip)
  /\ WF_vars(Wake)
  /\ WF_vars(Recover)

Spec == Safety /\ Fairness

-----------------------------------------------------------------------------
(* Type invariant: the ring position is a slot, the lag an integer.        *)
TypeOK ==
  /\ lag \in Int
  /\ slot \in Slots
  /\ phase \in {"due", "sleep", "lost"}
  /\ breaks \in 0 .. MaxBreaks

(* The slots that the longest run of slot h can push off their deadline:   *)
(* those that come due while its handler still runs and those that are out *)
(* of tolerance when the slots between have made up for the rest.          *)
Distance(h, s) == IF s > h THEN s - h ELSE s - h + SLOT_COUNT

OverrunHits(h, s) ==
  \E d \in HandlerNs[h], l \in LatencyNs :
    LooseNs + d - Distance(h, s) * (SLOT_NS - l) > TightNs

Exposed(s) == \E h \in Enabled : OverrunHits(h, s)

(* An overrun starves no slot but those it covers: a handler that no other *)
(* handler's overrun reaches runs again and again, whatever the lag was    *)
(* when the loop was entered or found its deadline, and however the bounded*)
(* interrupts fall.                                                        *)
UnexposedHandlersRun ==
  \A s \in Slots : s \in Enabled /\ ~Exposed(s) => []<><<Run(s)>>_vars

(* The loop cannot stay late: after any lag some slot is on time again.    *)
CatchesUp == []<>(phase = "due" /\ Magnitude(lag) <= TightNs)

=============================================================================
