---------------------------- MODULE I2cRegisters ----------------------------
(***************************************************************************)
(* What comms_read_i2c and comms_write_i2c promise a slot handler: the     *)
(* registers of a device on the bus, read and written at one instant       *)
(* between the call and its return.  A call that reports success took      *)
(* effect, and only on a bus that is up; a failed read brings nothing; a   *)
(* failed write may have stored some of its bytes, in order.  Other        *)
(* processes use the same device between those instants.                   *)
(***************************************************************************)
EXTENDS Integers

CONSTANTS
  REGS,    \* registers of the device; its pointer wraps after the last
  Values,  \* what a register may hold
  Sizes    \* the sizes handlers ask for

VARIABLES
  up,       \* the bus is up
  regs,     \* the device's registers
  stage,    \* of the handler's call: "idle", "called" or "done"
  request,  \* what it was called with
  reply,    \* what the latest finished call returned
  got       \* the caller's buffer

vars == <<up, regs, stage, request, reply, got>>

Regs == 0 .. REGS - 1
Blocks == UNION {[0 .. n - 1 -> Values] : n \in Sizes}
Requests ==
  [op : {"read"}, reg : Regs, size : Sizes] \cup [op : {"write"}, reg : Regs, data : Blocks]
NoRequest == [op |-> "none"]
NoBytes == <<>>

Size(q) == IF q.op = "read" THEN q.size ELSE CHOOSE n \in Sizes : DOMAIN q.data = 0 .. n - 1

(* n registers from r on, and the registers after the first k bytes of a   *)
(* block were stored from r on: the device counts its pointer up.          *)
Slice(r, n) == [i \in 0 .. n - 1 |-> regs[(r + i) % REGS]]
Stored(r, data, k) == [x \in Regs |-> IF (x - r) % REGS < k THEN data[(x - r) % REGS] ELSE regs[x]]

Init ==
  /\ up = FALSE
  /\ regs \in [Regs -> Values]
  /\ stage = "idle"
  /\ request = NoRequest
  /\ reply = "none"
  /\ got = NoBytes

Switch ==
  /\ stage = "idle"
  /\ up' \in BOOLEAN
  /\ UNCHANGED <<regs, stage, request, reply, got>>

Call(q) ==
  /\ stage = "idle"
  /\ stage' = "called"
  /\ request' = q
  /\ reply' = "none"
  /\ got' = NoBytes
  /\ UNCHANGED <<up, regs>>

Read ==
  /\ up
  /\ stage = "called"
  /\ request.op = "read"
  /\ got' = Slice(request.reg, request.size)
  /\ stage' = "done"
  /\ UNCHANGED <<up, regs, request, reply>>

Write ==
  /\ up
  /\ stage = "called"
  /\ request.op = "write"
  /\ regs' = Stored(request.reg, request.data, Size(request))
  /\ stage' = "done"
  /\ UNCHANGED <<up, request, reply, got>>

Succeed ==
  /\ stage = "done"
  /\ stage' = "idle"
  /\ request' = NoRequest
  /\ reply' = "ok"
  /\ UNCHANGED <<up, regs, got>>

Fail ==
  /\ stage = "called"
  /\ \/ UNCHANGED regs
     \/ /\ up
        /\ request.op = "write"
        /\ \E k \in 0 .. Size(request) : regs' = Stored(request.reg, request.data, k)
  /\ stage' = "idle"
  /\ request' = NoRequest
  /\ reply' = "error"
  /\ UNCHANGED <<up, got>>

(* Another process on the bus writes a register, or reads some.            *)
Other(r, v) ==
  /\ regs' = [regs EXCEPT ![r] = v]
  /\ UNCHANGED <<up, stage, request, reply, got>>

Next ==
  \/ Switch
  \/ \E q \in Requests : Call(q)
  \/ Read
  \/ Write
  \/ Succeed
  \/ Fail
  \/ \E r \in Regs, v \in Values : Other(r, v)

Spec == Init /\ [][Next]_vars

=============================================================================
