------------------------------ MODULE SimTape ------------------------------
(***************************************************************************)
(* What a driver may rely on when it reads sensors through the simulated   *)
(* I2C bus: each device is a tape of recorded frames.  A read hands out a  *)
(* part of the frame under the head and moves the tape on by one frame, a  *)
(* write overwrites a part of the frame under the head and leaves the head *)
(* where it is, an operation may fail, and the tape is wound back only     *)
(* while the bus is down.  A failure never moves the head; a write that    *)
(* fails may have overwritten a part of the frame all the same.            *)
(***************************************************************************)
EXTENDS Integers, Sequences

CONSTANTS
    Devices,
    FrameLen,   \* device -> bytes of a frame
    Bytes,      \* the values of a byte
    Files       \* device -> the files it may find (see CommsSim)

VARIABLES
    on,         \* the bus is up
    disk,       \* device -> its file
    pos,        \* device -> frames handed out since the tape was wound back
    answer      \* what the latest operation returned

vars == <<on, disk, pos, answer>>

Error == [status |-> "error"]
Done == [status |-> "ok"]
Data(bytes) == [status |-> "ok", bytes |-> bytes]

(* A part of a frame: "count" bytes from "first" on.                       *)
Windows(d) ==
    {w \in [first : 0 .. FrameLen[d] - 1, count : 1 .. FrameLen[d]] :
        w.first + w.count <= FrameLen[d]}

Part(frame, w) == [i \in 0 .. w.count - 1 |-> frame[w.first + i]]

Overwritten(frame, w, bytes) ==
    [i \in DOMAIN frame |->
        IF i \in w.first .. w.first + w.count - 1 THEN bytes[i - w.first] ELSE frame[i]]

Init ==
    /\ on = FALSE
    /\ disk \in {f \in [Devices -> UNION {Files[d] : d \in Devices}] :
                   \A d \in Devices : f[d] \in Files[d]}
    /\ pos = [d \in Devices |-> 0]
    /\ answer = Error

Up ==
    /\ ~on
    /\ on' = TRUE
    /\ answer' = Done
    /\ UNCHANGED <<disk, pos>>

Down ==
    /\ on' = FALSE
    /\ pos' = [d \in Devices |-> 0]
    /\ answer' = Done
    /\ UNCHANGED disk

Take(d, w) ==
    /\ on
    /\ pos[d] < Len(disk[d].frames)
    /\ answer' = Data(Part(disk[d].frames[pos[d] + 1], w))
    /\ pos' = [pos EXCEPT ![d] = @ + 1]
    /\ UNCHANGED <<on, disk>>

Put(d, w, bytes) ==
    /\ on
    /\ pos[d] < Len(disk[d].frames)
    /\ disk' = [disk EXCEPT ![d].frames[pos[d] + 1] = Overwritten(@, w, bytes)]
    /\ answer' \in {Done, Error}
    /\ UNCHANGED <<on, pos>>

Fail ==
    /\ answer' = Error
    /\ UNCHANGED <<on, disk, pos>>

NewTape(d, file) ==
    /\ ~on
    /\ disk' = [disk EXCEPT ![d] = file]
    /\ UNCHANGED <<on, pos, answer>>

Next ==
    \/ Up
    \/ Down
    \/ Fail
    \/ \E d \in Devices :
         \/ \E w \in Windows(d) :
              \/ Take(d, w)
              \/ \E bytes \in [0 .. w.count - 1 -> Bytes] : Put(d, w, bytes)
         \/ \E file \in Files[d] : NewTape(d, file)

Spec == Init /\ [][Next]_vars
============================================================================
