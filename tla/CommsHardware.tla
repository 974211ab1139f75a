---------------------------- MODULE CommsHardware ----------------------------
(***************************************************************************)
(* The Linux I2C backend (controller/src/comms_hardware.c) under the life  *)
(* cycle main, controller_init and controller_deinit give it.              *)
(*                                                                         *)
(* The bus is one descriptor of the process's table, in which events.log   *)
(* opens and closes another.  A transfer is one ioctl(I2C_RDWR): the       *)
(* kernel holds the adapter while it runs the messages of the set one by   *)
(* one, each may fail, and other processes with /dev/i2c-1 open have the   *)
(* bus at any other time.  The device keeps a register pointer between     *)
(* messages, whoever sent them.                                            *)
(*                                                                         *)
(* The handlers that will read sensors are not written yet: a handler is   *)
(* any sequence of reads and writes, one at a time, at any time after      *)
(* controller_init, whatever that returned.                                *)
(***************************************************************************)
EXTENDS Integers

CONSTANTS
  REGS, Values, Sizes,
  COMMS_BUFFER_SIZE,
  MAX_FD           \* bound: descriptors of the process

ASSUME RegisterAssumption == REGS \in Nat \ {0} /\ Sizes \subseteq Nat

ASSUME BufferAssumption ==
  /\ COMMS_BUFFER_SIZE \in Nat
  /\ COMMS_BUFFER_SIZE <= REGS
  /\ MAX_FD \in Nat

VARIABLES
  files,        \* descriptor -> "free", "bus" or "log"
  log,          \* the descriptor of g_events_log, or NoFd
  fd,           \* comms->_i2c_fd
  initialised,  \* comms->_initialized
  begun,        \* controller_init has run
  regs,         \* the device's registers
  pointer,      \* the device's register pointer
  locked,       \* our ioctl holds the adapter
  pc,           \* where the handler's call stands
  request, reply, got

descriptors == <<files, log, fd, initialised, begun>>
device == <<regs, pointer>>
call == <<pc, request, reply, got>>
vars == <<descriptors, device, locked, call>>

Fds == 0 .. MAX_FD
NoFd == -1

Stage == IF pc \in {"idle", "done"} THEN pc ELSE "called"

Bus == INSTANCE I2cRegisters WITH up <- begun /\ initialised, stage <- Stage

Regs == Bus!Regs

(* controller_t is an uninitialised local of main.                         *)
Init ==
  /\ files = [n \in Fds |-> "free"]
  /\ log = NoFd
  /\ fd \in Fds \cup {NoFd}
  /\ initialised \in BOOLEAN
  /\ begun = FALSE
  /\ regs \in [Regs -> Values]
  /\ pointer \in Regs
  /\ locked = FALSE
  /\ pc = "idle"
  /\ request = Bus!NoRequest
  /\ reply = "none"
  /\ got = Bus!NoBytes

-----------------------------------------------------------------------------
(* Opening and closing.                                                    *)

(* open returns the lowest free descriptor, if it succeeds.                *)
Lowest(table) == {n \in Fds : table[n] = "free" /\ \A m \in 0 .. n - 1 : table[m] # "free"}

comms_init(table) ==
  \/ /\ \E n \in Lowest(table) : files' = [table EXCEPT ![n] = "bus"] /\ fd' = n
     /\ initialised' = TRUE
  \/ /\ files' = table
     /\ fd' = NoFd
     /\ initialised' = FALSE

(* logging_init opens the log unless it is open, and may fail unnoticed;   *)
(* then the bus is opened.  Nothing initialises a bus that is up, and main *)
(* goes on to run handlers whatever controller_init returns.               *)
controller_init ==
  /\ pc = "idle"
  /\ begun => ~initialised
  /\ begun' = TRUE
  /\ \/ /\ log = NoFd
        /\ \E n \in Lowest(files) : log' = n /\ comms_init([files EXCEPT ![n] = "log"])
     \/ log' = log /\ comms_init(files)
  /\ UNCHANGED <<device, locked, call>>

(* Faulty variant of comms_deinit: the handle keeps the closed descriptor. *)
comms_deinit_stale ==
  IF initialised /\ fd >= 0
    THEN files' = [files EXCEPT ![fd] = "free"] /\ UNCHANGED <<fd, initialised>>
    ELSE UNCHANGED <<files, fd, initialised>>

comms_deinit ==
  IF initialised /\ fd >= 0
    THEN /\ files' = [files EXCEPT ![fd] = "free"]
         /\ fd' = NoFd
         /\ initialised' = FALSE
    ELSE UNCHANGED <<files, fd, initialised>>

controller_deinit ==
  /\ pc = "idle"
  /\ begun
  /\ comms_deinit
  /\ UNCHANGED <<log, begun, device, locked, call>>

logging_deinit ==
  /\ pc = "idle"
  /\ log # NoFd
  /\ files' = [files EXCEPT ![log] = "free"]
  /\ log' = NoFd
  /\ UNCHANGED <<fd, initialised, begun, device, locked, call>>

-----------------------------------------------------------------------------
(* comms_read_i2c and comms_write_i2c.                                     *)

Call(q) ==
  /\ pc = "idle"
  /\ begun
  /\ pc' = "called"
  /\ request' = q
  /\ reply' = "none"
  /\ got' = Bus!NoBytes
  /\ UNCHANGED <<descriptors, device, locked>>

Return(r) ==
  /\ pc' = "idle"
  /\ request' = Bus!NoRequest
  /\ reply' = r
  /\ UNCHANGED <<descriptors, got>>

Fits(q) == Bus!Size(q) \in 1 .. COMMS_BUFFER_SIZE
Accepted == Fits(request) /\ initialised /\ fd >= 0

Refuse ==
  /\ pc = "called"
  /\ ~Accepted
  /\ Return("error")
  /\ UNCHANGED <<device, locked>>

(* ioctl(I2C_RDWR) gets hold of the adapter.  OwnDescriptors says that fd  *)
(* is the bus's descriptor then, and the model has no step for another.    *)
Submit ==
  /\ pc = "called"
  /\ Accepted
  /\ files[fd] = "bus"
  /\ locked' = TRUE
  /\ pc' = "message"
  /\ UNCHANGED <<descriptors, device, request, reply, got>>

(* Faulty variant of SendRegister: the two messages are two ioctls.        *)
SendRegisterAlone ==
  /\ pc = "message"
  /\ request.op = "read"
  /\ pointer' = request.reg
  /\ pc' = "data"
  /\ locked' = FALSE
  /\ UNCHANGED <<descriptors, regs, request, reply, got>>

(* The first message of a read writes the register number.                 *)
SendRegister ==
  /\ pc = "message"
  /\ request.op = "read"
  /\ pointer' = request.reg
  /\ pc' = "data"
  /\ UNCHANGED <<descriptors, regs, locked, request, reply, got>>

(* The second message reads; the kernel copies the bytes to the caller.    *)
ReceiveData ==
  /\ pc = "data"
  /\ got' = Bus!Slice(pointer, request.size)
  /\ pointer' = (pointer + request.size) % REGS
  /\ pc' = "done"
  /\ locked' = FALSE
  /\ UNCHANGED <<descriptors, regs, request, reply>>

(* The one message of a write: the register number, then the data.         *)
SendData ==
  /\ pc = "message"
  /\ request.op = "write"
  /\ regs' = Bus!Stored(request.reg, request.data, Bus!Size(request))
  /\ pointer' = (request.reg + Bus!Size(request)) % REGS
  /\ pc' = "done"
  /\ locked' = FALSE
  /\ UNCHANGED <<descriptors, request, reply, got>>

(* The adapter cannot be had, the device does not acknowledge a byte, or   *)
(* the transfer times out: ioctl fails, wherever the messages stood.  A    *)
(* write has stored some of its bytes, and the pointer is anywhere.        *)
Fail ==
  /\ pc \in {"called", "message", "data"}
  /\ Accepted
  /\ \/ UNCHANGED regs
     \/ /\ pc = "message"
        /\ request.op = "write"
        /\ \E k \in 0 .. Bus!Size(request) : regs' = Bus!Stored(request.reg, request.data, k)
  /\ IF pc = "called" THEN UNCHANGED pointer ELSE pointer' \in Regs
  /\ locked' = FALSE
  /\ Return("error")

Succeed ==
  /\ pc = "done"
  /\ Return("ok")
  /\ UNCHANGED <<device, locked>>

(* Another process has the adapter: it writes a register, or moves the     *)
(* pointer and reads.                                                      *)
Other(r, v) ==
  /\ ~locked
  /\ regs' = [regs EXCEPT ![r] = v]
  /\ pointer' \in Regs
  /\ UNCHANGED <<descriptors, locked, call>>

Next ==
  \/ controller_init
  \/ controller_deinit
  \/ logging_deinit
  \/ \E q \in Bus!Requests : Call(q)
  \/ Refuse
  \/ Submit
  \/ SendRegister
  \/ ReceiveData
  \/ SendData
  \/ Fail
  \/ Succeed
  \/ \E r \in Regs, v \in Values : Other(r, v)

Spec == Init /\ [][Next]_vars

-----------------------------------------------------------------------------
(* Type invariant: the handle, the device and the call have their types.   *)
TypeOK ==
  /\ files \in [Fds -> {"free", "bus", "log"}]
  /\ log \in Fds \cup {NoFd}
  /\ fd \in Fds \cup {NoFd}
  /\ initialised \in BOOLEAN
  /\ begun \in BOOLEAN
  /\ regs \in [Regs -> Values]
  /\ pointer \in Regs
  /\ locked \in BOOLEAN
  /\ pc \in {"idle", "called", "message", "data", "done"}
  /\ request \in Bus!Requests \cup {Bus!NoRequest}
  /\ reply \in {"none", "ok", "error"}

(* The handle never names a descriptor it does not own, through failed     *)
(* initialisations that main ignores, deinitialisations and the log's      *)
(* coming and going: it is usable exactly while the table has one open     *)
(* bus, at its number; no descriptor leaks and none is closed twice.       *)
OwnDescriptors ==
  /\ begun => (initialised <=> fd # NoFd)
  /\ \A n \in Fds : files[n] = "bus" <=> begun /\ initialised /\ fd = n
  /\ \A n \in Fds : files[n] = "log" <=> log = n

(* Each accepted call reads or writes the device's registers at one        *)
(* instant, although a read is two messages and other processes move the   *)
(* register pointer; an unusable bus is never reported as a success.       *)
ImplementsRegisters == Bus!Spec

=============================================================================
