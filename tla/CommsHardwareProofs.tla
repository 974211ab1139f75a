------------------------- MODULE CommsHardwareProofs -------------------------
(***************************************************************************)
(* Proofs about the hardware I2C backend, for every size of the register   *)
(* file, of the buffer and of the descriptor table.                        *)
(***************************************************************************)
EXTENDS CommsHardware, TLAPS

(* What a transfer under way relies on: it holds the adapter from its      *)
(* first message to its last, so the pointer stays where the first message *)
(* of a read put it.                                                       *)
Transfer ==
  /\ pc # "idle" => begun /\ request \in Bus!Requests
  /\ pc \in {"message", "data"} => Accepted
  /\ locked <=> pc \in {"message", "data"}
  /\ pc = "data" => request.op = "read" /\ pointer = request.reg

Inv == TypeOK /\ OwnDescriptors /\ Transfer

-----------------------------------------------------------------------------
(* What the operators of I2cRegisters return.                              *)

LEMMA SizeOfRequest == ASSUME NEW q \in Bus!Requests PROVE Bus!Size(q) \in Sizes
<1>1. CASE q.op = "read"
  BY <1>1 DEF Bus!Requests, Bus!Size
<1>2. CASE q.op # "read"
  <2>1. q.data \in Bus!Blocks
    BY <1>2 DEF Bus!Requests
  <2>2. PICK n \in Sizes : q.data \in [0 .. n - 1 -> Values]
    BY <2>1 DEF Bus!Blocks
  <2>3. DOMAIN q.data = 0 .. n - 1
    BY <2>2
  <2>4. QED BY <1>2, <2>3 DEF Bus!Size
<1>3. QED BY <1>1, <1>2

LEMMA WriteRequest ==
    ASSUME NEW q \in Bus!Requests, q.op = "write"
    PROVE  q.data \in [0 .. Bus!Size(q) - 1 -> Values] /\ q.reg \in Regs
<1>1. q.data \in Bus!Blocks /\ q.reg \in Regs
  BY DEF Bus!Requests, Regs
<1>2. PICK n \in Sizes : q.data \in [0 .. n - 1 -> Values]
  BY <1>1 DEF Bus!Blocks
<1>3. \E m \in Sizes : DOMAIN q.data = 0 .. m - 1
  BY <1>2
<1>4. DOMAIN q.data = 0 .. Bus!Size(q) - 1
  BY <1>3 DEF Bus!Size
<1>5. QED BY <1>1, <1>2, <1>4

LEMMA ReadRequest ==
    ASSUME NEW q \in Bus!Requests, q.op = "read"
    PROVE  q.reg \in Regs /\ q.size \in Sizes
BY DEF Bus!Requests, Regs

LEMMA InRegs == \A n \in Int : n % REGS \in Regs
BY RegisterAssumption DEF Regs, Bus!Regs

(* A block, or the beginning of one, leaves registers with values.         *)
LEMMA StoredRegs ==
    ASSUME regs \in [Regs -> Values], NEW q \in Bus!Requests, q.op = "write",
           NEW k \in 0 .. Bus!Size(q)
    PROVE  Bus!Stored(q.reg, q.data, k) \in [Regs -> Values]
<1>1. q.data \in [0 .. Bus!Size(q) - 1 -> Values] /\ q.reg \in Regs /\ Bus!Size(q) \in Nat
  BY WriteRequest, SizeOfRequest, RegisterAssumption
<1>2. ASSUME NEW x \in Regs, (x - q.reg) % REGS < k PROVE q.data[(x - q.reg) % REGS] \in Values
  <2>1. (x - q.reg) % REGS \in Regs
    <3>1. x - q.reg \in Int
      BY <1>1 DEF Regs, Bus!Regs
    <3>2. QED BY <3>1, InRegs
  <2> DEFINE i == (x - q.reg) % REGS
             n == Bus!Size(q)
  <2>2. i \in Nat /\ i < k /\ k \in 0 .. n /\ n \in Nat
    <3>1. i \in Nat
      BY <2>1 DEF Regs, Bus!Regs
    <3>2. QED BY <1>1, <1>2, <3>1
  <2> HIDE DEF i, n
  <2>2a. i \in 0 .. n - 1
    BY <2>2
  <2>3. QED BY <1>1, <2>2a DEF i, n
<1>3. QED BY <1>2 DEF Bus!Stored, Regs

-----------------------------------------------------------------------------
LEMMA InitInv == Init => Inv
<1> SUFFICES ASSUME Init PROVE Inv
  OBVIOUS
<1>1. TypeOK
  BY DEF Init, TypeOK
<1>2. OwnDescriptors /\ Transfer
  BY BufferAssumption DEF Init, OwnDescriptors, Transfer, NoFd, Fds
<1>3. QED BY <1>1, <1>2 DEF Inv

(* Opening takes a free descriptor of the table it is given.               *)
LEMMA OpenKeepsTable ==
    ASSUME NEW table \in [Fds -> {"free", "log"}], comms_init(table)
    PROVE  /\ files' \in [Fds -> {"free", "bus", "log"}]
           /\ fd' \in Fds \cup {NoFd}
           /\ initialised' \in BOOLEAN
           /\ initialised' <=> fd' # NoFd
           /\ \A n \in Fds : files'[n] = "bus" <=> initialised' /\ fd' = n
           /\ \A n \in Fds : files'[n] = "log" <=> table[n] = "log"
<1>1. ASSUME NEW m \in Lowest(table), files' = [table EXCEPT ![m] = "bus"], fd' = m,
             initialised' = TRUE
      PROVE  /\ files' \in [Fds -> {"free", "bus", "log"}]
             /\ m \in Fds
             /\ m # NoFd
             /\ \A n \in Fds : files'[n] = "bus" <=> m = n
             /\ \A n \in Fds : files'[n] = "log" <=> table[n] = "log"
  BY <1>1, BufferAssumption DEF Lowest, Fds, NoFd
<1>2. ASSUME files' = table, fd' = NoFd, initialised' = FALSE
      PROVE  /\ files' \in [Fds -> {"free", "bus", "log"}]
             /\ \A n \in Fds : files'[n] # "bus"
  BY <1>2
<1>3. QED BY <1>1, <1>2 DEF comms_init

LEMMA ClosingKeepsTable ==
    ASSUME TypeOK, OwnDescriptors, begun, comms_deinit
    PROVE  /\ files' \in [Fds -> {"free", "bus", "log"}]
           /\ fd' = NoFd
           /\ initialised' = FALSE
           /\ \A n \in Fds : files'[n] # "bus"
           /\ \A n \in Fds : files'[n] = "log" <=> log = n
BY BufferAssumption DEF comms_deinit, TypeOK, OwnDescriptors, Fds, NoFd

LEMMA StepInv == Inv /\ [Next]_vars => Inv'
<1> SUFFICES ASSUME Inv, [Next]_vars PROVE Inv'
  OBVIOUS
<1> USE DEF Inv
<1>1. CASE controller_init
  <2>1. /\ pc' = "idle" /\ pc = "idle" /\ begun' = TRUE
        /\ UNCHANGED <<regs, pointer, locked, request, reply>>
    BY <1>1 DEF controller_init, device, call
  <2>2. ~(begun /\ initialised) /\ \A n \in Fds : files[n] \in {"free", "log"}
    BY <1>1 DEF controller_init, OwnDescriptors, TypeOK
  <2> DEFINE Table == [Fds -> {"free", "log"}]
             Given(table) == /\ comms_init(table)
                             /\ log' \in Fds \cup {NoFd}
                             /\ \A n \in Fds : table[n] = "log" <=> log' = n
  <2>3. \E table \in Table : Given(table)
    <3>1. files \in Table
      BY <2>2 DEF TypeOK
    <3>2. CASE log' = log /\ comms_init(files)
      BY <3>1, <3>2 DEF TypeOK, OwnDescriptors
    <3>3. ASSUME NEW n \in Lowest(files), log = NoFd, log' = n,
                 comms_init([files EXCEPT ![n] = "log"])
          PROVE  \E table \in Table : Given(table)
      <4>1. n \in Fds /\ n # NoFd
        BY BufferAssumption DEF Lowest, Fds, NoFd
      <4>2. [files EXCEPT ![n] = "log"] \in Table
        BY <3>1, <4>1
      <4>3. \A m \in Fds : [files EXCEPT ![n] = "log"][m] = "log" <=> m = n
        BY <3>1, <3>3, <4>1, BufferAssumption DEF OwnDescriptors, Fds, NoFd
      <4>4. Given([files EXCEPT ![n] = "log"])
        BY <3>3, <4>1, <4>3
      <4>5. QED BY <4>2, <4>4
    <3>4. QED BY <1>1, <3>2, <3>3 DEF controller_init
  <2>4. PICK table \in Table : Given(table)
    BY <2>3
  <2>5. QED BY <2>1, <2>4, OpenKeepsTable DEF TypeOK, OwnDescriptors, Transfer
<1>2. CASE controller_deinit
  BY <1>2, ClosingKeepsTable
  DEF controller_deinit, TypeOK, OwnDescriptors, Transfer, device, call
<1>3. CASE logging_deinit
  BY <1>3, BufferAssumption
  DEF logging_deinit, TypeOK, OwnDescriptors, Transfer, device, call, Fds, NoFd
<1>4. ASSUME NEW q \in Bus!Requests, Call(q) PROVE Inv'
  BY <1>4 DEF Call, TypeOK, OwnDescriptors, Transfer, descriptors, device
<1>5. CASE Refuse
  BY <1>5 DEF Refuse, Return, TypeOK, OwnDescriptors, Transfer, descriptors, device
<1>6. CASE Submit
  BY <1>6 DEF Submit, Accepted, TypeOK, OwnDescriptors, Transfer, descriptors, device
<1>7. CASE SendRegister
  <2>1. request.reg \in Regs
    BY <1>7 DEF SendRegister, Transfer, Bus!Requests, Regs
  <2>2. QED
    BY <1>7, <2>1 DEF SendRegister, Accepted, TypeOK, OwnDescriptors, Transfer, descriptors
<1>8. CASE ReceiveData
  <2>1. request.size \in Nat
    BY <1>8, ReadRequest, RegisterAssumption DEF ReceiveData, Transfer
  <2>2. pointer' \in Regs
    <3>1. pointer + request.size \in Int
      BY <2>1 DEF TypeOK, Regs, Bus!Regs
    <3>2. QED BY <1>8, <3>1, InRegs DEF ReceiveData
  <2>3. QED
    BY <1>8, <2>2 DEF ReceiveData, TypeOK, OwnDescriptors, Transfer, descriptors
<1>9. CASE SendData
  <2>1. request \in Bus!Requests /\ request.op = "write"
    BY <1>9 DEF SendData, Transfer
  <2>1a. Bus!Size(request) \in Nat
    BY <2>1, SizeOfRequest, RegisterAssumption
  <2>2. regs' \in [Regs -> Values]
    BY <1>9, <2>1, <2>1a, StoredRegs DEF SendData, TypeOK
  <2>3. pointer' \in Regs
    <3>1. request.reg + Bus!Size(request) \in Int
      BY <2>1, <2>1a, WriteRequest DEF Regs, Bus!Regs
    <3>2. QED BY <1>9, <3>1, InRegs DEF SendData
  <2>4. QED
    BY <1>9, <2>2, <2>3 DEF SendData, TypeOK, OwnDescriptors, Transfer, descriptors
<1>10. CASE Fail
  <2>1. regs' \in [Regs -> Values]
    BY <1>10, StoredRegs DEF Fail, TypeOK, Transfer
  <2>2. pointer' \in Regs
    BY <1>10 DEF Fail, TypeOK
  <2>3. QED
    BY <1>10, <2>1, <2>2 DEF Fail, Return, TypeOK, OwnDescriptors, Transfer, descriptors
<1>11. CASE Succeed
  BY <1>11 DEF Succeed, Return, TypeOK, OwnDescriptors, Transfer, descriptors, device
<1>12. ASSUME NEW r \in Regs, NEW v \in Values, Other(r, v) PROVE Inv'
  BY <1>12 DEF Other, Accepted, TypeOK, OwnDescriptors, Transfer, descriptors, call
<1>13. CASE UNCHANGED vars
  BY <1>13
  DEF vars, descriptors, device, call, Accepted, TypeOK, OwnDescriptors, Transfer
<1>14. QED
  BY <1>1, <1>2, <1>3, <1>4, <1>5, <1>6, <1>7, <1>8, <1>9, <1>10, <1>11, <1>12, <1>13
  DEF Next

LEMMA Invariance == Spec => []Inv
BY InitInv, StepInv, PTL DEF Spec

(* The handle, the device and the call keep their types.                   *)
THEOREM TypeCorrect == Spec => []TypeOK
<1>1. Inv => TypeOK BY DEF Inv
<1>2. QED BY <1>1, Invariance, PTL

(* comms_deinit never closes, and a transfer never uses, a descriptor that *)
(* is not the bus's; none leaks.                                           *)
THEOREM DescriptorsAreOwn == Spec => []OwnDescriptors
<1>1. Inv => OwnDescriptors BY DEF Inv
<1>2. QED BY <1>1, Invariance, PTL

-----------------------------------------------------------------------------
LEMMA InitRegisters == Init => Bus!Init
BY DEF Init, Bus!Init, Stage, Regs

LEMMA StepRegisters == Inv /\ [Next]_vars => [Bus!Next]_(Bus!vars)
<1> SUFFICES ASSUME Inv, [Next]_vars PROVE [Bus!Next]_(Bus!vars)
  OBVIOUS
<1>1. CASE controller_init
  <2>1. (begun /\ initialised)' \in BOOLEAN
    BY <1>1, StepInv DEF Inv, TypeOK
  <2>2. Bus!Switch
    BY <1>1, <2>1 DEF controller_init, Bus!Switch, Stage, device, call
  <2>3. QED BY <2>2 DEF Bus!Next
<1>2. CASE controller_deinit
  <2>1. (begun /\ initialised)' \in BOOLEAN
    BY <1>2, StepInv DEF Inv, TypeOK
  <2>2. Bus!Switch
    BY <1>2, <2>1 DEF controller_deinit, Bus!Switch, Stage, device, call
  <2>3. QED BY <2>2 DEF Bus!Next
<1>3. CASE logging_deinit
  BY <1>3 DEF logging_deinit, Bus!vars, Stage, device, call
<1>4. ASSUME NEW q \in Bus!Requests, Call(q) PROVE Bus!Next
  <2>1. Bus!Call(q)
    BY <1>4 DEF Call, Bus!Call, Stage, descriptors, device
  <2>2. QED BY <2>1 DEF Bus!Next
<1>5. CASE Refuse
  <2>1. Bus!Fail
    BY <1>5 DEF Refuse, Return, Bus!Fail, Stage, descriptors, device
  <2>2. QED BY <2>1 DEF Bus!Next
<1>6. CASE Submit
  BY <1>6 DEF Submit, Bus!vars, Stage, descriptors, device
<1>7. CASE SendRegister
  BY <1>7 DEF SendRegister, Bus!vars, Stage, descriptors
<1>8. CASE ReceiveData
  <2>1. Bus!Read
    BY <1>8 DEF ReceiveData, Bus!Read, Stage, descriptors, Inv, Transfer, Accepted
  <2>2. QED BY <2>1 DEF Bus!Next
<1>9. CASE SendData
  <2>1. Bus!Write
    BY <1>9 DEF SendData, Bus!Write, Stage, descriptors, Inv, Transfer, Accepted
  <2>2. QED BY <2>1 DEF Bus!Next
<1>10. CASE Fail
  <2>1. Bus!Fail
    BY <1>10 DEF Fail, Return, Bus!Fail, Stage, descriptors, Inv, Transfer, Accepted
  <2>2. QED BY <2>1 DEF Bus!Next
<1>11. CASE Succeed
  <2>1. Bus!Succeed
    BY <1>11 DEF Succeed, Return, Bus!Succeed, Stage, descriptors, device
  <2>2. QED BY <2>1 DEF Bus!Next
<1>12. ASSUME NEW r \in Regs, NEW v \in Values, Other(r, v) PROVE Bus!Next
  <2>1. Bus!Other(r, v)
    BY <1>12 DEF Other, Bus!Other, Stage, descriptors, call
  <2>2. QED BY <2>1 DEF Bus!Next, Regs
<1>13. CASE UNCHANGED vars
  BY <1>13 DEF vars, Bus!vars, Stage, descriptors, device, call
<1>14. QED
  BY <1>1, <1>2, <1>3, <1>4, <1>5, <1>6, <1>7, <1>8, <1>9, <1>10, <1>11, <1>12, <1>13
  DEF Next

(* A handler's reads and writes are atomic on the device's registers.      *)
THEOREM HardwareImplementsRegisters == Spec => ImplementsRegisters
BY InitRegisters, StepRegisters, Invariance, PTL DEF Spec, ImplementsRegisters, Bus!Spec

=============================================================================
