--------------------------- MODULE CommsSimProofs ---------------------------
(***************************************************************************)
(* Proofs about CommsSim for every set of devices, frame length, counter   *)
(* width and set of data files.                                            *)
(***************************************************************************)
EXTENDS CommsSim, TLAPS

USE DeviceAssumption, FileAssumption

LEMMA ModSmall ==
    ASSUME NEW m \in Nat, NEW n \in Nat, m < n
    PROVE  m % n = m
<1>1. m \div n \in Int /\ m % n \in 0 .. n - 1 /\ m = n * (m \div n) + (m % n)
  OBVIOUS
<1> DEFINE q == m \div n
           r == m % n
<1> HIDE DEF q, r
<1>2. q \in Int /\ r \in 0 .. n - 1 /\ m = n * q + r
  BY <1>1 DEF q, r
<1>3. ASSUME q >= 1 PROVE FALSE
  <2>1. n * q >= n
    BY <1>2, <1>3
  <2>2. QED BY <1>2, <2>1
<1>4. ASSUME q <= -1 PROVE FALSE
  <2>1. n * q <= -n
    BY <1>2, <1>4
  <2>2. QED BY <1>2, <2>1
<1>5. q = 0
  BY <1>2, <1>3, <1>4
<1>6. r = m
  BY <1>2, <1>5
<1>7. QED BY <1>6 DEF r

(* The three invariants together are inductive.                            *)
Inv == TypeOK /\ NoHandleLeaks /\ DisconnectedWhenSpent

LEMMA InitInv == Init => Inv
<1> SUFFICES ASSUME Init PROVE Inv
  OBVIOUS
<1>1. 0 \in 0 .. UINT8_MODULUS - 1
  OBVIOUS
<1>2. Cleared \in DeviceRecords /\ ~Cleared.loaded
  BY <1>1 DEF Cleared, DeviceRecords
<1>3. device \in [Devices -> DeviceRecords] /\ handles \in [Devices -> Nat]
  BY <1>2 DEF Init
<1>4. DOMAIN disk = Devices /\ \A d \in Devices : disk[d] \in Files[d]
  BY DEF Init
<1>5. TypeOK
  BY <1>3, <1>4 DEF Init, TypeOK, Error
<1>6. NoHandleLeaks /\ DisconnectedWhenSpent
  BY <1>2 DEF Init, NoHandleLeaks, DisconnectedWhenSpent
<1>7. QED BY <1>5, <1>6 DEF Inv

(* What an access that gets past sim_ensure_device finds.                  *)
LEMMA FoundDevice ==
    ASSUME Inv, NEW d \in Devices, Ensured(d)
    PROVE  /\ Found(d) \in DeviceRecords
           /\ Found(d).loaded
           /\ Found(d).frame_count = Len(disk[d].frames)
           /\ Found(d).line_index <= Found(d).frame_count
           /\ Found(d).disconnected <=> Found(d).line_index = Found(d).frame_count
<1>1. CASE device[d].loaded
  BY <1>1 DEF Inv, TypeOK, DisconnectedWhenSpent, Found, DeviceRecords
<1>2. CASE ~device[d].loaded
  <2>1. Playable(disk[d]) /\ Found(d) = Rewound(disk[d])
    BY <1>2 DEF Ensured, Found
  <2>2. Len(disk[d].frames) \in 1 .. UINT8_MODULUS - 1
    BY <2>1 DEF Playable
  <2>3. Len(disk[d].frames) % UINT8_MODULUS = Len(disk[d].frames)
    <3>1. Len(disk[d].frames) \in Nat /\ Len(disk[d].frames) < UINT8_MODULUS
      BY <2>2
    <3>2. QED BY <3>1, ModSmall
  <2>4. Found(d) = [loaded |-> TRUE, disconnected |-> FALSE,
                    frame_count |-> Len(disk[d].frames), line_index |-> 0]
    BY <2>1, <2>3 DEF Rewound
  <2>5. QED BY <2>2, <2>4 DEF DeviceRecords
<1>3. QED BY <1>1, <1>2

(* The cursor of a read that is served does not wrap.                      *)
LEMMA ReadMovesOn ==
    ASSUME Inv, NEW d \in Devices, Ensured(d), ~Spent(Found(d))
    PROVE  LET next == (Found(d).line_index + 1) % UINT8_MODULUS
           IN  next = Found(d).line_index + 1 /\ next \in 0 .. Found(d).frame_count
<1>1. /\ Found(d).line_index \in 0 .. UINT8_MODULUS - 1
      /\ Found(d).frame_count \in 0 .. UINT8_MODULUS - 1
  BY FoundDevice DEF DeviceRecords
<1>2. Found(d).line_index < Found(d).frame_count
  BY <1>1 DEF Spent
<1>3. (Found(d).line_index + 1) % UINT8_MODULUS = Found(d).line_index + 1
  <2>1. Found(d).line_index + 1 \in Nat /\ Found(d).line_index + 1 < UINT8_MODULUS
    BY <1>1, <1>2
  <2>2. QED BY <2>1, ModSmall
<1>4. QED BY <1>1, <1>2, <1>3

(* An access leaves exactly one file open for the device it loads.         *)
LEMMA AccessKeepsHandles ==
    ASSUME Inv, NEW d \in Devices, NEW found \in DeviceRecords, found.loaded,
           Access(d, found)
    PROVE  /\ initialised' \in BOOLEAN
           /\ device' \in [Devices -> DeviceRecords]
           /\ handles' \in [Devices -> Nat]
           /\ NoHandleLeaks'
BY DEF Inv, TypeOK, NoHandleLeaks, Access, Opened

(* A write that is served is served for fewer bytes too.                   *)
LEMMA ShorterIsServed ==
    ASSUME NEW d \in Devices, NEW reg \in Registers, NEW size \in 1 .. FrameLen[d],
           Served(d, reg, size + 1)
    PROVE  Served(d, reg, size)
BY DEF Served, Fits

(* What fwrite stores, of a write that fits, leaves the invariant alone.   *)
LEMMA StoringKeepsInv ==
    ASSUME Inv, NEW d \in Devices, NEW reg \in Registers, NEW size \in 1 .. FrameLen[d],
           NEW bytes \in [0 .. size - 1 -> Bytes],
           Served(d, reg, size), fwrite(d, reg, size, bytes), reply' \in {Done, Error}
    PROVE  Inv'
<1> DEFINE k == Found(d).line_index + 1
           old == disk[d].frames[k]
           new == [i \in DOMAIN old |->
                     IF i \in reg .. reg + size - 1 THEN bytes[i - reg] ELSE old[i]]
<1>1. Access(d, Found(d)) /\ Ensured(d) /\ ~Spent(Found(d)) /\ disk[d] \in AnyFile(d)
  BY DEF fwrite, Access, Served, Inv, TypeOK
<1>2. k \in 1 .. Len(disk[d].frames) /\ disk[d].frames \in Seq(Frames(d))
  BY <1>1, FoundDevice DEF Spent, DeviceRecords, AnyFile
<1>3. new \in Frames(d)
  <2>1. old \in Frames(d)
    BY <1>2
  <2>2. DOMAIN old = 0 .. FrameLen[d] - 1
    BY <2>1 DEF Frames
  <2>3. ASSUME NEW i \in 0 .. FrameLen[d] - 1
        PROVE  (IF i \in reg .. reg + size - 1 THEN bytes[i - reg] ELSE old[i]) \in Bytes
    <3>1. CASE i \in reg .. reg + size - 1
      <4>1. i - reg \in 0 .. size - 1
        BY <3>1, <2>3
      <4>2. QED BY <3>1, <4>1
    <3>2. CASE i \notin reg .. reg + size - 1
      BY <3>2, <2>1, <2>3 DEF Frames
    <3>3. QED BY <3>1, <3>2
  <2>4. QED BY <2>2, <2>3 DEF Frames
<1>4. disk' = [disk EXCEPT ![d].frames[k] = new]
  BY DEF fwrite
<1> HIDE DEF k, new
<1>5. /\ [disk[d].frames EXCEPT ![k] = new] \in Seq(Frames(d))
      /\ Len([disk[d].frames EXCEPT ![k] = new]) = Len(disk[d].frames)
  BY <1>2, <1>3
<1>6. /\ disk'[d] \in AnyFile(d)
      /\ Len(disk'[d].frames) = Len(disk[d].frames)
      /\ \A e \in Devices \ {d} : disk'[e] = disk[e]
      /\ DOMAIN disk' = Devices
  BY <1>1, <1>4, <1>5 DEF AnyFile, Inv, TypeOK
<1>7. TypeOK' /\ NoHandleLeaks'
  <2>1. Found(d) \in DeviceRecords /\ Found(d).loaded
    BY <1>1, FoundDevice
  <2>2. \A e \in Devices : disk'[e] \in AnyFile(e)
    BY <1>6 DEF Inv, TypeOK
  <2>3. reply'.status \in {"ok", "error"}
    BY DEF Done, Error
  <2>4. QED BY <1>1, <1>6, <2>1, <2>2, <2>3, AccessKeepsHandles DEF TypeOK
<1>8. DisconnectedWhenSpent'
  BY <1>1, <1>6, FoundDevice DEF Access, Inv, TypeOK, DisconnectedWhenSpent
<1>9. QED BY <1>7, <1>8 DEF Inv

LEMMA StepInv == Inv /\ [Next]_vars => Inv'
<1> SUFFICES ASSUME Inv, [Next]_vars PROVE Inv'
  OBVIOUS
<1>1. CASE comms_init
  BY <1>1 DEF Inv, TypeOK, NoHandleLeaks, DisconnectedWhenSpent, comms_init, Cleared,
              DeviceRecords, Done
<1>2. CASE comms_deinit
  <2>1. device' \in [Devices -> DeviceRecords]
    BY <1>2 DEF comms_deinit, Inv, TypeOK, DeviceRecords
  <2>2. \A d \in Devices : ~device'[d].loaded /\ handles'[d] = 0
    BY <1>2 DEF comms_deinit, Inv, TypeOK, DeviceRecords, NoHandleLeaks
  <2>3. handles' \in [Devices -> Nat]
    BY <1>2, <2>2 DEF comms_deinit
  <2>4. TypeOK'
    BY <1>2, <2>1, <2>3 DEF comms_deinit, Inv, TypeOK, Done
  <2>5. NoHandleLeaks' /\ DisconnectedWhenSpent'
    BY <2>2 DEF NoHandleLeaks, DisconnectedWhenSpent
  <2>6. QED BY <2>4, <2>5 DEF Inv
<1>2a. CASE AlreadyDown
  BY <1>2a DEF Inv, TypeOK, NoHandleLeaks, DisconnectedWhenSpent, AlreadyDown, Done
<1>3. CASE Refused
  BY <1>3 DEF Inv, TypeOK, NoHandleLeaks, DisconnectedWhenSpent, Refused, Error
<1>4. ASSUME NEW d \in Devices, LoadFails(d) PROVE Inv'
  BY <1>4 DEF Inv, TypeOK, NoHandleLeaks, DisconnectedWhenSpent, LoadFails, Cleared,
              DeviceRecords, Error
<1>5. ASSUME NEW d \in Devices, AccessFails(d) PROVE Inv'
  <2> DEFINE found == [Found(d) EXCEPT !.disconnected = @ \/ Spent(Found(d))]
  <2>1. Access(d, found) /\ Ensured(d)
    BY <1>5 DEF AccessFails, Access
  <2>2. /\ found \in DeviceRecords /\ found.loaded
        /\ found.frame_count = Len(disk[d].frames)
        /\ found.line_index <= found.frame_count
        /\ found.disconnected <=> found.line_index = found.frame_count
    BY <2>1, FoundDevice DEF Spent, DeviceRecords
  <2> HIDE DEF found
  <2>3. TypeOK' /\ NoHandleLeaks'
    BY <1>5, <2>1, <2>2, AccessKeepsHandles DEF AccessFails, Inv, TypeOK, Error
  <2>4. DisconnectedWhenSpent'
    BY <1>5, <2>1, <2>2 DEF AccessFails, Access, Inv, TypeOK, DisconnectedWhenSpent
  <2>5. QED BY <2>3, <2>4 DEF Inv
<1>6. ASSUME NEW d \in Devices, NEW reg \in Registers, NEW size \in 1 .. FrameLen[d],
             comms_read_i2c(d, reg, size)
      PROVE  Inv'
  <2> DEFINE next == (Found(d).line_index + 1) % UINT8_MODULUS
             found == [Found(d) EXCEPT !.line_index = next,
                                       !.disconnected = next >= Found(d).frame_count]
  <2>1. Access(d, found) /\ Ensured(d) /\ ~Spent(Found(d))
    BY <1>6 DEF comms_read_i2c, Access, Served
  <2>2. Found(d) \in DeviceRecords /\ Found(d).loaded
        /\ Found(d).frame_count = Len(disk[d].frames)
    BY <2>1, FoundDevice
  <2>3. next = Found(d).line_index + 1 /\ next \in 0 .. Found(d).frame_count
    BY <2>1, ReadMovesOn
  <2> HIDE DEF next
  <2>3a. /\ found \in DeviceRecords /\ found.loaded
         /\ found.frame_count = Len(disk[d].frames)
         /\ found.line_index <= found.frame_count
         /\ found.disconnected <=> found.line_index = found.frame_count
    <3>1. next \in 0 .. UINT8_MODULUS - 1
      BY <2>2, <2>3 DEF DeviceRecords
    <3> DEFINE r == Found(d)
    <3>1a. r \in DeviceRecords /\ r.loaded /\ r.frame_count = Len(disk[d].frames)
      BY <2>2
    <3> HIDE DEF r
    <3>1b. ASSUME NEW c \in BOOLEAN, NEW f, f = [r EXCEPT !.line_index = next, !.disconnected = c]
          PROVE  /\ f \in DeviceRecords /\ f.loaded /\ f.frame_count = Len(disk[d].frames)
                 /\ f.line_index = next /\ f.disconnected = c
      <4> HIDE DEF found
      <4>1. QED BY <3>1, <3>1a, <3>1b DEF DeviceRecords
    <3>2. CASE next = Found(d).frame_count
      <4>1. (next >= Found(d).frame_count) = TRUE
        BY <2>2, <3>2 DEF DeviceRecords
      <4>2. found = [r EXCEPT !.line_index = next, !.disconnected = TRUE]
        BY <4>1 DEF r
      <4> HIDE DEF found
      <4>3. /\ found \in DeviceRecords /\ found.loaded
            /\ found.frame_count = Len(disk[d].frames)
            /\ found.line_index = next /\ found.disconnected
        BY <3>1b, <4>2
      <4>4. next = Len(disk[d].frames)
        BY <2>2, <3>2
      <4>5. QED BY <3>1, <4>3, <4>4
    <3>3. CASE next # Found(d).frame_count
      <4>1. next < Found(d).frame_count
        BY <2>2, <2>3, <3>3 DEF DeviceRecords
      <4>2. (next >= Found(d).frame_count) = FALSE
        BY <2>2, <3>1, <4>1 DEF DeviceRecords
      <4>3. found = [r EXCEPT !.line_index = next, !.disconnected = FALSE]
        BY <4>2 DEF r
      <4> HIDE DEF found
      <4>4. /\ found \in DeviceRecords /\ found.loaded
            /\ found.frame_count = Len(disk[d].frames)
            /\ found.line_index = next /\ ~found.disconnected
        BY <3>1b, <4>3
      <4>5. next < Len(disk[d].frames) /\ Len(disk[d].frames) \in Nat
        BY <2>2, <4>1 DEF DeviceRecords
      <4>6. QED BY <3>1, <4>4, <4>5
    <3>4. QED BY <3>2, <3>3
  <2> HIDE DEF found
  <2>4. TypeOK' /\ NoHandleLeaks'
    BY <1>6, <2>1, <2>3a, AccessKeepsHandles DEF comms_read_i2c, Inv, TypeOK, Data
  <2>5. DisconnectedWhenSpent'
    BY <1>6, <2>1, <2>3a DEF comms_read_i2c, Access, Inv, TypeOK, DisconnectedWhenSpent
  <2>6. QED BY <2>4, <2>5 DEF Inv
<1>7. ASSUME NEW d \in Devices, NEW reg \in Registers, NEW size \in 1 .. FrameLen[d],
             NEW bytes \in [0 .. size - 1 -> Bytes],
             \/ comms_write_i2c(d, reg, size, bytes)
             \/ WriteBreaksOff(d, reg, size, bytes)
      PROVE  Inv'
  <2>1. Served(d, reg, size) /\ fwrite(d, reg, size, bytes) /\ reply' \in {Done, Error}
    BY <1>7, ShorterIsServed DEF comms_write_i2c, WriteBreaksOff
  <2>2. QED BY <2>1, StoringKeepsInv
<1>8. ASSUME NEW d \in Devices, NEW file \in Files[d], Regenerate(d, file) PROVE Inv'
  BY <1>8 DEF Inv, TypeOK, NoHandleLeaks, DisconnectedWhenSpent, Regenerate
<1>9. CASE UNCHANGED vars
  BY <1>9 DEF vars, Inv, TypeOK, NoHandleLeaks, DisconnectedWhenSpent
<1>10. QED
  BY <1>1, <1>2, <1>2a, <1>3, <1>4, <1>5, <1>6, <1>7, <1>8, <1>9 DEF Next

LEMMA Invariance == Spec => []Inv
BY InitInv, StepInv, PTL DEF Spec

(* The device table keeps its types and no file is closed twice.           *)
THEOREM TypeCorrect == Spec => []TypeOK
<1>1. Inv => TypeOK BY DEF Inv
<1>2. QED BY <1>1, Invariance, PTL

(* One open file per loaded device, none on a bus that is down.            *)
THEOREM HandlesAreClosed == Spec => []NoHandleLeaks
<1>1. Inv => NoHandleLeaks BY DEF Inv
<1>2. QED BY <1>1, Invariance, PTL

(* The one-byte counters disconnect a device exactly after its last frame. *)
THEOREM CountersDoNotWrap == Spec => []DisconnectedWhenSpent
<1>1. Inv => DisconnectedWhenSpent BY DEF Inv
<1>2. QED BY <1>1, Invariance, PTL
-----------------------------------------------------------------------------
Pos == [d \in Devices |-> IF device[d].loaded THEN device[d].line_index ELSE 0]

(* The head of the tape is where sim_ensure_device leaves the cursor.      *)
LEMMA PosOfFound ==
    ASSUME Inv, NEW d \in Devices, Ensured(d)
    PROVE  Pos[d] = Found(d).line_index /\ Pos[d] \in Nat
<1>1. Found(d).line_index \in Nat
  BY FoundDevice DEF DeviceRecords
<1>2. Pos[d] = Found(d).line_index
  BY DEF Pos, Found, Rewound
<1>3. QED BY <1>1, <1>2

LEMMA InitTape == Init => Tape!Init
BY DEF Init, Tape!Init, Cleared, Error, Tape!Error

LEMMA StepTape == Inv /\ [Next]_vars => [Tape!Next]_(Tape!vars)
<1> SUFFICES ASSUME Inv, [Next]_vars PROVE [Tape!Next]_(Tape!vars)
  OBVIOUS
<1>1. CASE comms_init
  <2>1. Pos' = Pos
    BY <1>1 DEF comms_init, Pos, Inv, NoHandleLeaks, Cleared
  <2>2. Tape!Up
    BY <1>1, <2>1 DEF comms_init, Pos, Tape!Up, Done, Tape!Done
  <2>3. QED BY <2>2 DEF Tape!Next
<1>2. CASE comms_deinit
  <2>1. Tape!Down
    BY <1>2 DEF comms_deinit, Tape!Down, Done, Tape!Done, Inv, TypeOK, DeviceRecords
  <2>2. QED BY <2>1 DEF Tape!Next
<1>2a. CASE AlreadyDown
  <2>1. \A d \in Devices : ~device[d].loaded
    BY <1>2a DEF AlreadyDown, Inv, NoHandleLeaks
  <2>2. Tape!Down
    BY <1>2a, <2>1 DEF AlreadyDown, Tape!Down, Done, Tape!Done
  <2>3. QED BY <2>2 DEF Tape!Next
<1>3. CASE Refused
  BY <1>3 DEF Refused, Tape!Next, Tape!Fail, Error, Tape!Error
<1>4. ASSUME NEW d \in Devices, LoadFails(d) PROVE Tape!Next
  <2>1. Pos' = Pos
    BY <1>4 DEF LoadFails, Pos, Cleared, Inv, TypeOK
  <2>2. Tape!Fail
    BY <1>4, <2>1 DEF LoadFails, Pos, Tape!Fail, Error, Tape!Error
  <2>3. QED BY <2>2 DEF Tape!Next
<1>5. ASSUME NEW d \in Devices, AccessFails(d) PROVE Tape!Next
  <2>1. Ensured(d) /\ Access(d, [Found(d) EXCEPT !.disconnected = @ \/ Spent(Found(d))])
    BY <1>5 DEF AccessFails, Access
  <2>2. Pos' = Pos
    BY <2>1, FoundDevice, PosOfFound DEF Access, Pos, Inv, TypeOK, DeviceRecords
  <2>3. Tape!Fail
    BY <1>5, <2>2 DEF AccessFails, Access, Pos, Tape!Fail, Error, Tape!Error
  <2>4. QED BY <2>3 DEF Tape!Next
<1>6. ASSUME NEW d \in Devices, NEW reg \in Registers, NEW size \in 1 .. FrameLen[d],
             comms_read_i2c(d, reg, size)
      PROVE  Tape!Next
  <2> DEFINE w == [first |-> reg, count |-> size]
             next == (Found(d).line_index + 1) % UINT8_MODULUS
             found == [Found(d) EXCEPT !.line_index = next,
                                       !.disconnected = next >= Found(d).frame_count]
  <2>1. /\ Ensured(d) /\ Access(d, found) /\ ~Spent(Found(d)) /\ Fits(d, reg, size)
        /\ reply' = Data([i \in 0 .. size - 1 |-> Frame(d)[reg + i]])
        /\ disk' = disk
    BY <1>6 DEF comms_read_i2c, Access, Served
  <2>2. next = Pos[d] + 1 /\ Pos[d] < Len(disk[d].frames) /\ Pos[d] = Found(d).line_index
    <3>1. next = Found(d).line_index + 1 /\ next \in 0 .. Found(d).frame_count
      BY <2>1, ReadMovesOn
    <3>2. Found(d).frame_count = Len(disk[d].frames) /\ Found(d).frame_count \in Nat
      BY <2>1, FoundDevice DEF DeviceRecords
    <3>3. Pos[d] = Found(d).line_index /\ Pos[d] \in Nat
      BY <2>1, PosOfFound
    <3> HIDE DEF next, found
    <3>4. QED BY <3>1, <3>2, <3>3
  <2>3. w \in Tape!Windows(d)
    BY <2>1 DEF Fits, Tape!Windows
  <2>4. found.loaded /\ found.line_index = next
    BY <2>1, FoundDevice DEF DeviceRecords
  <2>5. Pos' = [Pos EXCEPT ![d] = @ + 1]
    <3> HIDE DEF found, next
    <3>1. QED BY <2>1, <2>2, <2>4 DEF Access, Pos, Inv, TypeOK
  <2>6. reply' = Tape!Data(Tape!Part(disk[d].frames[Pos[d] + 1], w))
    BY <2>1, <2>2 DEF Data, Tape!Data, Tape!Part, Frame
  <2>7. Tape!Take(d, w)
    BY <2>1, <2>2, <2>5, <2>6 DEF Access, Tape!Take, Pos
  <2>8. QED BY <2>3, <2>7 DEF Tape!Next
<1>7. ASSUME NEW d \in Devices, NEW reg \in Registers, NEW size \in 1 .. FrameLen[d],
             NEW bytes \in [0 .. size - 1 -> Bytes],
             \/ comms_write_i2c(d, reg, size, bytes)
             \/ WriteBreaksOff(d, reg, size, bytes)
      PROVE  Tape!Next
  <2> DEFINE w == [first |-> reg, count |-> size]
  <2>0. Served(d, reg, size) /\ fwrite(d, reg, size, bytes) /\ reply' \in {Done, Error}
    BY <1>7, ShorterIsServed DEF comms_write_i2c, WriteBreaksOff
  <2>1. Ensured(d) /\ Access(d, Found(d)) /\ ~Spent(Found(d)) /\ Fits(d, reg, size)
    BY <2>0 DEF fwrite, Access, Served
  <2>2. Pos[d] < Len(disk[d].frames) /\ Pos[d] = Found(d).line_index
    BY <2>1, FoundDevice, PosOfFound DEF Spent, DeviceRecords
  <2>3. w \in Tape!Windows(d) /\ bytes \in [0 .. w.count - 1 -> Bytes]
    BY <2>1 DEF Fits, Tape!Windows
  <2>4. Pos' = Pos
    BY <2>1, FoundDevice, PosOfFound DEF Access, Pos, Inv, TypeOK
  <2>5. disk' = [disk EXCEPT ![d].frames[Pos[d] + 1] =
                   Tape!Overwritten(disk[d].frames[Pos[d] + 1], w, bytes)]
    BY <2>0, <2>2 DEF fwrite, Tape!Overwritten
  <2>6. Tape!Put(d, w, bytes)
    BY <2>0, <2>1, <2>2, <2>4, <2>5
       DEF Access, Tape!Put, Pos, Done, Error, Tape!Done, Tape!Error
  <2>7. QED BY <2>3, <2>6 DEF Tape!Next
<1>8. ASSUME NEW d \in Devices, NEW file \in Files[d], Regenerate(d, file) PROVE Tape!Next
  BY <1>8 DEF Regenerate, Tape!Next, Tape!NewTape
<1>9. CASE UNCHANGED vars
  BY <1>9 DEF vars, Tape!vars
<1>10. QED
  BY <1>1, <1>2, <1>2a, <1>3, <1>4, <1>5, <1>6, <1>7, <1>8, <1>9 DEF Next

(* The simulated bus implements a tape per device, for every number of     *)
(* devices, frame length, counter width and file.                          *)
THEOREM SimImplementsTape == Spec => ImplementsTape
BY InitTape, StepTape, Invariance, PTL DEF Spec, ImplementsTape, Tape!Spec
=============================================================================
