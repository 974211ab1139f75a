------------------------------ MODULE CommsSim ------------------------------
(***************************************************************************)
(* The simulated I2C bus (controller/src/comms_sim.c): files of recorded   *)
(* frames, opened on the first access to an address, a cursor that every   *)
(* successful read moves on, and a device that is disconnected for good    *)
(* when its last frame has been read.                                      *)
(*                                                                         *)
(* A register is counted from the first register of its device, so it is   *)
(* negative below it.  The files are made by generate_sim_data.py or by    *)
(* hand and are replaced only while the bus is down.  The controller calls *)
(* comms_init on a bus that is down; nothing in comms_init asks for that,  *)
(* and called on a bus that is up it would forget the files it has open.   *)
(***************************************************************************)
EXTENDS Integers, Sequences

CONSTANTS
    Devices,            \* the addresses sim_device_desc knows
    FrameLen,           \* device -> bytes of a frame
    Bytes,              \* the values of a byte
    MAX_FRAME_COUNT,    \* COMMS_SIM_MAX_FRAME_COUNT
    UINT8_MODULUS,      \* frame_count and line_index wrap here
    Files,              \* device -> the files it may find
    Registers           \* the registers a driver asks for

Frames(d) == [0 .. FrameLen[d] - 1 -> Bytes]
AnyFile(d) == [kind : {"whole", "ragged", "missing"}, frames : Seq(Frames(d))]

ASSUME DeviceAssumption ==
    /\ FrameLen \in [Devices -> Nat \ {0}]
    /\ MAX_FRAME_COUNT \in Nat
    /\ UINT8_MODULUS \in Nat
    /\ MAX_FRAME_COUNT < UINT8_MODULUS
    /\ Registers \subseteq Int

ASSUME FileAssumption == DOMAIN Files = Devices /\ \A d \in Devices : Files[d] \subseteq AnyFile(d)

VARIABLES
    initialised,    \* comms->_initialized
    device,         \* g_sim_devices
    handles,        \* device -> files open for it
    disk,           \* device -> its file
    reply           \* what the latest call returned

vars == <<initialised, device, handles, disk, reply>>

Error == [status |-> "error"]
Done == [status |-> "ok"]
Data(bytes) == [status |-> "ok", bytes |-> bytes]

DeviceRecords ==
    [loaded : BOOLEAN, disconnected : BOOLEAN,
     frame_count : 0 .. UINT8_MODULUS - 1, line_index : 0 .. UINT8_MODULUS - 1]

Cleared == [loaded |-> FALSE, disconnected |-> FALSE, frame_count |-> 0, line_index |-> 0]

Init ==
    /\ initialised = FALSE
    /\ device = [d \in Devices |-> Cleared]
    /\ handles = [d \in Devices |-> 0]
    /\ disk \in {f \in [Devices -> UNION {Files[d] : d \in Devices}] :
                   \A d \in Devices : f[d] \in Files[d]}
    /\ reply = Error

comms_init ==
    /\ ~initialised
    /\ initialised' = TRUE
    /\ device' = [d \in Devices |-> Cleared]
    /\ reply' = Done
    /\ UNCHANGED <<handles, disk>>

(* Faulty variant of comms_deinit: it closes what is not loaded too.       *)
DeinitClosesAll ==
    /\ initialised
    /\ initialised' = FALSE
    /\ handles' = [d \in Devices |-> handles[d] - 1]
    /\ device' = [d \in Devices |-> [device[d] EXCEPT !.loaded = FALSE]]
    /\ reply' = Done
    /\ UNCHANGED disk

(* comms_deinit closes what is loaded; sim_close_device clears only the    *)
(* mark that it is.                                                        *)
comms_deinit ==
    /\ initialised
    /\ initialised' = FALSE
    /\ handles' = [d \in Devices |-> IF device[d].loaded THEN handles[d] - 1 ELSE handles[d]]
    /\ device' = [d \in Devices |-> [device[d] EXCEPT !.loaded = FALSE]]
    /\ reply' = Done
    /\ UNCHANGED disk

(* comms_deinit on a bus that is down returns without an error.            *)
AlreadyDown ==
    /\ ~initialised
    /\ reply' = Done
    /\ UNCHANGED <<initialised, device, handles, disk>>

-----------------------------------------------------------------------------
(* sim_load_device: nothing to do for a loaded device; otherwise the file  *)
(* is opened, measured, and kept or closed again.                          *)

(* Faulty variant of Playable: one frame more than the counter can count.  *)
PlayableOneMore(file) ==
    /\ file.kind = "whole"
    /\ Len(file.frames) \in 1 .. MAX_FRAME_COUNT + 1

Playable(file) ==
    /\ file.kind = "whole"
    /\ Len(file.frames) \in 1 .. MAX_FRAME_COUNT

Rewound(file) ==
    [loaded |-> TRUE, disconnected |-> FALSE,
     frame_count |-> Len(file.frames) % UINT8_MODULUS, line_index |-> 0]

(* sim_ensure_device succeeds and leaves the device d as "found".          *)
Ensured(d) == device[d].loaded \/ Playable(disk[d])
Found(d) == IF device[d].loaded THEN device[d] ELSE Rewound(disk[d])

Opened(d) == IF device[d].loaded THEN handles ELSE [handles EXCEPT ![d] = @ + 1]

(* Faulty variant of LoadFails: an unusable file is left open.             *)
LoadFailsOpen(d) ==
    /\ initialised
    /\ ~device[d].loaded
    /\ device' = [device EXCEPT ![d] = Cleared]
    /\ handles' = [handles EXCEPT ![d] = IF disk[d].kind = "missing" THEN @ ELSE @ + 1]
    /\ reply' = Error
    /\ UNCHANGED <<initialised, disk>>

(* sim_ensure_device fails, for the file or because fseek or ftell do; a   *)
(* file that was opened is closed.                                         *)
LoadFails(d) ==
    /\ initialised
    /\ ~device[d].loaded
    /\ device' = [device EXCEPT ![d] = Cleared]
    /\ reply' = Error
    /\ UNCHANGED <<initialised, handles, disk>>

(* The guards comms_read_i2c and comms_write_i2c share.                    *)
Spent(found) == found.line_index >= found.frame_count

Fits(d, reg, size) == reg >= 0 /\ reg + size <= FrameLen[d]

Access(d, found) ==
    /\ initialised
    /\ Ensured(d)
    /\ device' = [device EXCEPT ![d] = found]
    /\ handles' = Opened(d)
    /\ UNCHANGED initialised

Served(d, reg, size) ==
    /\ ~Found(d).disconnected
    /\ ~Spent(Found(d))
    /\ Fits(d, reg, size)

(* Refused for the register, the size or the end of the file, or failed in *)
(* fseek, fread or fwrite, which may happen at any time.                   *)
AccessFails(d) ==
    /\ Access(d, [Found(d) EXCEPT !.disconnected = @ \/ Spent(Found(d))])
    /\ reply' = Error
    /\ UNCHANGED disk

(* sim_seek_frame_reg and fread.                                           *)
Frame(d) == disk[d].frames[Found(d).line_index + 1]

comms_read_i2c(d, reg, size) ==
    LET next == (Found(d).line_index + 1) % UINT8_MODULUS
    IN  /\ Served(d, reg, size)
        /\ Access(d, [Found(d) EXCEPT !.line_index = next,
                                      !.disconnected = next >= Found(d).frame_count])
        /\ reply' = Data([i \in 0 .. size - 1 |-> Frame(d)[reg + i]])
        /\ UNCHANGED disk

(* Faulty variant of comms_write_i2c: a write moves the cursor on as well. *)
WriteAndAdvance(d, reg, size, bytes) ==
    LET next == Found(d).line_index + 1
    IN  /\ Served(d, reg, size)
        /\ Access(d, [Found(d) EXCEPT !.line_index = next,
                                      !.disconnected = next >= Found(d).frame_count])
        /\ disk' = [disk EXCEPT ![d].frames[next] =
                      [i \in DOMAIN @ |-> IF i \in reg .. reg + size - 1 THEN bytes[i - reg] ELSE @[i]]]
        /\ reply' = Done

(* fwrite puts its bytes into the file itself, into the frame the cursor   *)
(* is at.                                                                  *)
fwrite(d, reg, size, bytes) ==
    /\ Access(d, Found(d))
    /\ disk' = [disk EXCEPT ![d].frames[Found(d).line_index + 1] =
                  [i \in DOMAIN @ |-> IF i \in reg .. reg + size - 1 THEN bytes[i - reg] ELSE @[i]]]

comms_write_i2c(d, reg, size, bytes) ==
    /\ Served(d, reg, size)
    /\ fwrite(d, reg, size, bytes)
    /\ reply' = Done

(* A longer write of which fwrite stores only the first "size" bytes: an   *)
(* error, and what was stored stays in the frame.                          *)
WriteBreaksOff(d, reg, size, bytes) ==
    /\ Served(d, reg, size + 1)
    /\ fwrite(d, reg, size, bytes)
    /\ reply' = Error

(* A call on a bus that is down, or for an address nobody answers.         *)
Refused ==
    /\ reply' = Error
    /\ UNCHANGED <<initialised, device, handles, disk>>

(* The data files are generated anew between two runs.                     *)
Regenerate(d, file) ==
    /\ ~initialised
    /\ disk' = [disk EXCEPT ![d] = file]
    /\ UNCHANGED <<initialised, device, handles, reply>>

Next ==
    \/ comms_init
    \/ comms_deinit
    \/ AlreadyDown
    \/ Refused
    \/ \E d \in Devices :
         \/ LoadFails(d)
         \/ AccessFails(d)
         \/ \E reg \in Registers, size \in 1 .. FrameLen[d] :
              \/ comms_read_i2c(d, reg, size)
              \/ \E bytes \in [0 .. size - 1 -> Bytes] :
                   \/ comms_write_i2c(d, reg, size, bytes)
                   \/ WriteBreaksOff(d, reg, size, bytes)
         \/ \E file \in Files[d] : Regenerate(d, file)

Spec == Init /\ [][Next]_vars

-----------------------------------------------------------------------------
(* Type invariant: the bus and its device table have their types, and no   *)
(* file is closed more often than it was opened.                           *)
TypeOK ==
    /\ initialised \in BOOLEAN
    /\ device \in [Devices -> DeviceRecords]
    /\ handles \in [Devices -> Nat]
    /\ DOMAIN disk = Devices /\ \A d \in Devices : disk[d] \in AnyFile(d)
    /\ reply.status \in {"ok", "error"}

(* controller/README.md: "comms_deinit closes open files".  A device holds *)
(* one open file while it is loaded and none otherwise, through files that *)
(* turn out unusable after they were opened and any number of restarts;    *)
(* nothing stays open on a bus that is down.                               *)
NoHandleLeaks ==
    \A d \in Devices :
        /\ handles[d] = IF device[d].loaded THEN 1 ELSE 0
        /\ device[d].loaded => initialised

(* A device is disconnected when its last frame has been read and not a    *)
(* frame earlier: the one-byte counters neither wrap nor lag behind the    *)
(* file (the limit COMMS_SIM_MAX_FRAME_COUNT of sim_load_device).          *)
DisconnectedWhenSpent ==
    \A d \in Devices :
        device[d].loaded =>
            /\ device[d].frame_count = Len(disk[d].frames)
            /\ device[d].line_index <= device[d].frame_count
            /\ device[d].disconnected <=> device[d].line_index = device[d].frame_count

-----------------------------------------------------------------------------
(* comms_sim.c implements a tape per device: loading on first access, the  *)
(* device table, the open files and the one-byte counters stay hidden.     *)
Tape == INSTANCE SimTape WITH
    on <- initialised,
    pos <- [d \in Devices |-> IF device[d].loaded THEN device[d].line_index ELSE 0],
    answer <- reply

ImplementsTape == Tape!Spec
============================================================================
