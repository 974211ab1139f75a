---------------------------- MODULE SnapshotPage ----------------------------
(***************************************************************************)
(* readSeqlockedPayload of the Go store: readers copy the AHRS page of     *)
(* state.bin while the controller rewrites it, with the sequence byte as   *)
(* the only synchronisation between the two processes.                     *)
(*                                                                         *)
(* The payload is a set of cells the copy reads one by one in any order,   *)
(* and a cell's value is the number of the write that stored it.  The      *)
(* writer's half of the protocol is the one storage.h and voxor_commit     *)
(* describe: flip the low bit of the byte, store, flip it again, in that   *)
(* order.  The flip is unconditional, and the page is a file: a controller *)
(* that starts on a page left odd, by one that died between its flips,     *)
(* makes the byte even while it writes.                                    *)
(***************************************************************************)
EXTENDS Integers

CONSTANTS
  Readers,    \* goroutines in ReadSnapshot
  Cells,      \* the pieces of the payload that are copied at once
  MaxSpins,   \* maxSeqlockSpins
  MaxWrites,  \* bound: writes of the page after the one found in it
  InOrder     \* whether the machine performs a reader's loads in program order

ASSUME ReaderAssumption ==
  /\ MaxSpins \in Nat \ {0}
  /\ MaxWrites \in Nat
  /\ InOrder \in BOOLEAN

ASSUME ItemAssumption == "s1" \notin Cells /\ "s2" \notin Cells

VARIABLES
  seq,      \* low bit of the page's sequence byte
  cell,     \* cell -> number of the write that stored it
  version,  \* number of the latest write begun
  fresh,    \* cells the write in progress has stored
  alive,    \* whether a controller runs
  writing,  \* the latest controller is, or died, between its two flips
  pc,       \* reader -> "idle", "head" of the spin loop, "body" of it
  spin,     \* reader -> iterations begun
  left,     \* reader -> loads of this iteration still to perform
  mark,     \* reader -> what it loaded as s1 and s2
  buf,      \* reader -> its copy of the payload
  reply,    \* reader -> how its latest read of the page ended
  lapped,   \* history: a write began after the reader loaded s1
  floor,    \* history: the newest cell a truthful snapshot of the reader contained
  truthful  \* history: an even byte has meant a stable page, and no controller
            \* has since started on a page left within a write

page == <<seq, cell, version, fresh, alive, writing, truthful>>
vars == <<page, pc, spin, left, mark, buf, reply, lapped, floor>>
frame == <<pc, spin, left, mark, buf, reply>>

Items == Cells \cup {"s1", "s2"}
Even == 0
Odd == 1

NoMarks == [s1 |-> Even, s2 |-> Even]
NewBuf == [c \in Cells |-> 0]

(* Open maps state.bin as it is: either value of the byte, over a payload  *)
(* of which the latest write, number 1, stored all, some or nothing.       *)
Init ==
  /\ seq \in {Even, Odd}
  /\ cell \in [Cells -> {0, 1}]
  /\ version = 1
  /\ fresh = {}
  /\ alive = FALSE
  /\ writing = FALSE
  /\ truthful = (seq = Even /\ \A c \in Cells : cell[c] = version)
  /\ pc = [r \in Readers |-> "idle"]
  /\ spin = [r \in Readers |-> 0]
  /\ left = [r \in Readers |-> {}]
  /\ mark = [r \in Readers |-> NoMarks]
  /\ buf = [r \in Readers |-> NewBuf]
  /\ reply = [r \in Readers |-> "none"]
  /\ lapped = [r \in Readers |-> FALSE]
  /\ floor = [r \in Readers |-> 0]

-----------------------------------------------------------------------------
(* The controller.                                                         *)

WriteBegin ==
  /\ alive
  /\ ~writing
  /\ version <= MaxWrites
  /\ seq' = 1 - seq
  /\ writing' = TRUE
  /\ version' = version + 1
  /\ lapped' = [r \in Readers |-> lapped[r] \/ (pc[r] = "body" /\ "s1" \notin left[r])]
  /\ UNCHANGED <<cell, fresh, alive, truthful, frame, floor>>

WriteCell(c) ==
  /\ alive
  /\ writing
  /\ c \notin fresh
  /\ cell' = [cell EXCEPT ![c] = version]
  /\ fresh' = fresh \cup {c}
  /\ UNCHANGED <<seq, version, alive, writing, truthful, frame, lapped, floor>>

(* A write that ends on an even byte makes the byte truthful again.        *)
WriteEnd ==
  /\ alive
  /\ writing
  /\ fresh = Cells
  /\ seq' = 1 - seq
  /\ writing' = FALSE
  /\ truthful' = (seq' = Even)
  /\ fresh' = {}
  /\ UNCHANGED <<cell, version, alive, frame, lapped, floor>>

WriterDies ==
  /\ alive
  /\ alive' = FALSE
  /\ fresh' = {}
  /\ UNCHANGED <<seq, cell, version, writing, truthful, frame, lapped, floor>>

(* A controller maps the page its predecessor left and repairs nothing.    *)
WriterStarts ==
  /\ ~alive
  /\ alive' = TRUE
  /\ writing' = FALSE
  /\ truthful' = (truthful /\ ~writing)
  /\ UNCHANGED <<seq, cell, version, fresh, frame, lapped, floor>>

-----------------------------------------------------------------------------
(* A reader.  Its locals are those of a new call whenever it is idle.      *)
Call(r) ==
  /\ pc[r] = "idle"
  /\ pc' = [pc EXCEPT ![r] = "head"]
  /\ reply' = [reply EXCEPT ![r] = "none"]
  /\ UNCHANGED <<page, spin, left, mark, buf, lapped, floor>>

Returns(r, how) ==
  /\ pc' = [pc EXCEPT ![r] = "idle"]
  /\ reply' = [reply EXCEPT ![r] = how]
  /\ spin' = [spin EXCEPT ![r] = 0]
  /\ mark' = [mark EXCEPT ![r] = NoMarks]
  /\ buf' = [buf EXCEPT ![r] = NewBuf]
  /\ lapped' = [lapped EXCEPT ![r] = FALSE]
  /\ UNCHANGED <<page, left>>

NextSpin(r) ==
  /\ pc[r] = "head"
  /\ spin[r] < MaxSpins
  /\ pc' = [pc EXCEPT ![r] = "body"]
  /\ spin' = [spin EXCEPT ![r] = @ + 1]
  /\ left' = [left EXCEPT ![r] = Items]
  /\ UNCHANGED <<page, mark, buf, reply, lapped, floor>>

(* "seqlock read retries exhausted"                                        *)
GiveUp(r) ==
  /\ pc[r] = "head"
  /\ spin[r] = MaxSpins
  /\ Returns(r, "error")
  /\ UNCHANGED floor

(* Faulty variant of MayLoad: nothing orders the loads of an iteration.    *)
MayLoadAnyTime(r, i) == pc[r] = "body" /\ i \in left[r]

(* The loads a reader may perform next: in program order s1, the copy, s2. *)
MayLoad(r, i) ==
  /\ pc[r] = "body"
  /\ i \in left[r]
  /\ InOrder => /\ i = "s1" \/ "s1" \notin left[r]
                /\ i = "s2" => left[r] = {"s2"}

Loaded(r, i) ==
  /\ MayLoad(r, i)
  /\ left' = [left EXCEPT ![r] = @ \ {i}]
  /\ UNCHANGED <<page, pc, spin, reply, lapped, floor>>

(* Faulty variant of LoadS1: the low bit is masked out.                    *)
LoadS1Masked(r) ==
  /\ Loaded(r, "s1")
  /\ mark' = [mark EXCEPT ![r].s1 = Even]
  /\ UNCHANGED buf

LoadS1(r) ==
  /\ Loaded(r, "s1")
  /\ mark' = [mark EXCEPT ![r].s1 = seq]
  /\ UNCHANGED buf

LoadCell(r, c) ==
  /\ Loaded(r, c)
  /\ mark[r].s1 = Even \/ "s1" \in left[r]
  /\ buf' = [buf EXCEPT ![r][c] = cell[c]]
  /\ UNCHANGED mark

LoadS2(r) ==
  /\ Loaded(r, "s2")
  /\ mark[r].s1 = Even \/ "s1" \in left[r]
  /\ mark' = [mark EXCEPT ![r].s2 = seq]
  /\ UNCHANGED buf

(* Faulty variant of Retry: a retry is not counted.                        *)
RetryUncounted(r) ==
  /\ pc[r] = "body"
  /\ "s1" \notin left[r]
  /\ mark[r].s1 = Odd \/ (left[r] = {} /\ mark[r].s2 # mark[r].s1)
  /\ pc' = [pc EXCEPT ![r] = "head"]
  /\ spin' = [spin EXCEPT ![r] = @ - 1]
  /\ left' = [left EXCEPT ![r] = {}]
  /\ mark' = [mark EXCEPT ![r] = NoMarks]
  /\ lapped' = [lapped EXCEPT ![r] = FALSE]
  /\ UNCHANGED <<page, buf, reply, floor>>

(* An odd s1, or an s2 that differs from it: try again.                    *)
Retry(r) ==
  /\ pc[r] = "body"
  /\ "s1" \notin left[r]
  /\ mark[r].s1 = Odd \/ (left[r] = {} /\ mark[r].s2 # mark[r].s1)
  /\ pc' = [pc EXCEPT ![r] = "head"]
  /\ left' = [left EXCEPT ![r] = {}]
  /\ mark' = [mark EXCEPT ![r] = NoMarks]
  /\ lapped' = [lapped EXCEPT ![r] = FALSE]
  /\ UNCHANGED <<page, spin, buf, reply, floor>>

Accept(r) ==
  /\ pc[r] = "body"
  /\ left[r] = {}
  /\ mark[r].s1 = Even
  /\ mark[r].s2 = mark[r].s1
  /\ Returns(r, "ok")
  /\ \E top \in {floor[r]} \cup {buf[r][c] : c \in Cells} :
       /\ \A other \in {floor[r]} \cup {buf[r][c] : c \in Cells} : other <= top
       /\ floor' = IF truthful THEN [floor EXCEPT ![r] = top] ELSE floor

ReaderStep(r) ==
  \/ NextSpin(r)
  \/ GiveUp(r)
  \/ LoadS1(r)
  \/ \E c \in Cells : LoadCell(r, c)
  \/ LoadS2(r)
  \/ Retry(r)
  \/ Accept(r)

Next ==
  \/ WriteBegin
  \/ \E c \in Cells : WriteCell(c)
  \/ WriteEnd
  \/ WriterDies
  \/ WriterStarts
  \/ \E r \in Readers : Call(r) \/ ReaderStep(r)

Spec == Init /\ [][Next]_vars

-----------------------------------------------------------------------------
(* Type invariant: page, locals and histories have their types.            *)
TypeOK ==
  /\ seq \in {Even, Odd}
  /\ cell \in [Cells -> Nat]
  /\ version \in Nat
  /\ fresh \in SUBSET Cells
  /\ alive \in BOOLEAN
  /\ writing \in BOOLEAN
  /\ truthful \in BOOLEAN
  /\ pc \in [Readers -> {"idle", "head", "body"}]
  /\ spin \in [Readers -> 0 .. MaxSpins]
  /\ left \in [Readers -> SUBSET Items]
  /\ mark \in [Readers -> [s1 : {Even, Odd}, s2 : {Even, Odd}]]
  /\ buf \in [Readers -> [Cells -> Nat]]
  /\ reply \in [Readers -> {"none", "ok", "error"}]
  /\ lapped \in [Readers -> BOOLEAN]
  /\ floor \in [Readers -> Nat]

Whole(snapshot) == \A c, d \in Cells : snapshot[c] = snapshot[d]

(* What the sequence byte does promise on a machine that performs the      *)
(* reader's loads in order: while the byte is truthful, a snapshot during  *)
(* which no write began is one write's payload, however often the read was *)
(* retried and wherever a controller died or started meanwhile.  Once a    *)
(* controller starts on a page left within a write, a reader has no such   *)
(* promise until a later controller ends a write on an even byte.          *)
UnlappedIsWhole ==
  [][InOrder => \A r \in Readers :
       Accept(r) /\ truthful /\ ~lapped[r] => Whole(buf[r])]_vars

(* On such a machine a reader never goes back in time, torn or not and     *)
(* truthful or not: no cell of any snapshot is older than the newest cell  *)
(* of the snapshots the reader accepted while the byte was truthful.       *)
NeverBackwards ==
  [][InOrder => \A r \in Readers :
       Accept(r) => \A c \in Cells : floor[r] <= buf[r][c]]_vars

(* ahrs_public_v1.go: "byte 0 is a seqlock (even = stable)".  The byte     *)
(* alternates between two values, so even while it is truthful a whole     *)
(* write between s1 and s2 goes unnoticed.                                 *)
NoTornSnapshot ==
  [][InOrder => \A r \in Readers : Accept(r) /\ truthful => Whole(buf[r])]_vars

=============================================================================
