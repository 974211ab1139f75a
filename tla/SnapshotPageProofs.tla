------------------------- MODULE SnapshotPageProofs -------------------------
(***************************************************************************)
(* What the one-bit sequence byte guarantees, for any number of readers,   *)
(* any payload and any number of writes, on a machine that keeps the order *)
(* of a reader's loads; and what the store's lock adds to it.              *)
(***************************************************************************)
EXTENDS Store, TLAPS

(* Every cell a live writer has stored anew carries the latest version;    *)
(* and while the byte is truthful it is odd exactly within a write, and    *)
(* every cell carries the latest version while it is even.                 *)
PageInv ==
  /\ \A c \in Cells : cell[c] <= version
  /\ writing => \A c \in fresh : cell[c] = version
  /\ fresh # {} => alive /\ writing
  /\ truthful => (seq = Odd <=> writing)
  /\ truthful /\ seq = Even => \A c \in Cells : cell[c] = version

(* s1 is the first load of an iteration and s2 the last.                   *)
OrderInv(r) ==
  /\ pc[r] = "body" /\ "s1" \in left[r] => left[r] = Items
  /\ pc[r] = "body" /\ "s2" \notin left[r] => left[r] = {}

(* A reader that has seen an even s1 and no write begin since: a write in  *)
(* progress is one that runs on an even byte, hence not a truthful one;    *)
(* and while the byte is truthful the copy carries the latest version.     *)
UnlappedInv(r) ==
  pc[r] = "body" /\ "s1" \notin left[r] /\ mark[r].s1 = Even /\ ~lapped[r] =>
    /\ writing => seq = Even
    /\ truthful => /\ seq = Even
                   /\ \A c \in Cells : c \notin left[r] => buf[r][c] = version

(* No cell, and nothing a reader has copied, is older than what it has     *)
(* returned; and what it is about to return is older than no cell.         *)
FloorInv(r) ==
  /\ \A c \in Cells : floor[r] <= cell[c] /\ buf[r][c] <= version
  /\ pc[r] = "body" => \A c \in Cells : c \notin left[r] => floor[r] <= buf[r][c]
  /\ pc[r] = "body" /\ left[r] = {} /\ mark[r].s2 = Even /\ truthful
       => \A c, d \in Cells : buf[r][c] <= cell[d]

SnapInv ==
  /\ TypeOK
  /\ PageInv
  /\ InOrder => \A r \in Readers : OrderInv(r) /\ UnlappedInv(r) /\ FloorInv(r)

LEMMA InitSnap == Init => SnapInv
<1> SUFFICES ASSUME Init
             PROVE  SnapInv
  OBVIOUS
<1>4. /\ truthful \in BOOLEAN
      /\ truthful => seq = Even /\ \A c \in Cells : cell[c] = version
  BY DEF Init
<1> USE ReaderAssumption DEF Init, Even, Odd, NoMarks, NewBuf
<1>1. TypeOK
  <2>1. cell \in [Cells -> Nat]
    OBVIOUS
  <2>2. seq \in {Even, Odd} /\ version \in Nat /\ fresh \in SUBSET Cells
    OBVIOUS
  <2>3. alive \in BOOLEAN /\ writing \in BOOLEAN /\ pc \in [Readers -> {"idle", "head", "body"}]
    OBVIOUS
  <2>4. spin \in [Readers -> 0 .. MaxSpins] /\ left \in [Readers -> SUBSET Items]
    OBVIOUS
  <2>5. mark \in [Readers -> [s1 : {Even, Odd}, s2 : {Even, Odd}]]
    OBVIOUS
  <2>6. buf \in [Readers -> [Cells -> Nat]] /\ reply \in [Readers -> {"none", "ok", "error"}]
    OBVIOUS
  <2>7. lapped \in [Readers -> BOOLEAN] /\ floor \in [Readers -> Nat]
    OBVIOUS
  <2>8. QED BY <1>4, <2>1, <2>2, <2>3, <2>4, <2>5, <2>6, <2>7, Zenon DEF TypeOK
<1>2. PageInv
  BY <1>4 DEF PageInv
<1>3. ASSUME NEW r \in Readers
      PROVE  OrderInv(r) /\ UnlappedInv(r) /\ FloorInv(r)
  <2>1. pc[r] = "idle" /\ floor[r] = 0
    OBVIOUS
  <2>2. \A c \in Cells : buf[r][c] = 0 /\ cell[c] \in {0, 1} /\ version = 1
    OBVIOUS
  <2>3. QED BY <2>1, <2>2 DEF OrderInv, UnlappedInv, FloorInv
<1>5. QED BY <1>1, <1>2, <1>3 DEF SnapInv

(* The end of a write, with its history spelled as an equivalence.         *)
LEMMA EndsTruthful == WriteEnd => truthful' \in BOOLEAN /\ (truthful' <=> seq' = Even)
BY DEF WriteEnd

LEMMA StepType == TypeOK /\ [Next]_vars => TypeOK'
<1> SUFFICES ASSUME TypeOK, [Next]_vars
             PROVE  TypeOK'
  OBVIOUS
<1> USE ReaderAssumption DEF TypeOK, page, frame
<1>1. CASE WriteBegin
  <2>1. seq' \in {Even, Odd} /\ version' \in Nat /\ lapped' \in [Readers -> BOOLEAN]
    BY <1>1 DEF WriteBegin, Even, Odd
  <2>2. QED BY <1>1, <2>1 DEF WriteBegin
<1>2. ASSUME NEW c \in Cells, WriteCell(c)
      PROVE  TypeOK'
  BY <1>2 DEF WriteCell
<1>3. CASE WriteEnd
  <2>1. seq' \in {Even, Odd}
    BY <1>3 DEF WriteEnd, Even, Odd
  <2>2. writing' \in BOOLEAN /\ truthful' \in BOOLEAN
    BY <1>3, EndsTruthful DEF WriteEnd
  <2>3. QED BY <1>3, <2>1, <2>2, Zenon DEF WriteEnd
<1>4. CASE WriterDies \/ WriterStarts
  BY <1>4 DEF WriterDies, WriterStarts
<1>5. ASSUME NEW r \in Readers, Call(r)
      PROVE  TypeOK'
  BY <1>5 DEF Call
<1>6. ASSUME NEW r \in Readers, NextSpin(r)
      PROVE  TypeOK'
  <2>1. spin[r] + 1 \in 0 .. MaxSpins
    BY <1>6 DEF NextSpin
  <2>2. QED BY <1>6, <2>1 DEF NextSpin
<1>7. ASSUME NEW r \in Readers, GiveUp(r)
      PROVE  TypeOK'
  BY <1>7 DEF GiveUp, Returns, NoMarks, NewBuf
<1>8. ASSUME NEW r \in Readers, LoadS1(r)
      PROVE  TypeOK'
  BY <1>8 DEF LoadS1, Loaded
<1>9. ASSUME NEW r \in Readers, NEW c \in Cells, LoadCell(r, c)
      PROVE  TypeOK'
  <2>1. [buf[r] EXCEPT ![c] = cell[c]] \in [Cells -> Nat]
    OBVIOUS
  <2>2. QED BY <1>9, <2>1 DEF LoadCell, Loaded
<1>10. ASSUME NEW r \in Readers, LoadS2(r)
       PROVE  TypeOK'
  BY <1>10 DEF LoadS2, Loaded
<1>11. ASSUME NEW r \in Readers, Retry(r)
       PROVE  TypeOK'
  BY <1>11 DEF Retry, NoMarks
<1>12. ASSUME NEW r \in Readers, Accept(r)
       PROVE  TypeOK'
  <2>1. PICK top \in {floor[r]} \cup {buf[r][c] : c \in Cells} :
             floor' = IF truthful THEN [floor EXCEPT ![r] = top] ELSE floor
    BY <1>12 DEF Accept
  <2>2. top \in Nat
    OBVIOUS
  <2>3. QED BY <1>12, <2>1, <2>2 DEF Accept, Returns, NoMarks, NewBuf
<1>13. CASE UNCHANGED vars
  BY <1>13 DEF vars
<1>14. QED
  BY <1>1, <1>2, <1>3, <1>4, <1>5, <1>6, <1>7, <1>8, <1>9, <1>10, <1>11, <1>12, <1>13
  DEF Next, ReaderStep

LEMMA StepPage == TypeOK /\ PageInv /\ [Next]_vars => PageInv'
<1> SUFFICES ASSUME TypeOK, PageInv, [Next]_vars
             PROVE  PageInv'
  OBVIOUS
<1> USE DEF TypeOK, PageInv, Even, Odd
<1>1. CASE WriteBegin
  BY <1>1 DEF WriteBegin
<1>2. ASSUME NEW c \in Cells, WriteCell(c)
      PROVE  PageInv'
  BY <1>2 DEF WriteCell
<1>3. CASE WriteEnd
  BY <1>3, EndsTruthful DEF WriteEnd
<1>4. CASE WriterDies \/ WriterStarts
  BY <1>4 DEF WriterDies, WriterStarts
<1>5. CASE UNCHANGED <<seq, cell, version, fresh, alive, writing, truthful>>
  BY <1>5
<1>6. QED
  BY <1>1, <1>2, <1>3, <1>4, <1>5 DEF Next, ReaderStep, Call, NextSpin, GiveUp, Returns,
     LoadS1, LoadCell, LoadS2, Loaded, Retry, Accept, page, vars

LEMMA StepOrder ==
  ASSUME InOrder, SnapInv, [Next]_vars, NEW q \in Readers
  PROVE  OrderInv(q)'
<1>1. TypeOK /\ OrderInv(q)
  BY DEF SnapInv
<1> USE <1>1 DEF TypeOK, OrderInv, page, frame
<1>2. CASE UNCHANGED <<pc, left>>
  BY <1>2
<1>3. ASSUME NEW r \in Readers, Call(r) \/ NextSpin(r) \/ GiveUp(r) \/ Retry(r) \/ Accept(r)
      PROVE  OrderInv(q)'
  BY <1>3 DEF Call, NextSpin, GiveUp, Returns, Retry, Accept, Items
<1>4. ASSUME NEW r \in Readers, NEW i \in Items, Loaded(r, i)
      PROVE  OrderInv(q)'
  BY <1>4 DEF Loaded, MayLoad, Items
<1>5. QED
  BY <1>2, <1>3, <1>4 DEF Next, ReaderStep, WriteBegin, WriteCell, WriteEnd, WriterDies,
     WriterStarts, LoadS1, LoadCell, LoadS2, Items, vars

LEMMA StepUnlapped ==
  ASSUME InOrder, SnapInv, [Next]_vars, NEW q \in Readers
  PROVE  UnlappedInv(q)'
<1>1. TypeOK /\ PageInv /\ OrderInv(q) /\ UnlappedInv(q)
  BY DEF SnapInv
<1> USE <1>1, ItemAssumption DEF TypeOK, page, frame, Even, Odd
<1>2. CASE WriteBegin
  BY <1>2 DEF WriteBegin, UnlappedInv
<1>3. ASSUME NEW c \in Cells, WriteCell(c)
      PROVE  UnlappedInv(q)'
  BY <1>3 DEF WriteCell, UnlappedInv
<1>4. CASE WriteEnd
  <2>1. SUFFICES ASSUME pc[q] = "body", "s1" \notin left[q], mark[q].s1 = Even, ~lapped[q]
                 PROVE  ~writing' /\ ~truthful'
    BY <1>4 DEF WriteEnd, UnlappedInv
  <2>2. seq = Even
    BY <1>4, <2>1 DEF WriteEnd, UnlappedInv
  <2>3. QED BY <1>4, <2>2, EndsTruthful DEF WriteEnd
<1>5. CASE WriterDies \/ WriterStarts
  BY <1>5 DEF WriterDies, WriterStarts, UnlappedInv
<1>6. ASSUME NEW r \in Readers, Call(r) \/ NextSpin(r) \/ GiveUp(r) \/ Retry(r) \/ Accept(r)
      PROVE  UnlappedInv(q)'
  BY <1>6 DEF Call, NextSpin, GiveUp, Returns, Retry, Accept, UnlappedInv, Items
<1>7. ASSUME NEW r \in Readers, LoadS1(r)
      PROVE  UnlappedInv(q)'
  <2>1. CASE r = q
    <3>1. left[q] = Items /\ left'[q] = Items \ {"s1"} /\ pc[q] = "body"
      BY <1>7, <2>1 DEF LoadS1, Loaded, MayLoad, OrderInv
    <3>2. \A c \in Cells : c \in left'[q]
      BY <3>1 DEF Items
    <3>3. mark'[q].s1 = seq /\ UNCHANGED <<pc, lapped, buf, version, seq, writing, truthful>>
      BY <1>7, <2>1 DEF LoadS1, Loaded
    <3>4. QED BY <3>1, <3>2, <3>3 DEF UnlappedInv
  <2>2. CASE r # q
    BY <1>7, <2>2 DEF LoadS1, Loaded, UnlappedInv
  <2>3. QED BY <2>1, <2>2
<1>8. ASSUME NEW r \in Readers, NEW c \in Cells, LoadCell(r, c)
      PROVE  UnlappedInv(q)'
  <2>1. CASE r = q
    <3>1. /\ pc[q] = "body" /\ pc' = pc /\ "s1" \notin left[q] /\ "s1" \notin left'[q]
          /\ left'[q] = left[q] \ {c} /\ buf'[q] = [buf[q] EXCEPT ![c] = cell[c]]
          /\ UNCHANGED <<mark, lapped, seq, version, writing, truthful>>
      BY <1>8, <2>1 DEF LoadCell, Loaded, MayLoad
    <3>2. ASSUME mark[q].s1 = Even, ~lapped[q], truthful, NEW d \in Cells, d \notin left'[q]
          PROVE  buf'[q][d] = version
      BY <3>1, <3>2 DEF UnlappedInv, PageInv
    <3>3. QED BY <3>1, <3>2 DEF UnlappedInv
  <2>2. CASE r # q
    BY <1>8, <2>2 DEF LoadCell, Loaded, UnlappedInv
  <2>3. QED BY <2>1, <2>2
<1>9. ASSUME NEW r \in Readers, LoadS2(r)
      PROVE  UnlappedInv(q)'
  <2>1. /\ mark'[q].s1 = mark[q].s1
        /\ UNCHANGED <<pc, lapped, buf, version, seq, writing, truthful>>
    BY <1>9 DEF LoadS2, Loaded
  <2>2. "s1" \notin left'[q] => "s1" \notin left[q]
    BY <1>9 DEF LoadS2, Loaded
  <2>3. \A c \in Cells : c \notin left'[q] => c \notin left[q]
    BY <1>9 DEF LoadS2, Loaded
  <2>4. QED BY <2>1, <2>2, <2>3 DEF UnlappedInv
<1>10. CASE UNCHANGED vars
  BY <1>10 DEF vars, UnlappedInv
<1>11. QED
  BY <1>2, <1>3, <1>4, <1>5, <1>6, <1>7, <1>8, <1>9, <1>10 DEF Next, ReaderStep

LEMMA AcceptRaisesFloor ==
  ASSUME InOrder, SnapInv, NEW r \in Readers, Accept(r)
  PROVE  /\ \A c \in Cells : floor[r] <= buf[r][c]
         /\ \A c \in Cells : floor'[r] <= cell[c]
         /\ \A q \in Readers : q # r => floor'[q] = floor[q]
<1>1. TypeOK /\ FloorInv(r) /\ pc[r] = "body" /\ left[r] = {} /\ mark[r].s2 = Even
  BY DEF SnapInv, Accept
<1>2. \A c \in Cells : floor[r] <= buf[r][c]
  BY <1>1 DEF FloorInv
<1>3. PICK top \in {floor[r]} \cup {buf[r][c] : c \in Cells} :
           floor' = IF truthful THEN [floor EXCEPT ![r] = top] ELSE floor
  BY DEF Accept
<1>4. truthful => \A d \in Cells : top <= cell[d]
  BY <1>1, <1>3 DEF FloorInv
<1>5. QED BY <1>1, <1>2, <1>3, <1>4 DEF TypeOK, FloorInv

LEMMA StepFloor ==
  ASSUME InOrder, SnapInv, [Next]_vars, NEW q \in Readers
  PROVE  FloorInv(q)'
<1>1. TypeOK /\ PageInv /\ OrderInv(q) /\ FloorInv(q) /\ TypeOK' /\ PageInv'
  BY StepType, StepPage DEF SnapInv
<1> USE <1>1, ItemAssumption DEF TypeOK, page, frame, Even, Odd
<1>2. CASE WriteBegin
  BY <1>2 DEF WriteBegin, FloorInv
<1>3. ASSUME NEW c \in Cells, WriteCell(c)
      PROVE  FloorInv(q)'
  <2>1. \A d \in Cells : cell[d] <= cell'[d] /\ cell'[d] \in Nat
    BY <1>3 DEF WriteCell, PageInv
  <2>2. UNCHANGED <<pc, left, mark, buf, floor, version, truthful>>
    BY <1>3 DEF WriteCell
  <2>3. QED BY <2>1, <2>2 DEF FloorInv
<1>4. CASE WriteEnd
  <2>1. \A d \in Cells : cell[d] = version
    BY <1>4 DEF WriteEnd, PageInv
  <2>2. UNCHANGED <<pc, left, mark, buf, floor, version, cell>>
    BY <1>4 DEF WriteEnd
  <2>3. QED BY <2>1, <2>2 DEF FloorInv
<1>12. CASE WriterDies \/ WriterStarts
  BY <1>12 DEF WriterDies, WriterStarts, FloorInv
<1>5. ASSUME NEW r \in Readers, Call(r) \/ NextSpin(r) \/ GiveUp(r) \/ Retry(r)
      PROVE  FloorInv(q)'
  BY <1>5 DEF Call, NextSpin, GiveUp, Returns, NewBuf, Retry, FloorInv, Items
<1>6. ASSUME NEW r \in Readers, LoadS1(r)
      PROVE  FloorInv(q)'
  <2>1. CASE r = q
    <3>1. left[q] = Items /\ left'[q] = Items \ {"s1"}
      BY <1>6, <2>1 DEF LoadS1, Loaded, MayLoad, OrderInv
    <3>2. (\A c \in Cells : c \in left'[q]) /\ left'[q] # {}
      BY <3>1 DEF Items
    <3>3. UNCHANGED <<pc, buf, floor, version, cell>>
      BY <1>6 DEF LoadS1, Loaded
    <3>4. QED BY <3>2, <3>3 DEF FloorInv
  <2>2. CASE r # q
    BY <1>6, <2>2 DEF LoadS1, Loaded, FloorInv
  <2>3. QED BY <2>1, <2>2
<1>7. ASSUME NEW r \in Readers, NEW c \in Cells, LoadCell(r, c)
      PROVE  FloorInv(q)'
  <2>1. CASE r = q
    <3>1. /\ pc[q] = "body" /\ pc' = pc
          /\ left'[q] = left[q] \ {c} /\ buf'[q] = [buf[q] EXCEPT ![c] = cell[c]]
          /\ UNCHANGED <<mark, floor, version, cell>>
      BY <1>7, <2>1 DEF LoadCell, Loaded, MayLoad
    <3>2. "s2" \in left[q]
      <4>1. "s1" \notin left[q] /\ c \in left[q] /\ c # "s2"
        BY <1>7, <2>1 DEF LoadCell, Loaded, MayLoad
      <4>2. QED BY <3>1, <4>1 DEF OrderInv
    <3>3. QED BY <3>1, <3>2 DEF FloorInv, PageInv
  <2>2. CASE r # q
    BY <1>7, <2>2 DEF LoadCell, Loaded, FloorInv
  <2>3. QED BY <2>1, <2>2
<1>8. ASSUME NEW r \in Readers, LoadS2(r)
      PROVE  FloorInv(q)'
  <2>1. /\ UNCHANGED <<pc, buf, floor, version, cell, seq, truthful>>
        /\ \A c \in Cells : c \notin left'[q] => c \notin left[q]
    BY <1>8 DEF LoadS2, Loaded
  <2>2. CASE r = q
    <3>1. mark'[q].s2 = seq
      BY <1>8, <2>2 DEF LoadS2
    <3>2. QED BY <2>1, <3>1 DEF FloorInv, PageInv
  <2>3. CASE r # q
    BY <1>8, <2>1, <2>3 DEF LoadS2, Loaded, FloorInv
  <2>4. QED BY <2>2, <2>3
<1>9. ASSUME NEW r \in Readers, Accept(r)
      PROVE  FloorInv(q)'
  <2>1. \A c \in Cells : floor'[q] <= cell[c]
    BY <1>9, AcceptRaisesFloor DEF FloorInv
  <2>2. r # q => floor'[q] = floor[q]
    BY <1>9, AcceptRaisesFloor
  <2>3. QED BY <1>9, <2>1, <2>2 DEF Accept, Returns, NewBuf, FloorInv
<1>10. CASE UNCHANGED vars
  BY <1>10 DEF vars, FloorInv
<1>11. QED
  BY <1>2, <1>3, <1>4, <1>5, <1>6, <1>7, <1>8, <1>9, <1>10, <1>12 DEF Next, ReaderStep

LEMMA SnapInvariant == Spec => []SnapInv
<1>1. SnapInv /\ [Next]_vars => SnapInv'
  BY StepType, StepPage, StepOrder, StepUnlapped, StepFloor DEF SnapInv
<1>2. QED BY <1>1, InitSnap, PTL DEF Spec

-----------------------------------------------------------------------------
(* The store.                                                              *)

(* Every step of the store is a step of the page or leaves it alone.       *)
LEMMA StoreRunsPage == StoreSpec => Spec
<1>1. StoreInit => Init
  BY DEF StoreInit
<1>2. [StoreNext]_svars => [Next]_vars
  BY DEF StoreNext, Controller, Advance, Arrive, Refuse, Enter, Read, Work, Leave, CallMethod,
     Next, svars, Goroutines
<1>3. QED BY <1>1, <1>2, PTL DEF StoreSpec, StoreSafety, Spec

(* On a machine that keeps the order of a reader's loads, a snapshot       *)
(* accepted while the sequence byte is truthful, and during which no write *)
(* began, is the payload of one write.                                     *)
THEOREM UnlappedSnapshotsAreWhole == StoreSpec => UnlappedIsWhole
<1>1. SnapInv => (InOrder => \A r \in Readers :
        Accept(r) /\ truthful /\ ~lapped[r] => Whole(buf[r]))
  BY ItemAssumption DEF SnapInv, UnlappedInv, Accept, Whole
<1>2. QED BY <1>1, SnapInvariant, StoreRunsPage, PTL DEF UnlappedIsWhole

(* On such a machine a reader never sees a cell older than one it has      *)
(* returned while the byte was truthful.                                   *)
THEOREM SnapshotsNeverGoBackwards == StoreSpec => NeverBackwards
<1>1. SnapInv => (InOrder => \A r \in Readers :
        Accept(r) => \A c \in Cells : floor[r] <= buf[r][c])
  BY AcceptRaisesFloor
<1>2. QED BY <1>1, SnapInvariant, StoreRunsPage, PTL DEF NeverBackwards

-----------------------------------------------------------------------------
Inside(g) == at[g] \in {"in", "leaving"}

(* Who is inside holds the lock in its mode, a writer alone; the page is   *)
(* read from inside only; and who is inside, but to close, looked at the   *)
(* mapping after it got the lock.                                          *)
StoreTypes ==
  /\ at \in [Goroutines -> {"idle", "called", "blocked", "in", "leaving"}]
  /\ job \in [Goroutines -> {"none", "ReadSnapshot", "writeCommand", "Close"}]
  /\ \A r \in Readers : job[r] \in {"none", "ReadSnapshot"}
  /\ \A g \in Goroutines : job[g] = "none" <=> at[g] = "idle"

LockInv ==
  /\ held => writer # Nobody /\ readers = {}
  /\ \A g \in Goroutines : Inside(g) => IF Reading(g) THEN g \in readers ELSE held /\ writer = g

MapInv ==
  /\ \A r \in Readers : pc[r] # "idle" => at[r] = "in"
  /\ \A g \in Goroutines : at[g] = "in" /\ job[g] # "Close" => mapped

StoreInv == StoreTypes /\ LockInv /\ MapInv

LEMMA InitStore == StoreInit => StoreInv
BY DEF StoreInit, Init, Free, StoreInv, StoreTypes, LockInv, MapInv, Inside, Goroutines

(* A reader's step in the page moves no other reader.                      *)
LEMMA PageSteps ==
  ASSUME TypeOK, NEW r \in Readers, Call(r) \/ ReaderStep(r), NEW q \in Readers, q # r
  PROVE  pc'[q] = pc[q]
BY DEF TypeOK, Call, ReaderStep, NextSpin, GiveUp, Returns, LoadS1, LoadCell, LoadS2, Loaded, Retry, Accept

LEMMA WriterKeepsReaders == Controller => pc' = pc
BY DEF Controller, WriteBegin, WriteCell, WriteEnd, WriterDies, WriterStarts, frame

LEMMA StepStore == TypeOK /\ StoreInv /\ [StoreNext]_svars => StoreInv'
<1> SUFFICES ASSUME TypeOK, StoreInv, [StoreNext]_svars
             PROVE  StoreInv'
  OBVIOUS
<1> USE DEF StoreInv, StoreTypes, Goes, Inside, Reading
<1>1. CASE Controller
  BY <1>1, WriterKeepsReaders DEF Controller, store, mutex, LockInv, MapInv
<1>2. ASSUME NEW g \in Goroutines, NEW m \in Methods(g), CallMethod(g, m)
      PROVE  StoreInv'
  <2>1. m \in {"ReadSnapshot", "writeCommand", "Close"} /\ (g \in Readers => m = "ReadSnapshot")
    BY GoroutineAssumption DEF Methods, Goroutines
  <2>2. QED BY <1>2, <2>1 DEF CallMethod, LockInv, MapInv, mutex, vars
<1>3. ASSUME NEW g \in Goroutines, Arrive(g)
      PROVE  StoreInv'
  <2>1. StoreTypes' /\ MapInv'
    BY <1>3 DEF Arrive, MapInv, vars
  <2>2. LockInv'
    BY <1>3, GoroutineAssumption DEF Arrive, LockInv, RLock, Announce, Goroutines
  <2>3. QED BY <2>1, <2>2
<1>4. ASSUME NEW g \in Goroutines, Gets(g)
      PROVE  Goes(g, "in") \/ Goes(g, "leaving") => LockInv' /\ StoreTypes'
  BY <1>4, GoroutineAssumption DEF Gets, LockInv, Acquire, mutex, Goroutines
<1>5. ASSUME NEW g \in Goroutines, Refuse(g)
      PROVE  StoreInv'
  <2>1. Gets(g) /\ Goes(g, "leaving")
    BY <1>5 DEF Refuse
  <2>2. LockInv' /\ StoreTypes'
    BY <1>4, <2>1
  <2>3. MapInv'
    BY <1>5 DEF Refuse, Gets, MapInv, vars
  <2>4. QED BY <2>2, <2>3
<1>6. ASSUME NEW g \in Goroutines, Enter(g)
      PROVE  StoreInv'
  <2>1. Gets(g) /\ Goes(g, "in")
    BY <1>6 DEF Enter
  <2>2. LockInv' /\ StoreTypes'
    BY <1>4, <2>1
  <2>3. \A q \in Readers : q # g => pc'[q] = pc[q]
    BY <1>6, PageSteps DEF Enter, vars
  <2>4. MapInv'
    BY <1>6, <2>3 DEF Enter, Gets, Refused, MapInv
  <2>5. QED BY <2>2, <2>4
<1>7. ASSUME NEW r \in Readers, Read(r)
      PROVE  StoreInv'
  <2>1. \A q \in Readers : q # r => pc'[q] = pc[q]
    BY <1>7, PageSteps DEF Read
  <2>2. QED BY <1>7, <2>1 DEF Read, LockInv, MapInv, mutex, Goroutines
<1>8. ASSUME NEW c \in Callers, Work(c)
      PROVE  StoreInv'
  BY <1>8, GoroutineAssumption DEF Work, LockInv, MapInv, mutex, vars, Goroutines
<1>9. ASSUME NEW g \in Goroutines, Leave(g)
      PROVE  StoreInv'
  BY <1>9 DEF Leave, LockInv, MapInv, RUnlock, Unlock, vars
<1>10. CASE UNCHANGED svars
  BY <1>10 DEF svars, vars, mutex, store, LockInv, MapInv
<1>11. QED
  BY <1>1, <1>2, <1>3, <1>5, <1>6, <1>7, <1>8, <1>9, <1>10 DEF StoreNext, Advance

LEMMA StoreInvariant == StoreSpec => []StoreInv
<1>1. SnapInv => TypeOK
  BY DEF SnapInv
<1>2. QED
  BY <1>1, InitStore, StepStore, SnapInvariant, StoreRunsPage, PTL DEF StoreSpec, StoreSafety

(* No goroutine is in a page that Close has unmapped.                      *)
THEOREM NoUnmappedAccess == StoreSpec => []NeverUnmapped
<1>1. StoreInv => NeverUnmapped
  BY DEF StoreInv, MapInv, StoreTypes, NeverUnmapped, Goroutines
<1>2. QED BY <1>1, StoreInvariant, PTL

=============================================================================
