-------------------------- MODULE CommandPageProofs --------------------------
(***************************************************************************)
(* Proofs about the command page, for any number of servers, handlers,     *)
(* commands and tries, with servers dying and starting again at any point. *)
(***************************************************************************)
EXTENDS CommandPage, TLAPS

(* What the properties need to be inductive: a lock is only taken from a   *)
(* word seen unlocked, and the loop of seqLockCommandsEnd is on its first  *)
(* try when it stands at its head.                                         *)
PageInv ==
  /\ TypeOK
  /\ LockedIffHeld
  /\ UnlockCannotFail
  /\ PublishesOwnCommand
  /\ \A c \in Callers :
       /\ pc[c] = "cas_lock" => ~seen[c].locked
       /\ pc[c] = "end" => spin[c] = 0

LEMMA InitPage == Init => PageInv
<1> SUFFICES ASSUME Init
             PROVE  PageInv
  OBVIOUS
<1>1. word \in Words /\ word.locked \in BOOLEAN /\ word.cmd \in Commands \cup {Nothing}
  BY DEF Init, Words
<1>2. TypeOK
  BY <1>1, CallerAssumption DEF Init, TypeOK, Steps, Words, Blank
<1>3. QED
  BY <1>1, <1>2, CallerAssumption DEF Init, PageInv, LockedIffHeld, UnlockCannotFail,
     PublishesOwnCommand, InPage

LEMMA StepType == TypeOK /\ [Next]_vars => TypeOK'
<1> SUFFICES ASSUME TypeOK, [Next]_vars
             PROVE  TypeOK'
  OBVIOUS
<1> USE CallerAssumption DEF TypeOK
<1>1. Blank \in Words /\ word.cmd \in Commands \cup {Nothing}
  BY DEF Blank, Words
<1>2. ASSUME NEW c \in Callers, NEW cmd \in Commands, Call(c, cmd)
      PROVE  TypeOK'
  BY <1>2 DEF Call, At, Go, Steps
<1>3. ASSUME NEW c \in Callers, LockMutex(c)
      PROVE  TypeOK'
  BY <1>3 DEF LockMutex, At, Go, Steps
<1>4. ASSUME NEW c \in Callers, BeginLoad(c)
      PROVE  TypeOK'
  <2>1. spin[c] + 1 \in 0 .. MaxSpins
    BY <1>4 DEF BeginLoad, Load
  <2>2. QED BY <1>4, <2>1 DEF BeginLoad, Load, At, Go, Steps
<1>5. ASSUME NEW c \in Callers, BeginFails(c)
      PROVE  TypeOK'
  BY <1>5 DEF BeginFails, Return, At, Go, Steps
<1>6. ASSUME NEW c \in Callers, CasLock(c)
      PROVE  TypeOK'
  <2>1. [word EXCEPT !.locked = TRUE] \in Words
    BY DEF Words
  <2>2. QED BY <1>1, <1>6, <2>1 DEF CasLock, At, Go, Steps
<1>7. ASSUME NEW c \in Callers, Store(c)
      PROVE  TypeOK'
  <2>1. [word EXCEPT !.cmd = request[c]] \in Words
    BY DEF Words
  <2>2. QED BY <1>7, <2>1 DEF Store, At, Go, Steps
<1>8. ASSUME NEW c \in Callers, EndLoad(c)
      PROVE  TypeOK'
  <2>1. spin[c] + 1 \in 0 .. MaxSpins
    BY <1>8 DEF EndLoad, Load
  <2>2. QED BY <1>8, <2>1 DEF EndLoad, Load, At, Go, Steps
<1>9. ASSUME NEW c \in Callers, CasUnlock(c)
      PROVE  TypeOK'
  <2>1. [word EXCEPT !.locked = FALSE] \in Words
    BY DEF Words
  <2>2. QED BY <1>1, <1>9, <2>1 DEF CasUnlock, At, Go, Steps
<1>10. ASSUME NEW c \in Callers, Flush(c)
       PROVE  TypeOK'
  BY <1>10 DEF Flush, Return, At, Go, Steps
<1>11. ASSUME NEW p \in Procs, Crash(p)
       PROVE  TypeOK'
  BY <1>1, <1>11 DEF Crash, Steps
<1>12. CASE UNCHANGED vars
  BY <1>12 DEF vars
<1>13. QED
  BY <1>2, <1>3, <1>4, <1>5, <1>6, <1>7, <1>8, <1>9, <1>10, <1>11, <1>12 DEF Next, Step

LEMMA StepPage == PageInv /\ [Next]_vars => PageInv'
<1> SUFFICES ASSUME PageInv, [Next]_vars
             PROVE  PageInv'
  OBVIOUS
<1>1. TypeOK /\ TypeOK'
  BY StepType DEF PageInv
<1> DEFINE I(c) ==
      /\ InPage(c) <=> owner = c
      /\ pc[c] = "end" => spin[c] < MaxSpins /\ word.locked
      /\ pc[c] = "cas_unlock" => seen[c] = word
      /\ pc[c] \in {"end", "cas_unlock"} => word.cmd = request[c]
      /\ pc[c] = "cas_lock" => ~seen[c].locked
      /\ pc[c] = "end" => spin[c] = 0
    G ==
      /\ word.locked <=> owner # None
      /\ ~word.locked => word.cmd = stable
<1>2. G /\ \A c \in Callers : I(c)
  BY DEF PageInv, LockedIffHeld, UnlockCannotFail, PublishesOwnCommand
<1>3. SUFFICES G' /\ \A c \in Callers : I(c)'
  BY <1>1 DEF PageInv, LockedIffHeld, UnlockCannotFail, PublishesOwnCommand
<1> USE <1>1, CallerAssumption DEF TypeOK, InPage
<1>4. ASSUME NEW c \in Callers, NEW cmd \in Commands, Call(c, cmd)
      PROVE  G' /\ \A d \in Callers : I(d)'
  BY <1>2, <1>4 DEF Call, At, Go
<1>5. ASSUME NEW c \in Callers, LockMutex(c)
      PROVE  G' /\ \A d \in Callers : I(d)'
  BY <1>2, <1>5 DEF LockMutex, At, Go
<1>6. ASSUME NEW c \in Callers, BeginLoad(c)
      PROVE  G' /\ \A d \in Callers : I(d)'
  BY <1>2, <1>6 DEF BeginLoad, Load, At, Go, Words
<1>7. ASSUME NEW c \in Callers, BeginFails(c)
      PROVE  G' /\ \A d \in Callers : I(d)'
  BY <1>2, <1>7 DEF BeginFails, Return, At, Go
<1>8. ASSUME NEW c \in Callers, CasLock(c)
      PROVE  G' /\ \A d \in Callers : I(d)'
  <2>1. CASE word = seen[c]
    <3>1. ~word.locked /\ owner = None
      BY <1>2, <1>8, <2>1 DEF CasLock, At
    <3>2. /\ word'.locked /\ owner' = c /\ pc' = [pc EXCEPT ![c] = "store"]
          /\ UNCHANGED <<spin, request, stable>>
          /\ seen' = [seen EXCEPT ![c] = Blank]
      BY <1>8, <2>1 DEF CasLock, Go, Words
    <3>3. \A d \in Callers : ~InPage(d)
      BY <1>2, <3>1
    <3>4. G'
      BY <3>2
    <3>5. QED BY <1>2, <3>2, <3>3, <3>4
  <2>2. CASE word # seen[c]
    BY <1>2, <1>8, <2>2 DEF CasLock, At, Go
  <2>3. QED BY <2>1, <2>2
<1>9. ASSUME NEW c \in Callers, Store(c)
      PROVE  G' /\ \A d \in Callers : I(d)'
  <2>1. owner = c /\ word.locked /\ \A d \in Callers : InPage(d) => d = c
    BY <1>2, <1>9 DEF Store, At
  <2>2. word'.locked /\ word'.cmd = request[c]
    BY <1>9, <2>1 DEF Store, Words
  <2>3. QED BY <1>2, <1>9, <2>1, <2>2 DEF Store, At, Go
<1>10. ASSUME NEW c \in Callers, EndLoad(c)
       PROVE  G' /\ \A d \in Callers : I(d)'
  BY <1>2, <1>10 DEF EndLoad, Load, At, Go
<1>11. ASSUME NEW c \in Callers, CasUnlock(c)
       PROVE  G' /\ \A d \in Callers : I(d)'
  <2>1. owner = c /\ word = seen[c] /\ \A d \in Callers : InPage(d) => d = c
    BY <1>2, <1>11 DEF CasUnlock, At
  <2>2. /\ ~word'.locked /\ word'.cmd = word.cmd /\ owner' = None /\ stable' = word.cmd
        /\ pc' = [pc EXCEPT ![c] = "flush"]
        /\ UNCHANGED <<spin, request>>
        /\ seen' = [seen EXCEPT ![c] = Blank]
    BY <1>11, <2>1 DEF CasUnlock, Go, Words
  <2>3. QED BY <1>2, <2>1, <2>2
<1>12. ASSUME NEW c \in Callers, Flush(c)
       PROVE  G' /\ \A d \in Callers : I(d)'
  BY <1>2, <1>12 DEF Flush, Return, At, Go
<1>13. ASSUME NEW p \in Procs, Crash(p)
       PROVE  G' /\ \A d \in Callers : I(d)'
  <2>1. G'
    BY <1>2, <1>13 DEF Crash
  <2>2. ASSUME NEW d \in Callers
        PROVE  I(d)'
    <3>1. CASE Home[d] = p
      BY <1>2, <1>13, <3>1 DEF Crash
    <3>2. CASE Home[d] # p
      BY <1>2, <1>13, <3>2 DEF Crash
    <3>3. QED BY <3>1, <3>2
  <2>3. QED BY <2>1, <2>2
<1>14. CASE UNCHANGED vars
  BY <1>2, <1>14 DEF vars
<1>15. QED
  BY <1>4, <1>5, <1>6, <1>7, <1>8, <1>9, <1>10, <1>11, <1>12, <1>13, <1>14 DEF Next, Step

LEMMA PageInvariant == Spec => []PageInv
BY InitPage, StepPage, PTL DEF Spec, Safety

(* Page, handlers and histories keep their types; the tries are counted    *)
(* within maxSeqlockSpins.                                                 *)
THEOREM TypeCorrect == Spec => []TypeOK
<1>1. PageInv => TypeOK
  BY DEF PageInv
<1>2. QED BY <1>1, PageInvariant, PTL

(* No two handlers are inside the page together, in one process or in two. *)
THEOREM PageIsExclusive == Spec => []MutualExclusion
<1>1. PageInv => MutualExclusion
  BY DEF PageInv, LockedIffHeld, MutualExclusion
<1>2. QED BY <1>1, PageInvariant, PTL

(* The lock bit tells exactly whether somebody is, or died, in the page.   *)
THEOREM LockBitIsExact == Spec => []LockedIffHeld
<1>1. PageInv => LockedIffHeld
  BY DEF PageInv
<1>2. QED BY <1>1, PageInvariant, PTL

(* The error return of seqLockCommandsEnd is unreachable.                  *)
THEOREM UnlockSucceeds == Spec => []UnlockCannotFail
<1>1. PageInv => UnlockCannotFail
  BY DEF PageInv
<1>2. QED BY <1>1, PageInvariant, PTL

(* What a handler unlocks is its own command.                              *)
THEOREM CommandsAreNotMixed == Spec => []PublishesOwnCommand
<1>1. PageInv => PublishesOwnCommand
  BY DEF PageInv
<1>2. QED BY <1>1, PageInvariant, PTL

(* A page some process died in is frozen for good.                         *)
THEOREM DeadPageStaysDead == Spec => DeadPageIsFrozen
<1>1. PageInv /\ [Next]_vars => (owner = Lost => owner' = Lost /\ word' = word)
  <2> SUFFICES ASSUME PageInv, [Next]_vars, owner = Lost
               PROVE  owner' = Lost /\ word' = word
    OBVIOUS
  <2>1. word.locked /\ \A c \in Callers : ~InPage(c)
    BY CallerAssumption DEF PageInv, LockedIffHeld
  <2>2. \A c \in Callers : pc[c] = "cas_lock" => seen[c] # word
    BY <2>1 DEF PageInv
  <2>3. QED
    BY <2>1, <2>2, CallerAssumption DEF Next, Step, Call, LockMutex, BeginLoad, Load, BeginFails,
       CasLock, Store, EndLoad, CasUnlock, Flush, Crash, Return, At, InPage, vars
<1>2. QED BY <1>1, PageInvariant, PTL DEF DeadPageIsFrozen, Spec, Safety

-----------------------------------------------------------------------------
(* The refinement: the mailbox changes when the lock bit is cleared.       *)

StageMap == [c \in Callers |-> Stage(c)]

LEMMA InitMailbox == Init => Mailbox!Init
<1> SUFFICES ASSUME Init
             PROVE  Mailbox!Init
  OBVIOUS
<1>1. stable \in Commands \cup {Nothing}
  BY DEF Init, Words
<1>2. StageMap = [c \in Callers |-> "idle"]
  BY DEF Init, StageMap, Stage
<1>3. QED BY <1>1, <1>2 DEF Init, StageMap, Mailbox!Init

(* A step of one caller changes the stage of that caller alone.            *)
LEMMA StageMoves ==
  ASSUME TypeOK, NEW c \in Callers, NEW there \in Steps, Go(c, there)
  PROVE  StageMap' = [StageMap EXCEPT ![c] = CASE there = "idle"  -> "idle"
                                               [] there = "flush" -> "placed"
                                               [] OTHER           -> "called"]
<1>1. \A d \in Callers : pc'[d] = IF d = c THEN there ELSE pc[d]
  BY DEF Go, TypeOK
<1>2. QED BY <1>1 DEF StageMap, Stage

LEMMA StepMailbox ==
  ASSUME PageInv, [Next]_vars
  PROVE  [Mailbox!Next]_(Mailbox!vars)
<1>1. TypeOK
  BY DEF PageInv
<1>2. \A c \in Callers : StageMap[c] = Stage(c)
  BY DEF StageMap
<1> USE CallerAssumption DEF Steps
<1>3. ASSUME NEW c \in Callers, NEW cmd \in Commands, Call(c, cmd)
      PROVE  [Mailbox!Next]_(Mailbox!vars)
  <2>1. StageMap' = [StageMap EXCEPT ![c] = "called"]
    BY <1>1, <1>3, StageMoves DEF Call
  <2>2. Stage(c) = "idle"
    BY <1>3 DEF Call, At, Stage
  <2>3. Mailbox!Call(c, cmd)
    BY <1>2, <1>3, <2>1, <2>2 DEF Call, StageMap, Mailbox!Call
  <2>4. QED BY <2>3 DEF Mailbox!Next
<1>4. ASSUME NEW c \in Callers, LockMutex(c) \/ BeginLoad(c) \/ Store(c) \/ EndLoad(c)
      PROVE  UNCHANGED Mailbox!vars
  <2>1. StageMap' = StageMap
    BY <1>1, <1>4 DEF LockMutex, BeginLoad, Store, EndLoad, Load, At, Go, StageMap, Stage, TypeOK
  <2>2. QED
    BY <1>4, <2>1 DEF LockMutex, BeginLoad, Store, EndLoad, Load, StageMap, Mailbox!vars
<1>5. ASSUME NEW c \in Callers, BeginFails(c)
      PROVE  [Mailbox!Next]_(Mailbox!vars)
  <2>1. StageMap' = [StageMap EXCEPT ![c] = "idle"] /\ Stage(c) = "called"
    BY <1>1, <1>5, StageMoves DEF BeginFails, Return, At, Stage
  <2>2. Mailbox!Fail(c)
    BY <1>2, <1>5, <2>1 DEF BeginFails, Return, StageMap, Mailbox!Fail, Mailbox!Return
  <2>3. QED BY <2>2 DEF Mailbox!Next
<1>6. ASSUME NEW c \in Callers, CasLock(c)
      PROVE  UNCHANGED Mailbox!vars
  <2>1. StageMap' = StageMap
    BY <1>1, <1>6 DEF CasLock, At, Go, StageMap, Stage, TypeOK
  <2>2. (owner = Lost)' = (owner = Lost)
    <3>1. ~seen[c].locked
      BY <1>6 DEF PageInv, CasLock, At
    <3>2. QED BY <1>6, <3>1 DEF PageInv, LockedIffHeld, CasLock
  <2>3. QED BY <1>6, <2>1, <2>2 DEF CasLock, StageMap, Mailbox!vars
<1>7. ASSUME NEW c \in Callers, CasUnlock(c)
      PROVE  [Mailbox!Next]_(Mailbox!vars)
  <2>1. word = seen[c] /\ owner = c /\ word.cmd = request[c]
    BY <1>7 DEF PageInv, LockedIffHeld, UnlockCannotFail, PublishesOwnCommand, CasUnlock, At, InPage
  <2>2. StageMap' = [StageMap EXCEPT ![c] = "placed"] /\ Stage(c) = "called"
    BY <1>1, <1>7, <2>1, StageMoves DEF CasUnlock, At, Stage
  <2>3. owner # Lost /\ owner' # Lost /\ stable' = request[c]
    BY <1>7, <2>1 DEF CasUnlock
  <2>4. Mailbox!Place(c)
    BY <1>2, <1>7, <2>2, <2>3 DEF CasUnlock, StageMap, Mailbox!Place
  <2>5. QED BY <2>4 DEF Mailbox!Next
<1>8. ASSUME NEW c \in Callers, Flush(c)
      PROVE  [Mailbox!Next]_(Mailbox!vars)
  <2>1. StageMap' = [StageMap EXCEPT ![c] = "idle"] /\ Stage(c) = "placed"
    BY <1>1, <1>8, StageMoves DEF Flush, Return, At, Stage
  <2>2. Mailbox!Succeed(c) \/ Mailbox!FailLate(c)
    BY <1>2, <1>8, <2>1 DEF Flush, Return, StageMap, Mailbox!Succeed, Mailbox!FailLate, Mailbox!Return
  <2>3. QED BY <2>2 DEF Mailbox!Next
<1>9. ASSUME NEW p \in Procs, Crash(p)
      PROVE  [Mailbox!Next]_(Mailbox!vars)
  <2> DEFINE gone == {c \in Callers : Home[c] = p}
  <2>1. StageMap' = [c \in Callers |-> IF c \in gone THEN "idle" ELSE StageMap[c]]
    BY <1>9 DEF Crash, StageMap, Stage
  <2>2. request' = [c \in Callers |-> IF c \in gone THEN Nothing ELSE request[c]]
    BY <1>9 DEF Crash
  <2>3. (owner = Lost)' \in {owner = Lost, TRUE}
    BY <1>9 DEF Crash
  <2>4. Mailbox!Die(gone)
    BY <1>9, <2>1, <2>2, <2>3 DEF Crash, StageMap, Mailbox!Die
  <2>5. QED BY <2>4 DEF Mailbox!Next
<1>10. CASE UNCHANGED vars
  <2>1. StageMap' = StageMap
    BY <1>10 DEF vars, StageMap, Stage
  <2>2. QED BY <1>10, <2>1 DEF vars, StageMap, Mailbox!vars
<1>11. QED
  BY <1>3, <1>4, <1>5, <1>6, <1>7, <1>8, <1>9, <1>10 DEF Next, Step

(* writeCommand replaces the mailbox's command at one instant: every       *)
(* acknowledged command was in the page between its call and its reply.    *)
THEOREM CommandPageImplementsMailbox == Spec => ImplementsMailbox
<1>1. PageInv /\ [Next]_vars => [Mailbox!Next]_(Mailbox!vars)
  BY StepMailbox
<1>2. QED
  BY <1>1, InitMailbox, PageInvariant, PTL DEF Spec, Safety, ImplementsMailbox, Mailbox!Spec

=============================================================================
