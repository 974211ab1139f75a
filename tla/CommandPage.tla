----------------------------- MODULE CommandPage -----------------------------
(***************************************************************************)
(* writeCommand of the Go store: HTTP handlers that put a calibration      *)
(* command into the one page of commands.bin.  The handlers of one server  *)
(* take the store's mutex; the servers, and whatever else maps the file,   *)
(* take a lock made of the low bit of the page's first word with compare-  *)
(* and-swap, a bounded number of times.  The page outlives the processes:  *)
(* a server that is killed takes its handlers and its mutex with it and    *)
(* leaves the page as it was.                                              *)
(*                                                                         *)
(* The first word holds the lock bit in byte 0 and the command in byte 1;  *)
(* bytes 2 and 3 are only ever written 0.                                  *)
(***************************************************************************)
EXTENDS Integers

CONSTANTS
  Procs,      \* the server processes that map commands.bin
  Callers,    \* their request handlers
  Home,       \* caller -> its process
  Commands,   \* CmdCalibrateIMU, CmdCalibrateCompass
  Nothing,    \* CmdNone
  MaxSpins,   \* maxSeqlockSpins
  None,       \* nobody
  Lost        \* stands for the process that died inside the page

ASSUME CallerAssumption ==
  /\ Home \in [Callers -> Procs]
  /\ MaxSpins \in Nat \ {0}
  /\ None \notin Callers
  /\ Lost \notin Callers
  /\ Lost # None
  /\ Nothing \notin Commands

VARIABLES
  word,     \* the first word of commands.bin
  mu,       \* process -> the caller that holds Store.mu
  pc,       \* caller -> where it stands in writeCommand
  spin,     \* caller -> tries of the loop it is in
  seen,     \* caller -> the word its compare-and-swap expects
  request,  \* caller -> the command it was called with
  reply,    \* caller -> what its latest finished call returned
  owner,    \* history: who last took the lock bit and has not cleared it
  stable    \* history: the command of the last unlocked page

vars == <<word, mu, pc, spin, seen, request, reply, owner, stable>>

Words == [locked : BOOLEAN, cmd : Commands \cup {Nothing}]

Blank == [locked |-> FALSE, cmd |-> Nothing]

(* A new file is all zeroes, and an old one is what was left in it: a page *)
(* some process died in stays locked.                                      *)
Init ==
  /\ word \in Words
  /\ mu = [p \in Procs |-> None]
  /\ pc = [c \in Callers |-> "idle"]
  /\ spin = [c \in Callers |-> 0]
  /\ seen = [c \in Callers |-> Blank]
  /\ request = [c \in Callers |-> Nothing]
  /\ reply = [c \in Callers |-> "none"]
  /\ owner = IF word.locked THEN Lost ELSE None
  /\ stable = word.cmd

At(c, here) == pc[c] = here
Go(c, there) == pc' = [pc EXCEPT ![c] = there]

(* QueueCalibrateIMU or QueueCalibrateCompass is called.                   *)
Call(c, cmd) ==
  /\ At(c, "idle")
  /\ Go(c, "lock")
  /\ request' = [request EXCEPT ![c] = cmd]
  /\ reply' = [reply EXCEPT ![c] = "none"]
  /\ UNCHANGED <<word, mu, spin, seen, owner, stable>>

LockMutex(c) ==
  /\ At(c, "lock")
  /\ mu[Home[c]] = None
  /\ mu' = [mu EXCEPT ![Home[c]] = c]
  /\ Go(c, "begin")
  /\ UNCHANGED <<word, spin, seen, request, reply, owner, stable>>

(* Faulty variant of Return: the mutex is not unlocked.                    *)
ReturnHolding(c, r) ==
  /\ reply' = [reply EXCEPT ![c] = r]
  /\ spin' = [spin EXCEPT ![c] = 0]
  /\ request' = [request EXCEPT ![c] = Nothing]
  /\ Go(c, "idle")
  /\ UNCHANGED mu

(* Every return runs the deferred mu.Unlock and ends the locals' life.     *)
Return(c, r) ==
  /\ reply' = [reply EXCEPT ![c] = r]
  /\ mu' = [mu EXCEPT ![Home[c]] = None]
  /\ spin' = [spin EXCEPT ![c] = 0]
  /\ request' = [request EXCEPT ![c] = Nothing]
  /\ Go(c, "idle")

(* A loop of atomic loads that waits for the lock bit to be "locked".      *)
Load(c, here, locked, there) ==
  /\ At(c, here)
  /\ spin[c] < MaxSpins
  /\ spin' = [spin EXCEPT ![c] = @ + 1]
  /\ IF word.locked = locked
       THEN seen' = [seen EXCEPT ![c] = word] /\ Go(c, there)
       ELSE UNCHANGED <<seen, pc>>
  /\ UNCHANGED <<word, mu, request, reply, owner, stable>>

BeginLoad(c) == Load(c, "begin", FALSE, "cas_lock")

(* Faulty variants of BeginFails: it breaks the lock, or hides the failure.*)
BeginBreaksLock(c) ==
  /\ At(c, "begin")
  /\ spin[c] = MaxSpins
  /\ Return(c, "error")
  /\ word' = [word EXCEPT !.locked = FALSE]
  /\ UNCHANGED <<seen, owner, stable>>

BeginFailsQuietly(c) ==
  /\ At(c, "begin")
  /\ spin[c] = MaxSpins
  /\ Return(c, "ok")
  /\ UNCHANGED <<word, seen, owner, stable>>

(* "command seqlock lock retries exhausted"                                *)
BeginFails(c) ==
  /\ At(c, "begin")
  /\ spin[c] = MaxSpins
  /\ Return(c, "error")
  /\ UNCHANGED <<word, seen, owner, stable>>

(* Faulty variant of CasLock: a store instead of a compare-and-swap.       *)
BlindLock(c) ==
  /\ At(c, "cas_lock")
  /\ word' = [word EXCEPT !.locked = TRUE]
  /\ owner' = c
  /\ Go(c, "store")
  /\ seen' = [seen EXCEPT ![c] = Blank]
  /\ UNCHANGED <<mu, spin, request, reply, stable>>

(* The compare-and-swap covers the whole word, command included.           *)
CasLock(c) ==
  /\ At(c, "cas_lock")
  /\ IF word = seen[c]
       THEN /\ word' = [word EXCEPT !.locked = TRUE]
            /\ owner' = c
            /\ Go(c, "store")
       ELSE /\ Go(c, "begin")
            /\ UNCHANGED <<word, owner>>
  /\ seen' = [seen EXCEPT ![c] = Blank]
  /\ UNCHANGED <<mu, spin, request, reply, stable>>

(* Faulty variants of Store: it writes the lock byte too, or it respects a *)
(* command nobody has consumed.                                            *)
StoreWholeWord(c) ==
  /\ At(c, "store")
  /\ word' = [locked |-> FALSE, cmd |-> request[c]]
  /\ spin' = [spin EXCEPT ![c] = 0]
  /\ Go(c, "end")
  /\ UNCHANGED <<mu, seen, request, reply, owner, stable>>

StoreIfEmpty(c) ==
  /\ At(c, "store")
  /\ word' = [word EXCEPT !.cmd = IF @ = Nothing THEN request[c] ELSE @]
  /\ spin' = [spin EXCEPT ![c] = 0]
  /\ Go(c, "end")
  /\ UNCHANGED <<mu, seen, request, reply, owner, stable>>

Store(c) ==
  /\ At(c, "store")
  /\ word' = [word EXCEPT !.cmd = request[c]]
  /\ spin' = [spin EXCEPT ![c] = 0]
  /\ Go(c, "end")
  /\ UNCHANGED <<mu, seen, request, reply, owner, stable>>

(* seqLockCommandsEnd gives up after MaxSpins tries too.  UnlockCannotFail *)
(* says that it never comes to that, and the model has no step for it.     *)
EndLoad(c) == Load(c, "end", TRUE, "cas_unlock")

CasUnlock(c) ==
  /\ At(c, "cas_unlock")
  /\ IF word = seen[c]
       THEN /\ word' = [word EXCEPT !.locked = FALSE]
            /\ owner' = None
            /\ stable' = word.cmd
            /\ Go(c, "flush")
       ELSE /\ Go(c, "end")
            /\ UNCHANGED <<word, owner, stable>>
  /\ seen' = [seen EXCEPT ![c] = Blank]
  /\ UNCHANGED <<mu, spin, request, reply>>

(* msync fails or not; the command is in the page either way.              *)
Flush(c) ==
  /\ At(c, "flush")
  /\ \E r \in {"ok", "error"} : Return(c, r)
  /\ UNCHANGED <<word, seen, owner, stable>>

(* Faulty variant of Crash: the restarted server clears a held lock bit.   *)
CrashAndClear(p) ==
  LET Survivors(f, gone) == [c \in Callers |-> IF Home[c] = p THEN gone ELSE f[c]]
  IN /\ pc' = Survivors(pc, "idle")
     /\ spin' = Survivors(spin, 0)
     /\ seen' = Survivors(seen, Blank)
     /\ request' = Survivors(request, Nothing)
     /\ mu' = [mu EXCEPT ![p] = None]
     /\ owner' = None
     /\ word' = [word EXCEPT !.locked = FALSE]
     /\ UNCHANGED <<reply, stable>>

(* The server is killed and started again: Open maps the file as it is.    *)
Crash(p) ==
  LET Survivors(f, gone) == [c \in Callers |-> IF Home[c] = p THEN gone ELSE f[c]]
  IN /\ pc' = Survivors(pc, "idle")
     /\ spin' = Survivors(spin, 0)
     /\ seen' = Survivors(seen, Blank)
     /\ request' = Survivors(request, Nothing)
     /\ mu' = [mu EXCEPT ![p] = None]
     /\ owner' = IF owner \in Callers /\ Home[owner] = p THEN Lost ELSE owner
     /\ UNCHANGED <<word, reply, stable>>

Step(c) ==
  \/ LockMutex(c)
  \/ BeginLoad(c)
  \/ BeginFails(c)
  \/ CasLock(c)
  \/ Store(c)
  \/ EndLoad(c)
  \/ CasUnlock(c)
  \/ Flush(c)

Next ==
  \/ \E c \in Callers, cmd \in Commands : Call(c, cmd)
  \/ \E c \in Callers : Step(c)
  \/ \E p \in Procs : Crash(p)

(* The Go runtime runs every goroutine that can run, and sync.Mutex hands  *)
(* the lock to a waiter of more than a millisecond: nobody waits for ever. *)
Fairness ==
  \A c \in Callers : WF_vars(Step(c)) /\ SF_vars(LockMutex(c))

Safety == Init /\ [][Next]_vars
Spec == Safety /\ Fairness

-----------------------------------------------------------------------------
Steps ==
  {"idle", "lock", "begin", "cas_lock", "store", "end", "cas_unlock", "flush"}

(* Type invariant: page, mutexes and callers have their types, and no loop *)
(* tries more than maxSeqlockSpins times.                                  *)
TypeOK ==
  /\ word \in Words
  /\ mu \in [Procs -> Callers \cup {None}]
  /\ pc \in [Callers -> Steps]
  /\ spin \in [Callers -> 0 .. MaxSpins]
  /\ seen \in [Callers -> Words]
  /\ request \in [Callers -> Commands \cup {Nothing}]
  /\ reply \in [Callers -> {"none", "ok", "error"}]
  /\ owner \in Callers \cup {None, Lost}
  /\ stable \in Commands \cup {Nothing}

InPage(c) == pc[c] \in {"store", "end", "cas_unlock"}

(* No two handlers, of one server or of several, are between               *)
(* seqLockCommandsBegin and seqLockCommandsEnd together, not even after a  *)
(* server died there.                                                      *)
MutualExclusion == \A c, d \in Callers : InPage(c) /\ InPage(d) => c = d

(* The lock bit of the page is set exactly while somebody is inside it or  *)
(* died inside it: no unlock clears another's lock, no lock is lost.       *)
LockedIffHeld ==
  /\ word.locked <=> owner # None
  /\ \A c \in Callers : InPage(c) <=> owner = c

(* seqLockCommandsEnd never runs out of tries: the holder's first          *)
(* compare-and-swap succeeds, so no handler returns with the page locked.  *)
UnlockCannotFail ==
  \A c \in Callers :
    /\ pc[c] = "end" => spin[c] < MaxSpins /\ word.locked
    /\ pc[c] = "cas_unlock" => seen[c] = word

(* A second process cannot slip its command under the lock of the first:   *)
(* the page a handler unlocks carries the command it was called with, and  *)
(* an unlocked page carries the last command that was published so.        *)
PublishesOwnCommand ==
  /\ \A c \in Callers : pc[c] \in {"end", "cas_unlock"} => word.cmd = request[c]
  /\ ~word.locked => word.cmd = stable

(* Nothing repairs the page: from the moment a server dies inside it, no   *)
(* command is ever published again, by any process, through any restart.   *)
DeadPageIsFrozen == [][owner = Lost => owner' = Lost /\ word' = word]_vars

(* A call always returns, with an error if need be, whoever holds or has   *)
(* abandoned the page.                                                     *)
CallsReturn == \A c \in Callers : pc[c] # "idle" ~> pc[c] = "idle"

(* writeCommand is an atomic replacement of the mailbox's command.         *)
Stage(c) ==
  CASE pc[c] = "idle"  -> "idle"
    [] pc[c] = "flush" -> "placed"
    [] OTHER           -> "called"

Mailbox == INSTANCE CommandMailbox WITH
  content <- stable,
  dead <- owner = Lost,
  stage <- [c \in Callers |-> Stage(c)]

ImplementsMailbox == Mailbox!Spec

=============================================================================
